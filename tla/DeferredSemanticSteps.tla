---------------------- MODULE DeferredSemanticSteps ----------------------
(***************************************************************************)
(* What each step of DeferredSemantic does, for all aggregates and         *)
(* programs: how it moves the call stack, what it writes, and that it      *)
(* keeps the types of the data and of the calls.  An effect (...Effect)    *)
(* says of an action what the invariants need; its lemma (...Core) derives *)
(* it from the action.  The first parts of the invariant follow, that of   *)
(* chains of base classes, of the retry loop and of modules.               *)
(***************************************************************************)
EXTENDS DeferredSemantic, SequenceTheorems, FiniteSetTheorems,
        WellFoundedInduction, TLAPS

-----------------------------------------------------------------------------
(***************************************************************************)
(* The call stack, the outermost call first, so that a call keeps its      *)
(* place while it waits.                                                   *)
(***************************************************************************)
Depth == Len(stack)

levels == [k \in 1..Depth |-> stack[Depth + 1 - k]]

Pcs == {"enter", "deferred", "round", "base", "based", "ancestors", "members", "fields",
        "sized", "final", "start", "next", "push"}

Procs == {"module", "runDeferred", "semantic", "variable", "determineSize",
          "determineFields", "finalizeSize"}

FrameSet == [proc : Procs, of : Agg \cup {Main, Imported}, i : Nat, pc : Pcs,
             sc : BOOLEAN, errors : Nat, todo : Seq(Agg)]

\* The innermost call returns; goes on as f; goes on as f and makes the call g.
Popped ==
    /\ Depth' = Depth - 1
    /\ \A k \in 1..Depth - 1 : levels'[k] = levels[k]

WentOn(f) ==
    /\ Depth' = Depth /\ levels'[Depth] = f
    /\ \A k \in 1..Depth - 1 : levels'[k] = levels[k]

Called(f, g) ==
    /\ Depth' = Depth + 1 /\ levels'[Depth] = f /\ levels'[Depth + 1] = g
    /\ \A k \in 1..Depth - 1 : levels'[k] = levels[k]

\* A sequence over a set is one over a larger set.
LEMMA WiderSeq ==
    ASSUME NEW S, NEW T, S \subseteq T, NEW s \in Seq(S)
    PROVE  s \in Seq(T)
<1>1. \A i \in 1..Len(s) : s[i] \in T
  BY ElementOfSeq
<1>2. s = [i \in 1..Len(s) |-> s[i]] /\ Len(s) \in Nat
  OBVIOUS
<1> QED BY <1>1, <1>2

\* The innermost call is at the end of the levels.
LEMMA TopLevel ==
    ASSUME NEW S, stack \in Seq(S), stack # <<>>
    PROVE  /\ Depth \in Nat \ {0} /\ Top = levels[Depth] /\ Top \in S
           /\ \A k \in 1..Depth : levels[k] \in S
<1>1. Depth \in Nat \ {0} /\ Top = stack[1]
  BY EmptySeq, LenProperties DEF Depth, Top
<1>2. \A k \in 1..Depth : Depth + 1 - k \in 1..Depth
  BY <1>1
<1>3. \A k \in 1..Depth : stack[k] \in S
  BY ElementOfSeq DEF Depth
<1>4. \A k \in 1..Depth : levels[k] = stack[Depth + 1 - k]
  BY DEF levels
<1>5. 1 \in 1..Depth /\ Depth \in 1..Depth /\ Depth + 1 - Depth = 1
  BY <1>1
<1> QED BY <1>1, <1>2, <1>3, <1>4, <1>5

LEMMA EmptyStack ==
    ASSUME NEW S, stack \in Seq(S)
    PROVE  Depth \in Nat /\ (stack = <<>> <=> Depth = 0)
  BY EmptySeq, LenProperties DEF Depth

LEMMA ReturnShape ==
    ASSUME NEW S, stack \in Seq(S), stack # <<>>, stack' = Tail(stack)
    PROVE  Popped /\ stack' \in Seq(S)
<1>1. Depth \in Nat \ {0}
  BY TopLevel
<1>2. /\ stack' \in Seq(S) /\ Len(stack') = Depth - 1
      /\ \A k \in 1..Depth - 1 : stack'[k] = stack[k + 1]
  BY HeadTailProperties DEF Depth
<1>3. Depth' = Depth - 1
  BY <1>2 DEF Depth
<1>4. ASSUME NEW k \in 1..Depth - 1
      PROVE  levels'[k] = levels[k]
  <2>1. /\ Depth - k \in 1..Depth - 1 /\ Depth - k + 1 = Depth + 1 - k
        /\ (Depth - 1) + 1 - k = Depth - k /\ k \in 1..Depth
    BY <1>1
  <2>2. levels'[k] = stack'[Depth - k] /\ levels[k] = stack[Depth + 1 - k]
    <3>1. levels' = [j \in 1..Depth - 1 |-> stack'[(Depth - 1) + 1 - j]]
      BY <1>3 DEF levels
    <3> QED BY <2>1, <3>1 DEF levels
  <2> QED BY <1>2, <2>1, <2>2
<1> QED BY <1>2, <1>3, <1>4 DEF Popped

LEMMA ContinueShape ==
    ASSUME NEW S, stack \in Seq(S), stack # <<>>, NEW f \in S, stack' = <<f>> \o Tail(stack)
    PROVE  WentOn(f) /\ stack' \in Seq(S)
<1>1. Depth \in Nat \ {0}
  BY TopLevel
<1>2. /\ Tail(stack) \in Seq(S) /\ Len(Tail(stack)) = Depth - 1
      /\ \A k \in 1..Depth - 1 : Tail(stack)[k] = stack[k + 1]
  BY HeadTailProperties DEF Depth
<1>3. <<f>> \in Seq(S) /\ Len(<<f>>) = 1 /\ <<f>>[1] = f
  OBVIOUS
<1>4. /\ stack' \in Seq(S) /\ Len(stack') = Depth /\ stack'[1] = f
      /\ \A k \in 2..Depth : stack'[k] = stack[k]
  BY <1>1, <1>2, <1>3, ConcatProperties
<1>5. Depth' = Depth
  BY <1>4 DEF Depth
<1>6. \A k \in 1..Depth : levels'[k] = stack'[Depth + 1 - k] /\ levels[k] = stack[Depth + 1 - k]
  BY <1>5 DEF levels
<1>7. \A k \in 1..Depth - 1 : Depth + 1 - k \in 2..Depth /\ k \in 1..Depth
  BY <1>1
<1>8. Depth \in 1..Depth /\ Depth + 1 - Depth = 1
  BY <1>1
<1>9. levels'[Depth] = f
  BY <1>4, <1>6, <1>8
<1>10. \A k \in 1..Depth - 1 : levels'[k] = levels[k]
  BY <1>4, <1>6, <1>7
<1> QED BY <1>4, <1>5, <1>9, <1>10 DEF WentOn

LEMMA CallShape ==
    ASSUME NEW S, stack \in Seq(S), stack # <<>>, NEW f \in S, NEW g \in S,
           stack' = <<g, f>> \o Tail(stack)
    PROVE  Called(f, g) /\ stack' \in Seq(S)
<1>1. Depth \in Nat \ {0}
  BY TopLevel
<1>2. /\ Tail(stack) \in Seq(S) /\ Len(Tail(stack)) = Depth - 1
      /\ \A k \in 1..Depth - 1 : Tail(stack)[k] = stack[k + 1]
  BY HeadTailProperties DEF Depth
<1>3. <<g, f>> \in Seq(S) /\ Len(<<g, f>>) = 2 /\ <<g, f>>[1] = g /\ <<g, f>>[2] = f
  OBVIOUS
<1>4. /\ stack' \in Seq(S) /\ Len(stack') = Depth + 1 /\ stack'[1] = g /\ stack'[2] = f
      /\ \A k \in 3..Depth + 1 : stack'[k] = stack[k - 1]
  BY <1>1, <1>2, <1>3, ConcatProperties
<1>5. Depth' = Depth + 1
  BY <1>4 DEF Depth
<1>6. /\ \A k \in 1..Depth + 1 : levels'[k] = stack'[Depth + 2 - k]
      /\ \A k \in 1..Depth : levels[k] = stack[Depth + 1 - k]
  <2>1. \A k \in 1..Depth + 1 : (Depth + 1) + 1 - k = Depth + 2 - k
    BY <1>1
  <2> QED BY <1>5, <2>1 DEF levels
<1>7. \A k \in 1..Depth - 1 : /\ Depth + 2 - k \in 3..Depth + 1 /\ k \in 1..Depth /\ k \in 1..Depth + 1
                             /\ (Depth + 2 - k) - 1 = Depth + 1 - k
  BY <1>1
<1>8. /\ Depth \in 1..Depth + 1 /\ Depth + 2 - Depth = 2
      /\ Depth + 1 \in 1..Depth + 1 /\ Depth + 2 - (Depth + 1) = 1
  BY <1>1
<1>9. \A k \in 1..Depth - 1 : levels'[k] = levels[k]
  BY <1>4, <1>6, <1>7
<1> QED BY <1>4, <1>5, <1>6, <1>8, <1>9 DEF Called

-----------------------------------------------------------------------------
(***************************************************************************)
(* The fields of the objects, one function for each.                       *)
(***************************************************************************)
Runs == {"init", "semantic", "done"}

AggSet ==
    [semanticRun : Runs, scope : BOOLEAN, symtab : BOOLEAN,
     baseok : {"none", "start", "done", "semanticdone"},
     baseClass : Class \cup {NoBase}, base : Class \cup {NoBase},
     terror : BOOLEAN, errors : BOOLEAN,
     sizeok : {"none", "fwd", "inProcess", "done"}, fields : Seq(Nat)]

VarSet == [semanticRun : Runs, scope : BOOLEAN, terror : BOOLEAN, placed : BOOLEAN]

runOf       == [a \in Agg |-> agg[a].semanticRun]
scopeOf     == [a \in Agg |-> agg[a].scope]
symtabOf    == [a \in Agg |-> agg[a].symtab]
baseokOf    == [a \in Agg |-> agg[a].baseok]
baseClassOf == [a \in Agg |-> agg[a].baseClass]
baseOf      == [a \in Agg |-> agg[a].base]
terrorOf    == [a \in Agg |-> agg[a].terror]
errorsOf    == [a \in Agg |-> agg[a].errors]
sizeokOf    == [a \in Agg |-> agg[a].sizeok]
fieldsOf    == [a \in Agg |-> agg[a].fields]

\* The variables of an aggregate that are analysed, and those that are bad.
doneOf == [a \in Agg |-> {i \in DOMAIN Members(a) : var[a][i].semanticRun = "done"}]
badOf  == [a \in Agg |-> {i \in DOMAIN Members(a) : var[a][i].terror}]

\* The aggregate a becomes r.
Became(a, r) ==
    /\ runOf' = [runOf EXCEPT ![a] = r.semanticRun]
    /\ scopeOf' = [scopeOf EXCEPT ![a] = r.scope]
    /\ symtabOf' = [symtabOf EXCEPT ![a] = r.symtab]
    /\ baseokOf' = [baseokOf EXCEPT ![a] = r.baseok]
    /\ baseClassOf' = [baseClassOf EXCEPT ![a] = r.baseClass]
    /\ baseOf' = [baseOf EXCEPT ![a] = r.base]
    /\ terrorOf' = [terrorOf EXCEPT ![a] = r.terror]
    /\ errorsOf' = [errorsOf EXCEPT ![a] = r.errors]
    /\ sizeokOf' = [sizeokOf EXCEPT ![a] = r.sizeok]
    /\ fieldsOf' = [fieldsOf EXCEPT ![a] = r.fields]

LEMMA Became_ ==
    ASSUME agg \in [Agg -> AggSet], NEW a \in Agg, NEW r \in AggSet,
           agg' = [agg EXCEPT ![a] = r]
    PROVE  Became(a, r) /\ agg' \in [Agg -> AggSet]
<1>1. agg' \in [Agg -> AggSet]
  OBVIOUS
<1>2. \A b \in Agg : agg'[b] = IF b = a THEN r ELSE agg[b]
  OBVIOUS
<1>3. runOf' = [runOf EXCEPT ![a] = r.semanticRun]
  BY <1>2 DEF runOf
<1>4. scopeOf' = [scopeOf EXCEPT ![a] = r.scope]
  BY <1>2 DEF scopeOf
<1>5. symtabOf' = [symtabOf EXCEPT ![a] = r.symtab]
  BY <1>2 DEF symtabOf
<1>6. baseokOf' = [baseokOf EXCEPT ![a] = r.baseok]
  BY <1>2 DEF baseokOf
<1>7. baseClassOf' = [baseClassOf EXCEPT ![a] = r.baseClass]
  BY <1>2 DEF baseClassOf
<1>8. baseOf' = [baseOf EXCEPT ![a] = r.base]
  BY <1>2 DEF baseOf
<1>9. terrorOf' = [terrorOf EXCEPT ![a] = r.terror]
  BY <1>2 DEF terrorOf
<1>10. errorsOf' = [errorsOf EXCEPT ![a] = r.errors]
  BY <1>2 DEF errorsOf
<1>11. sizeokOf' = [sizeokOf EXCEPT ![a] = r.sizeok]
  BY <1>2 DEF sizeokOf
<1>12. fieldsOf' = [fieldsOf EXCEPT ![a] = r.fields]
  BY <1>2 DEF fieldsOf
<1> QED BY <1>1, <1>3, <1>4, <1>5, <1>6, <1>7, <1>8, <1>9, <1>10, <1>11, <1>12 DEF Became

-----------------------------------------------------------------------------
(***************************************************************************)
(* The chains of base classes.                                             *)
(***************************************************************************)
Closed(next, S) == \A d \in S : next[d] \in S \cup {NoBase}

Chain(next, b) ==
    {c \in Class : \A S \in SUBSET Class : b \in S \cup {NoBase} /\ Closed(next, S) => c \in S}

LEMMA BaseChainIs ==
    \A b : BaseChain(b) = Chain(baseClassOf, b)
<1>1. \A S \in SUBSET Class : (\A d \in S : agg[d].baseClass \in S \cup {NoBase})
                              <=> Closed(baseClassOf, S)
  BY DEF baseClassOf, Closed, Agg
<1> QED BY <1>1 DEF BaseChain, Chain

LEMMA ChainFacts ==
    ASSUME NEW next \in [Agg -> Class \cup {NoBase}], NEW b \in Class \cup {NoBase}
    PROVE  /\ Chain(next, b) \subseteq Class /\ Closed(next, Chain(next, b))
           /\ b # NoBase => b \in Chain(next, b)
           /\ b = NoBase => Chain(next, b) = {}
           /\ \A S \in SUBSET Class : b \in S \cup {NoBase} /\ Closed(next, S)
                                        => Chain(next, b) \subseteq S
<1>1. NoBase \notin Class
  BY NamesAssumption DEF Agg
<1>2. \A S \in SUBSET Class : b \in S \cup {NoBase} /\ Closed(next, S) => Chain(next, b) \subseteq S
  BY DEF Chain
<1>3. Closed(next, Chain(next, b))
  <2> SUFFICES ASSUME NEW d \in Chain(next, b), next[d] # NoBase
               PROVE  next[d] \in Chain(next, b)
    BY DEF Closed
  <2>1. d \in Class /\ next[d] \in Class
    BY DEF Chain, Agg
  <2>2. ASSUME NEW S \in SUBSET Class, b \in S \cup {NoBase}, Closed(next, S)
        PROVE  next[d] \in S
    BY <2>2 DEF Chain, Closed
  <2> QED BY <2>1, <2>2 DEF Chain
<1>4. b # NoBase => b \in Chain(next, b)
  BY DEF Chain
<1>5. b = NoBase => Chain(next, b) = {}
  <2>1. Closed(next, {}) /\ {} \in SUBSET Class
    BY DEF Closed
  <2> QED BY <1>2, <2>1
<1> QED BY <1>2, <1>3, <1>4, <1>5 DEF Chain

\* A class that is given a base class, whose chain it is not in, closes no chain.
LEMMA LongerChains ==
    ASSUME NEW next \in [Agg -> Class \cup {NoBase}], NEW c \in Class, NEW b \in Class,
           \A d \in Class : d \notin Chain(next, next[d]), c \notin Chain(next, b)
    PROVE  \A d \in Class : d \notin Chain([next EXCEPT ![c] = b], [next EXCEPT ![c] = b][d])
<1> DEFINE longer == [next EXCEPT ![c] = b]
<1>1. /\ longer \in [Agg -> Class \cup {NoBase}] /\ longer[c] = b
      /\ \A d \in Agg : d # c => longer[d] = next[d]
  BY DEF Agg
<1>2. NoBase \notin Class /\ Class \subseteq Agg
  BY NamesAssumption DEF Agg
<1> SUFFICES ASSUME NEW d \in Class PROVE d \notin Chain(longer, longer[d])
  OBVIOUS
<1> HIDE DEF longer
<1>3. \A x \in Class \cup {NoBase} : c \notin Chain(next, x) => Chain(longer, x) \subseteq Chain(next, x)
  <2> SUFFICES ASSUME NEW x \in Class \cup {NoBase}, c \notin Chain(next, x)
               PROVE  Chain(longer, x) \subseteq Chain(next, x)
    OBVIOUS
  <2>1. Chain(next, x) \in SUBSET Class /\ x \in Chain(next, x) \cup {NoBase}
    BY ChainFacts
  <2>2. Closed(next, Chain(next, x))
    BY ChainFacts
  <2>3. Closed(longer, Chain(next, x))
    BY <1>1, <1>2, <2>1, <2>2 DEF Closed
  <2> QED BY <1>1, <2>1, <2>3, ChainFacts
<1>4. CASE d = c
  BY <1>1, <1>3, <1>4
<1>5. CASE d # c
  <2> DEFINE x == next[d]
             both == Chain(next, x) \cup Chain(next, b)
  <2>1. longer[d] = x /\ x \in Class \cup {NoBase} /\ d \notin Chain(next, x)
    BY <1>1, <1>2, <1>5
  <2>2. CASE c \notin Chain(next, x)
    BY <1>3, <2>1, <2>2
  <2>3. CASE c \in Chain(next, x)
    <3>1. Chain(longer, x) \subseteq both
      <4>1. both \in SUBSET Class /\ x \in both \cup {NoBase} /\ b \in both
        BY <2>1, <1>2, ChainFacts
      <4>2. Closed(next, Chain(next, x)) /\ Closed(next, Chain(next, b))
        BY <2>1, ChainFacts
      <4>3. Closed(longer, both)
        BY <1>1, <1>2, <4>1, <4>2 DEF Closed
      <4> QED BY <1>1, <2>1, <4>1, <4>3, ChainFacts
    <3>2. d \notin Chain(next, b)
      <4> SUFFICES ASSUME d \in Chain(next, b) PROVE FALSE
        OBVIOUS
      <4>1. Closed(next, Chain(next, b)) /\ Chain(next, b) \in SUBSET Class
        BY <1>2, ChainFacts
      <4>2. x \in Chain(next, b) \cup {NoBase}
        BY <4>1 DEF Closed
      <4>3. Chain(next, x) \subseteq Chain(next, b)
        BY <2>1, <4>1, <4>2, ChainFacts
      <4> QED BY <2>3, <4>3
    <3> QED BY <2>1, <3>1, <3>2
  <2> QED BY <2>2, <2>3
<1> QED BY <1>4, <1>5

-----------------------------------------------------------------------------
(***************************************************************************)
(* The calls there are, and who waits for whom.                            *)
(***************************************************************************)
FrameOK(f, p) ==
    /\ f.proc = "module" =>
         f.of \in {Main, Imported} /\ f.pc \in {"enter", "deferred"} /\ f.i \in Nat \ {0}
    /\ f.proc = "runDeferred" =>
         f.pc \in {"enter", "round"} /\ (f.pc = "round" => f.i \in Nat \ {0})
    /\ f.proc = "semantic" =>
         /\ f.of \in Agg
         /\ f.pc \in {"enter", "base", "based", "ancestors", "members", "fields"}
         /\ f.pc \in {"base", "based", "ancestors"} => f.of \in Class /\ f.i = 1
         /\ f.pc # "enter" => f.i \in Nat \ {0}
    /\ f.proc = "variable" =>
         /\ f.of \in Agg /\ f.pc \in {"enter", "sized"}
         /\ f.i \in DOMAIN p.members[f.of] /\ p.members[f.of][f.i].kind # Import
         /\ f.pc = "sized" => p.members[f.of][f.i].kind # "field"
    /\ f.proc = "determineSize" =>
         f.of \in Agg /\ f.pc \in {"enter", "base", "based", "fields", "final"}
    /\ f.proc = "determineFields" =>
         /\ f.of \in Agg /\ f.pc \in {"enter", "start", "next", "push"}
         /\ f.pc = "next" => f.i \in Nat \ {0}
         /\ f.pc = "push" => /\ f.i \in DOMAIN p.members[f.of]
                             /\ p.members[f.of][f.i].kind \in {"field", "sized"}
    /\ f.proc = "finalizeSize" =>
         /\ f.of \in Agg /\ f.pc \in {"enter", "next", "sized"}
         /\ f.pc = "next" => f.i \in Nat \ {0}
         /\ f.pc = "sized" => /\ f.i \in DOMAIN p.members[f.of]
                              /\ p.members[f.of][f.i].kind = "field"

Waits(f, g, p) ==
    /\ g.proc = "module" =>
         /\ g.of = Imported
         /\ \/ f.proc = "module" /\ f.pc = "deferred"
            \/ f.proc = "semantic" /\ f.pc = "members"
    /\ g.proc = "runDeferred" => f.proc = "module" /\ f.pc = "enter"
    /\ g.proc = "semantic" =>
         \/ /\ f.proc = "module" /\ f.pc = "deferred"
            /\ f.i \in DOMAIN p.items[f.of] /\ p.items[f.of][f.i] = g.of
         \/ f.proc = "runDeferred" /\ f.pc = "round"
         \/ f.proc = "semantic" /\ f.pc = "based"
         \/ f.proc = "determineSize" /\ f.pc = "base" /\ f.of = g.of
         \/ f.proc = "determineFields" /\ f.pc = "start"
    /\ g.proc = "variable" =>
         \/ f.proc = "semantic" /\ f.pc = "members" /\ f.of = g.of /\ f.i = g.i + 1 /\ g.sc
         \/ f.proc = "determineFields" /\ f.pc = "push"
    /\ g.proc = "determineSize" =>
         \/ f.proc = "variable" /\ f.pc = "sized" /\ g.of = p.members[f.of][f.i].of
         \/ f.proc = "determineSize" /\ f.pc = "based"
         \/ f.proc = "finalizeSize" /\ f.pc = "sized" /\ g.of = p.members[f.of][f.i].of
    /\ g.proc = "determineFields" =>
         f.proc \in {"semantic", "determineSize"} /\ f.pc = "fields" /\ f.of = g.of
    /\ g.proc = "finalizeSize" => f.proc = "determineSize" /\ f.pc = "final" /\ f.of = g.of

StackInv ==
    /\ stack \in Seq(FrameSet)
    /\ \A k \in 1..Depth : FrameOK(levels[k], program)
    /\ \A k \in 1..Depth - 1 : Waits(levels[k], levels[k + 1], program)

DataInv ==
    /\ program \in Programs
    /\ agg \in [Agg -> AggSet]
    /\ \A a \in Agg : fieldsOf[a] \in Seq(DOMAIN Members(a))
    /\ var = [a \in Agg |-> var[a]]
    /\ \A a \in Agg : var[a] \in [DOMAIN Members(a) -> VarSet]
    /\ started \subseteq {Main, Imported}
    /\ deferred \in Seq(Agg) /\ dprogress \in Nat /\ errors \in Nat
    /\ nested \in BOOLEAN /\ ret \in BOOLEAN
    /\ phase \in {"semantic", "deferred", "end"}

\* A base class, once there, is the one that is named, and no chain comes back.
ChainInv ==
    /\ \A a \in Agg : baseClassOf[a] \in {NoBase, baseOf[a]}
    /\ \A a \in Struct : baseOf[a] = NoBase
    /\ \A k \in 1..Depth : levels[k].proc = "semantic" /\ levels[k].pc = "based"
                           => baseClassOf[levels[k].of] # NoBase
    /\ \A c \in Class : c \notin Chain(baseClassOf, baseClassOf[c])

\* The stack after each of the three moves.
LEMMA PopStack ==
    ASSUME StackInv, stack # <<>>, program' = program, stack' = Tail(stack)
    PROVE  StackInv' /\ Popped
<1>1. Popped /\ stack' \in Seq(FrameSet) /\ Depth \in Nat \ {0}
  BY ReturnShape, TopLevel DEF StackInv
<1>2. \A k \in 1..Depth' : k \in 1..Depth - 1 /\ k \in 1..Depth
  BY <1>1 DEF Popped
<1>3. \A k \in 1..Depth' - 1 : k \in 1..Depth - 1 /\ k + 1 \in 1..Depth - 1
  BY <1>1 DEF Popped
<1>4. \A k \in 1..Depth' : FrameOK(levels'[k], program')
  BY <1>1, <1>2 DEF StackInv, Popped
<1>5. \A k \in 1..Depth' - 1 : Waits(levels'[k], levels'[k + 1], program')
  BY <1>1, <1>3 DEF StackInv, Popped
<1> QED BY <1>1, <1>4, <1>5 DEF StackInv

LEMMA ContinueStack ==
    ASSUME StackInv, stack # <<>>, program' = program, NEW f \in FrameSet, Continue(f),
           FrameOK(f, program), Depth > 1 => Waits(levels[Depth - 1], f, program)
    PROVE  StackInv' /\ WentOn(f)
<1>1. WentOn(f) /\ stack' \in Seq(FrameSet) /\ Depth \in Nat \ {0}
  BY ContinueShape, TopLevel DEF StackInv, Continue
<1>2. \A k \in 1..Depth' : (k \in 1..Depth - 1 /\ k \in 1..Depth) \/ k = Depth
  BY <1>1 DEF WentOn
<1>3. \A k \in 1..Depth' - 1 :
         /\ k \in 1..Depth - 1
         /\ \/ k + 1 \in 1..Depth - 1
            \/ k + 1 = Depth /\ k = Depth - 1 /\ Depth > 1
  BY <1>1 DEF WentOn
<1>4. \A k \in 1..Depth' : FrameOK(levels'[k], program')
  BY <1>1, <1>2 DEF StackInv, WentOn
<1>5. \A k \in 1..Depth' - 1 : Waits(levels'[k], levels'[k + 1], program')
  BY <1>1, <1>3 DEF StackInv, WentOn
<1> QED BY <1>1, <1>4, <1>5 DEF StackInv

LEMMA CallStack ==
    ASSUME StackInv, stack # <<>>, program' = program,
           NEW f \in FrameSet, NEW g \in FrameSet, Call(f, g),
           FrameOK(f, program), FrameOK(g, program), Waits(f, g, program),
           Depth > 1 => Waits(levels[Depth - 1], f, program)
    PROVE  StackInv' /\ Called(f, g)
<1>1. Called(f, g) /\ stack' \in Seq(FrameSet) /\ Depth \in Nat \ {0}
  BY CallShape, TopLevel DEF StackInv, Call
<1>2. \A k \in 1..Depth' : (k \in 1..Depth - 1 /\ k \in 1..Depth) \/ k = Depth \/ k = Depth + 1
  BY <1>1 DEF Called
<1>3. \A k \in 1..Depth' - 1 :
         \/ k \in 1..Depth - 1 /\ k + 1 \in 1..Depth - 1
         \/ k \in 1..Depth - 1 /\ k + 1 = Depth /\ k = Depth - 1 /\ Depth > 1
         \/ k = Depth
  BY <1>1 DEF Called
<1>4. \A k \in 1..Depth' : FrameOK(levels'[k], program')
  BY <1>1, <1>2 DEF StackInv, Called
<1>5. \A k \in 1..Depth' - 1 : Waits(levels'[k], levels'[k + 1], program')
  BY <1>1, <1>3 DEF StackInv, Called
<1> QED BY <1>1, <1>4, <1>5 DEF StackInv

-----------------------------------------------------------------------------
(***************************************************************************)
(* What the steps do.                                                      *)
(***************************************************************************)
LEMMA TopFacts ==
    ASSUME StackInv, stack # <<>>
    PROVE  /\ Depth \in Nat \ {0} /\ Top = levels[Depth] /\ Top \in FrameSet
           /\ FrameOK(Top, program)
           /\ Depth > 1 => Waits(levels[Depth - 1], Top, program)
<1>1. Depth \in Nat \ {0} /\ Top = levels[Depth] /\ Top \in FrameSet
  BY TopLevel DEF StackInv
<1>2. Depth \in 1..Depth /\ (Depth > 1 => Depth - 1 \in 1..Depth - 1 /\ (Depth - 1) + 1 = Depth)
  BY <1>1
<1> QED BY <1>1, <1>2 DEF StackInv

LEMMA GotoIs ==
    ASSUME Top \in FrameSet
    PROVE  /\ \A pc \in Pcs :
                /\ Goto(pc) \in FrameSet
                /\ Goto(pc).proc = Top.proc /\ Goto(pc).of = Top.of /\ Goto(pc).i = Top.i
                /\ Goto(pc).pc = pc /\ Goto(pc).sc = Top.sc
                /\ Goto(pc).errors = Top.errors /\ Goto(pc).todo = Top.todo
           /\ \A pc \in Pcs, i \in Nat :
                /\ GotoMember(pc, i) \in FrameSet
                /\ GotoMember(pc, i).proc = Top.proc /\ GotoMember(pc, i).of = Top.of
                /\ GotoMember(pc, i).i = i /\ GotoMember(pc, i).pc = pc
                /\ GotoMember(pc, i).sc = Top.sc /\ GotoMember(pc, i).errors = Top.errors
                /\ GotoMember(pc, i).todo = Top.todo
<1>1. ASSUME NEW pc \in Pcs
      PROVE  /\ Goto(pc) \in FrameSet
             /\ Goto(pc).proc = Top.proc /\ Goto(pc).of = Top.of /\ Goto(pc).i = Top.i
             /\ Goto(pc).pc = pc /\ Goto(pc).sc = Top.sc
             /\ Goto(pc).errors = Top.errors /\ Goto(pc).todo = Top.todo
  BY DEF Goto, FrameSet
<1>2. ASSUME NEW pc \in Pcs, NEW i \in Nat
      PROVE  /\ GotoMember(pc, i) \in FrameSet
             /\ GotoMember(pc, i).proc = Top.proc /\ GotoMember(pc, i).of = Top.of
             /\ GotoMember(pc, i).i = i /\ GotoMember(pc, i).pc = pc
             /\ GotoMember(pc, i).sc = Top.sc /\ GotoMember(pc, i).errors = Top.errors
             /\ GotoMember(pc, i).todo = Top.todo
  BY DEF GotoMember, FrameSet
<1> QED BY <1>1, <1>2

\* The frames that calls begin with.
LEMMA NewFrames ==
    /\ \A a \in Agg, sc \in BOOLEAN :
         /\ Semantic(a, sc) \in FrameSet /\ Semantic(a, sc).proc = "semantic"
         /\ Semantic(a, sc).of = a /\ Semantic(a, sc).pc = "enter"
         /\ Semantic(a, sc).sc = sc /\ Semantic(a, sc).errors = 0
    /\ \A a \in Agg, i \in Nat, sc \in BOOLEAN :
         /\ Variable(a, i, sc) \in FrameSet /\ Variable(a, i, sc).proc = "variable"
         /\ Variable(a, i, sc).of = a /\ Variable(a, i, sc).i = i
         /\ Variable(a, i, sc).pc = "enter" /\ Variable(a, i, sc).sc = sc
         /\ Variable(a, i, sc).errors = 0
    /\ \A a \in Agg :
         /\ DetermineSize(a) \in FrameSet /\ DetermineSize(a).proc = "determineSize"
         /\ DetermineSize(a).of = a /\ DetermineSize(a).pc = "enter" /\ DetermineSize(a).errors = 0
    /\ \A a \in Agg :
         /\ DetermineFields(a) \in FrameSet /\ DetermineFields(a).proc = "determineFields"
         /\ DetermineFields(a).of = a /\ DetermineFields(a).pc = "enter"
         /\ DetermineFields(a).errors = 0
    /\ \A a \in Agg :
         /\ FinalizeSize(a) \in FrameSet /\ FinalizeSize(a).proc = "finalizeSize"
         /\ FinalizeSize(a).of = a /\ FinalizeSize(a).pc = "enter" /\ FinalizeSize(a).errors = 0
    /\ \A m \in {Main, Imported} :
         /\ ModuleSemantic(m) \in FrameSet /\ ModuleSemantic(m).proc = "module"
         /\ ModuleSemantic(m).of = m /\ ModuleSemantic(m).pc = "enter"
         /\ ModuleSemantic(m).i = 1 /\ ModuleSemantic(m).errors = 0
    /\ RunDeferred \in FrameSet /\ RunDeferred.proc = "runDeferred" /\ RunDeferred.pc = "enter"
    /\ RunDeferred.errors = 0
<1>1. /\ "semantic" \in Procs /\ "variable" \in Procs /\ "determineSize" \in Procs
      /\ "determineFields" \in Procs /\ "finalizeSize" \in Procs /\ "module" \in Procs
      /\ "runDeferred" \in Procs
  BY DEF Procs
<1>2. <<>> \in Seq(Agg) /\ "enter" \in Pcs
  BY EmptySeq DEF Pcs
<1>3. /\ \A a \in Agg : a \in Agg \cup {Main, Imported}
      /\ \A m \in {Main, Imported} : m \in Agg \cup {Main, Imported}
  OBVIOUS
<1>4. \A a \in Agg, sc \in BOOLEAN :
         /\ Semantic(a, sc) \in FrameSet /\ Semantic(a, sc).proc = "semantic"
         /\ Semantic(a, sc).of = a /\ Semantic(a, sc).pc = "enter"
         /\ Semantic(a, sc).sc = sc /\ Semantic(a, sc).errors = 0
  BY <1>1, <1>2, <1>3 DEF Semantic, Frame, FrameSet
<1>5. \A a \in Agg, i \in Nat, sc \in BOOLEAN :
         /\ Variable(a, i, sc) \in FrameSet /\ Variable(a, i, sc).proc = "variable"
         /\ Variable(a, i, sc).of = a /\ Variable(a, i, sc).i = i
         /\ Variable(a, i, sc).pc = "enter" /\ Variable(a, i, sc).sc = sc
         /\ Variable(a, i, sc).errors = 0
  BY <1>1, <1>2, <1>3 DEF Variable, Frame, FrameSet
<1>6. \A a \in Agg :
         /\ DetermineSize(a) \in FrameSet /\ DetermineSize(a).proc = "determineSize"
         /\ DetermineSize(a).of = a /\ DetermineSize(a).pc = "enter" /\ DetermineSize(a).errors = 0
  BY <1>1, <1>2, <1>3 DEF DetermineSize, Frame, FrameSet
<1>7. \A a \in Agg :
         /\ DetermineFields(a) \in FrameSet /\ DetermineFields(a).proc = "determineFields"
         /\ DetermineFields(a).of = a /\ DetermineFields(a).pc = "enter"
         /\ DetermineFields(a).errors = 0
  BY <1>1, <1>2, <1>3 DEF DetermineFields, Frame, FrameSet
<1>8. \A a \in Agg :
         /\ FinalizeSize(a) \in FrameSet /\ FinalizeSize(a).proc = "finalizeSize"
         /\ FinalizeSize(a).of = a /\ FinalizeSize(a).pc = "enter" /\ FinalizeSize(a).errors = 0
  BY <1>1, <1>2, <1>3 DEF FinalizeSize, Frame, FrameSet
<1>9. \A m \in {Main, Imported} :
         /\ ModuleSemantic(m) \in FrameSet /\ ModuleSemantic(m).proc = "module"
         /\ ModuleSemantic(m).of = m /\ ModuleSemantic(m).pc = "enter"
         /\ ModuleSemantic(m).i = 1 /\ ModuleSemantic(m).errors = 0
  BY <1>1, <1>2, <1>3 DEF ModuleSemantic, Frame, FrameSet
<1>10. RunDeferred \in FrameSet /\ RunDeferred.proc = "runDeferred" /\ RunDeferred.pc = "enter"
       /\ RunDeferred.errors = 0
  BY <1>1, <1>2, <1>3 DEF RunDeferred, Frame, FrameSet
<1> QED BY <1>4, <1>5, <1>6, <1>7, <1>8, <1>9, <1>10

LEMMA WaitsKept ==
    ASSUME NEW f, NEW g, NEW h, NEW p, Waits(f, g, p), h.proc = g.proc, h.of = g.of,
           g.proc = "variable" => h.i = g.i /\ h.sc = g.sc
    PROVE  Waits(f, h, p)
  BY DEF Waits

LEMMA GoOn ==
    ASSUME StackInv, stack # <<>>, program' = program, NEW f \in FrameSet, Continue(f),
           FrameOK(f, program), f.proc = Top.proc, f.of = Top.of,
           Top.proc = "variable" => f.i = Top.i /\ f.sc = Top.sc
    PROVE  StackInv' /\ WentOn(f)
  BY TopFacts, WaitsKept, ContinueStack

LEMMA CallOn ==
    ASSUME StackInv, stack # <<>>, program' = program,
           NEW f \in FrameSet, NEW g \in FrameSet, Call(f, g),
           FrameOK(f, program), f.proc = Top.proc, f.of = Top.of,
           Top.proc = "variable" => f.i = Top.i /\ f.sc = Top.sc,
           FrameOK(g, program), Waits(f, g, program)
    PROVE  StackInv' /\ Called(f, g)
  BY TopFacts, WaitsKept, CallStack

-----------------------------------------------------------------------------
VarInv ==
    /\ var = [a \in Agg |-> var[a]]
    /\ \A a \in Agg : var[a] \in [DOMAIN Members(a) -> VarSet]

OthersOK ==
    /\ program \in Programs
    /\ started \subseteq {Main, Imported}
    /\ deferred \in Seq(Agg) /\ dprogress \in Nat /\ errors \in Nat
    /\ nested \in BOOLEAN /\ ret \in BOOLEAN
    /\ phase \in {"semantic", "deferred", "end"}

LEMMA DataParts ==
    DataInv <=> /\ OthersOK /\ VarInv /\ agg \in [Agg -> AggSet]
                /\ \A a \in Agg : fieldsOf[a] \in Seq(DOMAIN Members(a))
  BY DEF DataInv, OthersOK, VarInv

AggSame == UNCHANGED <<runOf, scopeOf, symtabOf, baseokOf, baseClassOf, baseOf,
                       terrorOf, errorsOf, sizeokOf, fieldsOf>>

VarSame == UNCHANGED <<doneOf, badOf>>

VarBecame(b, j, run, terror) ==
    /\ \A a \in Agg : (a # b => doneOf'[a] = doneOf[a] /\ badOf'[a] = badOf[a])
    /\ doneOf'[b] = IF run = "done" THEN doneOf[b] \cup {j} ELSE doneOf[b] \ {j}
    /\ badOf'[b] = IF terror THEN badOf[b] \cup {j} ELSE badOf[b] \ {j}

LEMMA SameAgg ==
    ASSUME agg' = agg
    PROVE  AggSame
  BY DEF AggSame, runOf, scopeOf, symtabOf, baseokOf, baseClassOf, baseOf, terrorOf,
         errorsOf, sizeokOf, fieldsOf

LEMMA SameVar ==
    ASSUME VarInv, program' = program, var' = var
    PROVE  VarInv' /\ VarSame
  BY DEF VarInv, VarSame, doneOf, badOf, Members

LEMMA SetVar ==
    ASSUME VarInv, program' = program, NEW b \in Agg, NEW j \in DOMAIN Members(b), NEW v \in VarSet,
           var' = [var EXCEPT ![b] = [var[b] EXCEPT ![j] = v]]
    PROVE  VarInv' /\ VarBecame(b, j, v.semanticRun, v.terror)
<1>1. DOMAIN var = Agg
  BY DEF VarInv
<1>2. \A a \in Agg : var'[a] = IF a = b THEN [var[b] EXCEPT ![j] = v] ELSE var[a]
  BY <1>1
<1>3. \A a \in Agg : var'[a] \in [DOMAIN Members(a) -> VarSet]
  BY <1>2 DEF VarInv
<1>4. var' = [a \in Agg |-> var'[a]]
  BY <1>1
<1>5. VarInv'
  BY <1>3, <1>4 DEF VarInv, Members
<1>6. var'[b][j] = v
  BY <1>2 DEF VarInv
<1>7. \A a \in Agg : \A i \in DOMAIN Members(a) : (a # b \/ i # j) => var'[a][i] = var[a][i]
  BY <1>2 DEF VarInv
<1>8. \A a \in Agg : Members(a)' = Members(a)
  BY DEF Members
<1>9. \A a \in Agg : a # b => doneOf'[a] = doneOf[a] /\ badOf'[a] = badOf[a]
  BY <1>7, <1>8 DEF doneOf, badOf
<1>10. doneOf'[b] = IF v.semanticRun = "done" THEN doneOf[b] \cup {j} ELSE doneOf[b] \ {j}
  <2>1. doneOf'[b] = {i \in DOMAIN Members(b) : var'[b][i].semanticRun = "done"}
    BY <1>8 DEF doneOf
  <2> QED BY <1>6, <1>7, <2>1 DEF doneOf
<1>11. badOf'[b] = IF v.terror THEN badOf[b] \cup {j} ELSE badOf[b] \ {j}
  <2>1. badOf'[b] = {i \in DOMAIN Members(b) : var'[b][i].terror}
    BY <1>8 DEF badOf
  <2> QED BY <1>6, <1>7, <2>1 DEF badOf
<1> QED BY <1>5, <1>9, <1>10, <1>11 DEF VarBecame

LEMMA DataSame ==
    ASSUME DataInv, program' = program, agg' = agg, var' = var, OthersOK'
    PROVE  DataInv' /\ AggSame /\ VarSame
<1>1. AggSame /\ VarSame /\ VarInv'
  BY SameAgg, SameVar, DataParts
<1>2. (agg \in [Agg -> AggSet])' /\ \A a \in Agg : fieldsOf'[a] \in Seq(DOMAIN Members(a)')
  BY <1>1, DataParts DEF AggSame, Members
<1> QED BY <1>1, <1>2, DataParts DEF OthersOK, DataInv, VarInv

LEMMA DataAgg ==
    ASSUME DataInv, program' = program, OthersOK', VarInv',
           NEW a \in Agg, NEW r \in AggSet, r.fields \in Seq(DOMAIN Members(a)),
           agg' = [agg EXCEPT ![a] = r]
    PROVE  DataInv' /\ Became(a, r)
<1>1. Became(a, r) /\ agg' \in [Agg -> AggSet]
  BY Became_ DEF DataInv
<1>2. fieldsOf \in [Agg -> Seq(Nat)]
  BY DEF DataInv, fieldsOf, AggSet
<1>3. \A b \in Agg : fieldsOf'[b] = IF b = a THEN r.fields ELSE fieldsOf[b]
  BY <1>1, <1>2 DEF Became
<1>4. \A b \in Agg : fieldsOf'[b] \in Seq(DOMAIN Members(b)')
  BY <1>3 DEF DataInv, Members
<1> QED BY <1>1, <1>4 DEF OthersOK, DataInv, VarInv

\* Where r agrees with what a was, nothing changes.
Unmoved(a, r) ==
    /\ r.semanticRun = agg[a].semanticRun => runOf' = runOf
    /\ r.scope = agg[a].scope => scopeOf' = scopeOf
    /\ r.symtab = agg[a].symtab => symtabOf' = symtabOf
    /\ r.baseok = agg[a].baseok => baseokOf' = baseokOf
    /\ r.baseClass = agg[a].baseClass => baseClassOf' = baseClassOf
    /\ r.base = agg[a].base => baseOf' = baseOf
    /\ r.terror = agg[a].terror => terrorOf' = terrorOf
    /\ r.errors = agg[a].errors => errorsOf' = errorsOf
    /\ r.sizeok = agg[a].sizeok => sizeokOf' = sizeokOf
    /\ r.fields = agg[a].fields => fieldsOf' = fieldsOf

LEMMA Updated ==
    ASSUME DataInv, program' = program, OthersOK', VarInv',
           NEW a \in Agg, NEW r \in AggSet, r.fields \in Seq(DOMAIN Members(a)),
           agg' = [agg EXCEPT ![a] = r]
    PROVE  DataInv' /\ Became(a, r) /\ Unmoved(a, r)
<1>1. DataInv' /\ Became(a, r)
  BY DataAgg
<1>2. r.semanticRun = agg[a].semanticRun => runOf' = runOf
  BY <1>1 DEF Became, runOf
<1>3. r.scope = agg[a].scope => scopeOf' = scopeOf
  BY <1>1 DEF Became, scopeOf
<1>4. r.symtab = agg[a].symtab => symtabOf' = symtabOf
  BY <1>1 DEF Became, symtabOf
<1>5. r.baseok = agg[a].baseok => baseokOf' = baseokOf
  BY <1>1 DEF Became, baseokOf
<1>6. r.baseClass = agg[a].baseClass => baseClassOf' = baseClassOf
  BY <1>1 DEF Became, baseClassOf
<1>7. r.base = agg[a].base => baseOf' = baseOf
  BY <1>1 DEF Became, baseOf
<1>8. r.terror = agg[a].terror => terrorOf' = terrorOf
  BY <1>1 DEF Became, terrorOf
<1>9. r.errors = agg[a].errors => errorsOf' = errorsOf
  BY <1>1 DEF Became, errorsOf
<1>10. r.sizeok = agg[a].sizeok => sizeokOf' = sizeokOf
  BY <1>1 DEF Became, sizeokOf
<1>11. r.fields = agg[a].fields => fieldsOf' = fieldsOf
  BY <1>1 DEF Became, fieldsOf
<1> QED BY <1>1, <1>2, <1>3, <1>4, <1>5, <1>6, <1>7, <1>8, <1>9, <1>10, <1>11 DEF Unmoved

-----------------------------------------------------------------------------
Kept == program' = program /\ AggSame /\ VarSame

\* What programs are made of.
LEMMA ProgramFacts ==
    ASSUME program \in Programs
    PROVE  /\ program.items \in [{Main, Imported} -> Seq(Agg \cup {Import})]
           /\ \A m \in {Main, Imported} : program.items[m] \in Seq(Agg \cup {Import})
           /\ program.items[Imported] # <<>> =>
                 \E j \in DOMAIN program.items[Main] : program.items[Main][j] = Import
           /\ \A a \in Agg : Members(a) \in Seq(Member) /\ DOMAIN Members(a) = 1..Len(Members(a))
           /\ \A a \in Agg : \A i \in DOMAIN Members(a) :
                /\ Members(a)[i].kind # Import => Members(a)[i].of \in Agg
                /\ Members(a)[i].kind = "field" => Members(a)[i].of \in Struct
                /\ Members(a)[i].kind \in {"field", "sized", "constant", Import}
           /\ program.base \in [Class -> Class \cup {NoBase}]
<1>1. /\ program.items \in [{Main, Imported} -> Seq(Agg \cup {Import})]
      /\ program.members \in [Agg -> Seq(Member)]
      /\ program.base \in [Class -> Class \cup {NoBase}]
      /\ program.items[Imported] # <<>> =>
            \E j \in DOMAIN program.items[Main] : program.items[Main][j] = Import
  BY ProgramsAssumption
<1>2. \A a \in Agg : Members(a) \in Seq(Member) /\ DOMAIN Members(a) = 1..Len(Members(a))
  BY <1>1 DEF Members
<1>3. \A m \in Member : /\ m.kind # Import => m.of \in Agg
                        /\ m.kind = "field" => m.of \in Struct
                        /\ m.kind \in {"field", "sized", "constant", Import}
  BY DEF Member, Agg, Import
<1>4. \A a \in Agg : \A i \in DOMAIN Members(a) : Members(a)[i] \in Member
  BY <1>2
<1> QED BY <1>1, <1>2, <1>3, <1>4

Quiet == Kept /\ errors' = errors /\ phase' = phase

\* The module at the top has reached member i and is at pc.
Reached(f, i, pc) ==
    /\ f \in FrameSet /\ f.proc = "module" /\ f.of = Top.of /\ f.i = i /\ f.pc = pc
    /\ f.errors = Top.errors

ModuleMemberEffect ==
    LET items == program.items[Top.of]
        i == Top.i
    IN /\ At("module", "enter") /\ Quiet /\ UNCHANGED <<nested, deferred>>
       /\ \/ i \notin DOMAIN items /\ Popped /\ started' = started
          \/ /\ i \in DOMAIN items /\ items[i] = Import /\ Imported \in started /\ started' = started
             /\ \E f : Reached(f, i, "deferred") /\ WentOn(f)
          \/ /\ i \in DOMAIN items /\ items[i] = Import /\ started' = started \cup {Imported}
             /\ \E f, g : /\ Reached(f, i, "deferred") /\ Called(f, g)
                          /\ g.proc = "module" /\ g.of = Imported /\ g.i = 1 /\ g.pc = "enter"
                          /\ g.errors = 0
          \/ /\ i \in DOMAIN items /\ items[i] # Import /\ started' = started
             /\ \E f, g : /\ Reached(f, i, "deferred") /\ Called(f, g)
                          /\ g.proc = "semantic" /\ g.of = items[i] /\ g.pc = "enter" /\ g.errors = 0

LEMMA ModuleMemberCore ==
    ASSUME DataInv, StackInv, ModuleMember
    PROVE  DataInv' /\ StackInv' /\ ModuleMemberEffect
<1> DEFINE items == program.items[Top.of]
           i == Top.i
           f == Goto("deferred")
           m == ModuleSemantic(Imported)
           g == Semantic(items[i], TRUE)
<1>1. /\ stack # <<>> /\ Top.proc = "module" /\ Top.pc = "enter" /\ program' = program
      /\ At("module", "enter")
      /\ UNCHANGED <<program, agg, var, deferred, dprogress, nested, errors, phase>>
  BY DEF ModuleMember, At
<1>2. Top \in FrameSet /\ Top.of \in {Main, Imported} /\ i \in Nat \ {0}
  BY <1>1, TopFacts DEF FrameOK
<1>3. /\ items \in Seq(Agg \cup {Import}) /\ program \in Programs
      /\ DOMAIN items = 1..Len(items) /\ Len(items) \in Nat
  BY <1>2, ProgramFacts DEF DataInv
<1>4. \/ i > Len(items) /\ stack' = Tail(stack) /\ started' = started /\ ret' = ret
      \/ /\ i <= Len(items) /\ items[i] = Import /\ ret' = ret
         /\ \/ Imported \in started /\ Continue(f) /\ started' = started
            \/ Call(f, m) /\ started' = started \cup {Imported}
      \/ /\ i <= Len(items) /\ items[i] # Import /\ ret' = ret
         /\ Call(f, g) /\ started' = started
  BY DEF ModuleMember, ImportModule, Return
<1>5. started' \subseteq {Main, Imported} /\ ret' = ret
  BY <1>4 DEF DataInv
<1>6. DataInv' /\ Quiet
  BY <1>1, <1>3, <1>5, DataSame DEF DataInv, OthersOK, Kept, Quiet
<1>7. f \in FrameSet /\ Reached(f, i, "deferred") /\ f.proc = Top.proc /\ f.of = Top.of
  BY <1>1, <1>2, GotoIs DEF Pcs, Reached
<1>8. FrameOK(f, program)
  BY <1>2, <1>7 DEF FrameOK, Reached
<1> HIDE DEF f
<1>9. CASE i > Len(items) /\ stack' = Tail(stack) /\ started' = started
  <2>1. i \notin DOMAIN items
    BY <1>2, <1>3, <1>9
  <2> QED BY <1>1, <1>6, <1>9, <2>1, PopStack DEF ModuleMemberEffect
<1>10. CASE /\ i <= Len(items) /\ items[i] = Import
            /\ \/ Imported \in started /\ Continue(f) /\ started' = started
               \/ Call(f, m) /\ started' = started \cup {Imported}
  <2>1. i \in DOMAIN items /\ items[i] = Import
    BY <1>2, <1>3, <1>10
  <2>2. CASE Imported \in started /\ Continue(f) /\ started' = started
    <3>1. StackInv' /\ WentOn(f)
      BY <1>1, <1>7, <1>8, <2>2, GoOn
    <3> QED BY <1>1, <1>6, <1>7, <2>1, <2>2, <3>1 DEF ModuleMemberEffect
  <2>3. CASE Call(f, m) /\ started' = started \cup {Imported}
    <3>1. /\ m \in FrameSet /\ m.proc = "module" /\ m.of = Imported /\ m.i = 1 /\ m.pc = "enter"
          /\ m.errors = 0
      BY NewFrames
    <3> HIDE DEF m
    <3>2. FrameOK(m, program) /\ Waits(f, m, program)
      BY <1>7, <3>1 DEF FrameOK, Waits, Reached
    <3>3. StackInv' /\ Called(f, m)
      BY <1>1, <1>7, <1>8, <2>3, <3>1, <3>2, CallOn
    <3> QED BY <1>1, <1>6, <1>7, <2>1, <2>3, <3>1, <3>3 DEF ModuleMemberEffect
  <2> QED BY <1>10, <2>2, <2>3
<1>11. CASE i <= Len(items) /\ items[i] # Import /\ Call(f, g) /\ started' = started
  <2>1. i \in DOMAIN items /\ items[i] \in Agg /\ items[i] # Import
    BY <1>2, <1>3, <1>11
  <2>2. g \in FrameSet /\ g.proc = "semantic" /\ g.of = items[i] /\ g.pc = "enter" /\ g.errors = 0
    BY <2>1, NewFrames
  <2> HIDE DEF g
  <2>3. FrameOK(g, program) /\ Waits(f, g, program)
    BY <1>7, <2>1, <2>2 DEF FrameOK, Waits, Reached
  <2>4. StackInv' /\ Called(f, g)
    BY <1>1, <1>7, <1>8, <1>11, <2>2, <2>3, CallOn
  <2> QED BY <1>1, <1>6, <1>7, <1>11, <2>1, <2>2, <2>4 DEF ModuleMemberEffect
<1> QED BY <1>4, <1>9, <1>10, <1>11

ModuleMemberDoneEffect ==
    /\ At("module", "deferred") /\ Quiet /\ UNCHANGED <<started, nested, deferred>>
    /\ \E f, g : /\ Reached(f, Top.i + 1, "enter") /\ Called(f, g)
                 /\ g.proc = "runDeferred" /\ g.pc = "enter" /\ g.errors = 0

LEMMA ModuleMemberDoneCore ==
    ASSUME DataInv, StackInv, ModuleMemberDone
    PROVE  DataInv' /\ StackInv' /\ ModuleMemberDoneEffect
<1>1. /\ stack # <<>> /\ Top.proc = "module" /\ Top.pc = "deferred" /\ program' = program
      /\ At("module", "deferred")
  BY DEF ModuleMemberDone, At
<1>2. Top \in FrameSet /\ Top.of \in {Main, Imported} /\ Top.i \in Nat \ {0}
  BY <1>1, TopFacts DEF FrameOK
<1>3. DataInv' /\ Quiet
  BY <1>1, DataSame DEF ModuleMemberDone, DataInv, OthersOK, Kept, Quiet
<1> DEFINE f == GotoMember("enter", Top.i + 1)
<1>4. f \in FrameSet /\ Reached(f, Top.i + 1, "enter") /\ f.proc = Top.proc /\ f.of = Top.of
  BY <1>1, <1>2, GotoIs DEF Pcs, Reached
<1>5. Call(f, RunDeferred)
  BY DEF ModuleMemberDone
<1> HIDE DEF f
<1>6. FrameOK(f, program)
  BY <1>2, <1>4 DEF FrameOK, Reached
<1>7. /\ RunDeferred \in FrameSet /\ FrameOK(RunDeferred, program) /\ Waits(f, RunDeferred, program)
      /\ RunDeferred.proc = "runDeferred" /\ RunDeferred.pc = "enter" /\ RunDeferred.errors = 0
  BY <1>4, NewFrames DEF FrameOK, Waits, Reached
<1>8. StackInv' /\ Called(f, RunDeferred)
  BY <1>1, <1>4, <1>5, <1>6, <1>7, CallOn
<1> QED BY <1>1, <1>3, <1>4, <1>7, <1>8 DEF ModuleMemberDoneEffect, ModuleMemberDone

RunDeferredAtOnceEffect ==
    /\ At("runDeferred", "enter") /\ Quiet /\ Popped /\ UNCHANGED <<started, nested, deferred>>

LEMMA RunDeferredAtOnceCore ==
    ASSUME DataInv, StackInv, RunDeferredAtOnce
    PROVE  DataInv' /\ StackInv' /\ RunDeferredAtOnceEffect
<1>1. stack # <<>> /\ program' = program
  BY DEF RunDeferredAtOnce, At
<1>2. DataInv' /\ Quiet
  BY <1>1, DataSame DEF RunDeferredAtOnce, DataInv, OthersOK, Kept, Return, Quiet
<1>3. StackInv' /\ Popped
  BY <1>1, PopStack DEF RunDeferredAtOnce, Return
<1> QED BY <1>2, <1>3 DEF RunDeferredAtOnce, RunDeferredAtOnceEffect

\* The round at the top has reached position i of the list it took over.
Retries(f, i, todo) ==
    /\ f \in FrameSet /\ f.proc = "runDeferred" /\ f.i = i /\ f.pc = "round" /\ f.todo = todo
    /\ f.errors = Top.errors

RoundBegun ==
    \/ Popped /\ nested' = FALSE /\ deferred' = deferred
    \/ /\ nested' = TRUE /\ deferred' = <<>>
       /\ \E f : Retries(f, 1, deferred) /\ WentOn(f)

\* A round that is begun.
LEMMA BeginRoundCore ==
    ASSUME DataInv, StackInv, stack # <<>>, Top.proc = "runDeferred", BeginRound,
           UNCHANGED <<program, agg, var, started, errors, phase>>
    PROVE  DataInv' /\ StackInv' /\ Quiet /\ RoundBegun
<1>1. Top \in FrameSet /\ program' = program
  BY TopFacts
<1>2. <<>> \in Seq(Agg)
  BY EmptySeq
<1>3. DataInv' /\ Quiet
  BY <1>1, <1>2, DataSame DEF BeginRound, DataInv, OthersOK, Kept, Return, Quiet
<1>4. CASE deferred = <<>>
  <2>1. stack' = Tail(stack) /\ nested' = FALSE /\ deferred' = deferred
    BY <1>4 DEF BeginRound, Return
  <2> QED BY <1>1, <1>3, <2>1, PopStack DEF RoundBegun
<1>5. CASE deferred # <<>>
  <2> DEFINE f == [Top EXCEPT !.pc = "round", !.i = 1, !.todo = deferred]
  <2>1. /\ f \in FrameSet /\ f.proc = "runDeferred" /\ f.of = Top.of /\ f.pc = "round"
        /\ f.i = 1 /\ f.todo = deferred /\ f.errors = Top.errors
    BY <1>1 DEF FrameSet, Pcs, DataInv
  <2>2. FrameOK(f, program)
    BY <2>1 DEF FrameOK
  <2>3. Continue(f) /\ nested' = TRUE /\ deferred' = <<>>
    BY <1>5 DEF BeginRound
  <2> HIDE DEF f
  <2>4. StackInv' /\ WentOn(f)
    BY <1>1, <2>1, <2>2, <2>3, GoOn
  <2> QED BY <1>3, <2>1, <2>3, <2>4 DEF RoundBegun, Retries
<1> QED BY <1>4, <1>5

RunDeferredEnterEffect ==
    /\ At("runDeferred", "enter") /\ ~nested /\ Quiet /\ UNCHANGED started /\ RoundBegun

LEMMA RunDeferredEnterCore ==
    ASSUME DataInv, StackInv, RunDeferredEnter
    PROVE  DataInv' /\ StackInv' /\ RunDeferredEnterEffect
  BY BeginRoundCore DEF RunDeferredEnter, RunDeferredEnterEffect, At

RunDeferredRoundDoneEffect ==
    /\ At("runDeferred", "round") /\ Top.i > Len(Top.todo) /\ Quiet /\ UNCHANGED started
    /\ RoundBegun

LEMMA RunDeferredRoundDoneCore ==
    ASSUME DataInv, StackInv, RunDeferredRoundDone
    PROVE  DataInv' /\ StackInv' /\ RunDeferredRoundDoneEffect
<1>1. stack # <<>> /\ program' = program /\ Top.proc = "runDeferred" /\ At("runDeferred", "round")
  BY DEF RunDeferredRoundDone, At
<1>2. CASE AnotherRound
  BY <1>1, <1>2, BeginRoundCore DEF RunDeferredRoundDone, RunDeferredRoundDoneEffect
<1>3. CASE ~AnotherRound
  <2>1. DataInv' /\ Quiet
    BY <1>1, <1>3, DataSame DEF RunDeferredRoundDone, DataInv, OthersOK, Kept, Return, Quiet
  <2>2. stack' = Tail(stack) /\ nested' = FALSE /\ deferred' = deferred
    BY <1>3 DEF RunDeferredRoundDone, Return
  <2>3. StackInv' /\ Popped
    BY <1>1, <2>2, PopStack
  <2> QED BY <1>1, <2>1, <2>2, <2>3 DEF RunDeferredRoundDone, RunDeferredRoundDoneEffect, RoundBegun
<1> QED BY <1>2, <1>3

RunDeferredSymbolEffect ==
    /\ At("runDeferred", "round") /\ Top.i \in DOMAIN Top.todo /\ Quiet
    /\ UNCHANGED <<started, nested, deferred>>
    /\ \E f, g : /\ Retries(f, Top.i + 1, Top.todo) /\ Called(f, g)
                 /\ g.proc = "semantic" /\ g.of = Top.todo[Top.i] /\ g.pc = "enter" /\ g.errors = 0

LEMMA RunDeferredSymbolCore ==
    ASSUME DataInv, StackInv, RunDeferredSymbol
    PROVE  DataInv' /\ StackInv' /\ RunDeferredSymbolEffect
<1>1. /\ stack # <<>> /\ program' = program /\ Top.proc = "runDeferred" /\ Top.pc = "round"
      /\ Top.i <= Len(Top.todo) /\ At("runDeferred", "round")
  BY DEF RunDeferredSymbol, At
<1>2. Top \in FrameSet /\ Top.i \in Nat /\ Top.todo \in Seq(Agg)
  BY <1>1, TopFacts DEF FrameSet
<1>3. DataInv' /\ Quiet
  BY <1>1, DataSame DEF RunDeferredSymbol, DataInv, OthersOK, Kept, Quiet
<1> DEFINE f == GotoMember("round", Top.i + 1)
           g == Semantic(Top.todo[Top.i], FALSE)
<1>4. Top.i \in Nat \ {0} /\ Top.i \in DOMAIN Top.todo /\ Top.todo[Top.i] \in Agg
  <2>1. Top.i \in Nat \ {0}
    BY <1>1, TopFacts DEF FrameOK
  <2>2. Top.i \in DOMAIN Top.todo
    BY <1>1, <1>2, <2>1
  <2> QED BY <1>2, <2>1, <2>2
<1>5. /\ f \in FrameSet /\ Retries(f, Top.i + 1, Top.todo) /\ f.proc = Top.proc /\ f.of = Top.of
  BY <1>1, <1>2, <1>4, GotoIs DEF Pcs, Retries
<1>6. g \in FrameSet /\ g.proc = "semantic" /\ g.of = Top.todo[Top.i] /\ g.pc = "enter" /\ g.errors = 0
  BY <1>4, NewFrames
<1>7. Call(f, g)
  BY DEF RunDeferredSymbol
<1> HIDE DEF f, g
<1>8. FrameOK(f, program)
  BY <1>4, <1>5 DEF FrameOK, Retries
<1>9. FrameOK(g, program) /\ Waits(f, g, program)
  BY <1>4, <1>5, <1>6 DEF FrameOK, Waits, Retries
<1>10. StackInv' /\ Called(f, g)
  BY <1>1, <1>5, <1>6, <1>7, <1>8, <1>9, CallOn
<1> QED BY <1>1, <1>3, <1>4, <1>5, <1>6, <1>10 DEF RunDeferredSymbolEffect, RunDeferredSymbol

\* What is recorded of an aggregate, by the functions.
LEMMA AggFields ==
    ASSUME agg \in [Agg -> AggSet], NEW a \in Agg
    PROVE  /\ agg[a] \in AggSet
           /\ runOf[a] = agg[a].semanticRun /\ scopeOf[a] = agg[a].scope
           /\ symtabOf[a] = agg[a].symtab /\ baseokOf[a] = agg[a].baseok
           /\ baseClassOf[a] = agg[a].baseClass /\ baseOf[a] = agg[a].base
           /\ terrorOf[a] = agg[a].terror /\ errorsOf[a] = agg[a].errors
           /\ sizeokOf[a] = agg[a].sizeok /\ fieldsOf[a] = agg[a].fields
  BY DEF runOf, scopeOf, symtabOf, baseokOf, baseClassOf, baseOf, terrorOf,
         errorsOf, sizeokOf, fieldsOf

\* The top call is about an aggregate.
LEMMA TopAgg ==
    ASSUME StackInv, stack # <<>>, Top.proc \notin {"module", "runDeferred"}
    PROVE  Top.of \in Agg
<1>1. Top.proc \in Procs /\ FrameOK(Top, program)
  BY TopFacts DEF FrameSet
<1> QED BY <1>1 DEF FrameOK, Procs

SemanticAtOnceEffect ==
    LET a == Top.of IN
    /\ At("semantic", "enter") /\ Popped
    /\ UNCHANGED <<scopeOf, symtabOf, baseokOf, baseClassOf, baseOf, errorsOf,
                   sizeokOf, fieldsOf, deferred, errors>>
    /\ \/ runOf[a] = "done" /\ UNCHANGED <<runOf, terrorOf>>
       \/ /\ runOf[a] = "semantic" /\ symtabOf[a] /\ ~scopeOf[a]
          /\ runOf' = [runOf EXCEPT ![a] = IF a \in Class THEN "done" ELSE runOf[a]]
          /\ terrorOf' = [terrorOf EXCEPT ![a] = terrorOf[a] \/ errorsOf[a]]

LEMMA SemanticAtOnceCore ==
    ASSUME DataInv, StackInv, SemanticAtOnce
    PROVE  DataInv' /\ StackInv' /\ program' = program /\ VarSame /\ SemanticAtOnceEffect
<1> DEFINE a == Top.of
<1>1. /\ stack # <<>> /\ program' = program /\ Top.proc = "semantic" /\ Top.pc = "enter"
      /\ stack' = Tail(stack)
  BY DEF SemanticAtOnce, At, Return
<1>2. a \in Agg /\ agg[a] \in AggSet
  BY <1>1, TopAgg DEF DataInv
<1>3. StackInv' /\ Popped
  BY <1>1, PopStack
<1>4. VarInv /\ VarInv' /\ VarSame /\ OthersOK'
  BY <1>1, SameVar, DataParts DEF SemanticAtOnce, OthersOK, Return
<1>5. CASE runOf[a] = "done"
  <2>1. agg' = agg
    BY <1>2, <1>5, AggFields DEF SemanticAtOnce, DataInv
  <2>2. DataInv' /\ AggSame
    BY <1>1, <1>4, <2>1, DataSame DEF SemanticAtOnce
  <2> QED BY <1>1, <1>3, <1>4, <1>5, <2>2 DEF SemanticAtOnceEffect, AggSame, SemanticAtOnce
<1>6. CASE runOf[a] # "done"
  <2> DEFINE r == [agg[a] EXCEPT !.terror = agg[a].terror \/ agg[a].errors,
                                 !.semanticRun = IF a \in Class THEN "done" ELSE agg[a].semanticRun]
  <2>1. agg' = [agg EXCEPT ![a] = r] /\ UnderWay(a)
    BY <1>2, <1>6, AggFields DEF SemanticAtOnce, DataInv
  <2>2. r \in AggSet /\ r.fields = agg[a].fields
    BY <1>2 DEF AggSet, Runs
  <2>3. r.fields \in Seq(DOMAIN Members(a))
    BY <1>2, <2>2, AggFields DEF DataInv
  <2>4. DataInv' /\ Became(a, r) /\ Unmoved(a, r)
    BY <1>1, <1>2, <1>4, <2>1, <2>2, <2>3, Updated
  <2>5. UNCHANGED <<scopeOf, symtabOf, baseokOf, baseClassOf, baseOf, errorsOf, sizeokOf, fieldsOf>>
    BY <1>2, <2>4 DEF Unmoved, AggSet
  <2>6. /\ runOf' = [runOf EXCEPT ![a] = IF a \in Class THEN "done" ELSE runOf[a]]
        /\ terrorOf' = [terrorOf EXCEPT ![a] = terrorOf[a] \/ errorsOf[a]]
    BY <1>2, <2>4, AggFields DEF Became, AggSet, DataInv
  <2> QED BY <1>1, <1>2, <1>3, <1>4, <2>1, <2>4, <2>5, <2>6, AggFields
          DEF SemanticAtOnceEffect, UnderWay, SemanticAtOnce, DataInv
<1> QED BY <1>5, <1>6

LEMMA DeclareVars ==
    ASSUME VarInv, program' = program, NEW a \in Agg,
           var' = [var EXCEPT ![a] = [i \in DOMAIN var[a] |-> [var[a][i] EXCEPT !.scope = TRUE]]]
    PROVE  VarInv' /\ VarSame
<1>1. DOMAIN var = Agg /\ DOMAIN var[a] = DOMAIN Members(a)
  BY DEF VarInv
<1>2. \A b \in Agg : var'[b] = IF b = a THEN [i \in DOMAIN Members(a) |-> [var[a][i] EXCEPT !.scope = TRUE]]
                               ELSE var[b]
  BY <1>1
<1>3. \A i \in DOMAIN Members(a) :
         /\ var[a][i] \in VarSet /\ [var[a][i] EXCEPT !.scope = TRUE] \in VarSet
         /\ [var[a][i] EXCEPT !.scope = TRUE].semanticRun = var[a][i].semanticRun
         /\ [var[a][i] EXCEPT !.scope = TRUE].terror = var[a][i].terror
  BY DEF VarInv, VarSet
<1>4. \A b \in Agg : var'[b] \in [DOMAIN Members(b) -> VarSet]
  BY <1>2, <1>3 DEF VarInv
<1>5. var' = [b \in Agg |-> var'[b]]
  BY <1>1
<1>6. \A b \in Agg : \A i \in DOMAIN Members(b) :
         var'[b][i].semanticRun = var[b][i].semanticRun /\ var'[b][i].terror = var[b][i].terror
  <2>1. \A i \in DOMAIN Members(a) :
           var'[a][i].semanticRun = var[a][i].semanticRun /\ var'[a][i].terror = var[a][i].terror
    <3>1. var'[a] = [i \in DOMAIN Members(a) |-> [var[a][i] EXCEPT !.scope = TRUE]]
      BY <1>2
    <3> QED BY <1>3, <3>1
  <2> QED BY <1>2, <2>1
<1>7. \A b \in Agg : Members(b)' = Members(b)
  BY DEF Members
<1>8. VarSame
  BY <1>6, <1>7 DEF VarSame, doneOf, badOf
<1> QED BY <1>4, <1>5, <1>8 DEF VarInv, Members

SemanticEnterEffect ==
    LET a == Top.of
        f == levels'[Depth]
    IN /\ At("semantic", "enter") /\ WentOn(f)
       /\ f.proc = "semantic" /\ f.of = a /\ f.i = 1 /\ f.errors = errors
       /\ f.pc = IF a \in Struct THEN "members"
                 ELSE IF baseokOf[a] \in {"none", "start"} THEN "base" ELSE "ancestors"
       /\ runOf[a] # "done" /\ ~(runOf[a] = "semantic" /\ symtabOf[a] /\ ~scopeOf[a])
       /\ runOf' = [runOf EXCEPT ![a] = "semantic"]
       /\ scopeOf' = [scopeOf EXCEPT ![a] = FALSE]
       /\ symtabOf' = [symtabOf EXCEPT ![a] = symtabOf[a] \/ a \in Struct]
       /\ terrorOf' = [terrorOf EXCEPT ![a] = terrorOf[a] \/ errorsOf[a]]
       /\ UNCHANGED <<baseokOf, baseClassOf, baseOf, errorsOf, sizeokOf, fieldsOf, deferred, errors>>

LEMMA SemanticEnterCore ==
    ASSUME DataInv, StackInv, SemanticEnter
    PROVE  DataInv' /\ StackInv' /\ program' = program /\ VarSame /\ SemanticEnterEffect
<1> DEFINE a == Top.of
           pc == IF a \in Struct THEN "members"
                 ELSE IF agg[a].baseok \in {"none", "start"} THEN "base" ELSE "ancestors"
           f == [Top EXCEPT !.errors = errors, !.i = 1, !.pc = pc]
           r == [agg[a] EXCEPT !.semanticRun = "semantic", !.scope = FALSE,
                               !.terror = agg[a].terror \/ agg[a].errors,
                               !.symtab = agg[a].symtab \/ a \in Struct]
<1>1. /\ stack # <<>> /\ program' = program /\ Top.proc = "semantic" /\ Top.pc = "enter"
      /\ Continue(f) /\ agg[a].semanticRun # "done" /\ ~UnderWay(a)
  BY DEF SemanticEnter, At
<1>2. a \in Agg /\ agg[a] \in AggSet /\ Top \in FrameSet /\ errors \in Nat
  BY <1>1, TopAgg, TopFacts DEF DataInv
<1>3. /\ f \in FrameSet /\ f.proc = "semantic" /\ f.of = a /\ f.i = 1 /\ f.errors = errors /\ f.pc = pc
  BY <1>1, <1>2 DEF FrameSet, Pcs
<1>4. FrameOK(f, program)
  BY <1>2, <1>3 DEF FrameOK, Agg
<1> HIDE DEF f
<1>5. StackInv' /\ WentOn(f) /\ levels'[Depth] = f
  BY <1>1, <1>3, <1>4, GoOn DEF WentOn
<1>6. VarInv' /\ VarSame
  <2>1. CASE a \in Struct
    BY <1>1, <1>2, <2>1, DeclareVars, DataParts DEF SemanticEnter
  <2>2. CASE a \notin Struct
    BY <1>1, <2>2, SameVar, DataParts DEF SemanticEnter
  <2> QED BY <2>1, <2>2
<1>7. OthersOK'
  BY <1>1, DataParts DEF SemanticEnter, OthersOK
<1>8. agg' = [agg EXCEPT ![a] = r]
  BY <1>2 DEF SemanticEnter, DataInv
<1>9. r \in AggSet /\ r.fields = agg[a].fields
  BY <1>2 DEF AggSet, Runs
<1>10. r.fields \in Seq(DOMAIN Members(a))
  BY <1>2, <1>9, AggFields DEF DataInv
<1>11. DataInv' /\ Became(a, r) /\ Unmoved(a, r)
  BY <1>1, <1>2, <1>6, <1>7, <1>8, <1>9, <1>10, Updated
<1>12. UNCHANGED <<baseokOf, baseClassOf, baseOf, errorsOf, sizeokOf, fieldsOf>>
  BY <1>2, <1>11 DEF Unmoved, AggSet
<1>13. /\ runOf' = [runOf EXCEPT ![a] = "semantic"]
       /\ scopeOf' = [scopeOf EXCEPT ![a] = FALSE]
       /\ symtabOf' = [symtabOf EXCEPT ![a] = symtabOf[a] \/ a \in Struct]
       /\ terrorOf' = [terrorOf EXCEPT ![a] = terrorOf[a] \/ errorsOf[a]]
  BY <1>2, <1>11, AggFields DEF Became, AggSet, DataInv
<1>14. UNCHANGED <<deferred, errors>> /\ At("semantic", "enter")
  BY DEF SemanticEnter
<1>15. /\ f.pc = IF a \in Struct THEN "members"
                 ELSE IF baseokOf[a] \in {"none", "start"} THEN "base" ELSE "ancestors"
       /\ runOf[a] # "done" /\ ~(runOf[a] = "semantic" /\ symtabOf[a] /\ ~scopeOf[a])
  BY <1>1, <1>2, <1>3, AggFields DEF UnderWay, DataInv
<1> QED BY <1>1, <1>3, <1>5, <1>6, <1>11, <1>12, <1>13, <1>14, <1>15 DEF SemanticEnterEffect

-----------------------------------------------------------------------------
(***************************************************************************)
(* The steps of variables and sizes.                                       *)
(***************************************************************************)
InnerProcs == {"variable", "determineSize", "determineFields", "finalizeSize"}

RunSame == UNCHANGED <<runOf, scopeOf, symtabOf, baseokOf, baseClassOf, baseOf>>

AllDone(a) == \A i \in DOMAIN Members(a) : Members(a)[i].kind # Import => i \in doneOf[a]

\* With no error reported, nothing is marked as bad.
NoBlame ==
    errors = 0 => \A a \in Agg : ~terrorOf[a] /\ ~errorsOf[a] /\ badOf[a] = {}

\* A call for a size or for the fields that fails leaves its aggregate marked
\* as bad, but for the fields that are asked for while one is not analysed.
RetInv ==
    Depth > 0 =>
        LET f == levels[Depth] IN
        /\ f.proc = "variable" /\ f.pc = "sized" /\ Members(f.of)[f.i].of \in Struct
              => ret \/ terrorOf[Members(f.of)[f.i].of]
        /\ f.proc = "finalizeSize" /\ f.pc = "sized" => ret \/ terrorOf[Members(f.of)[f.i].of]
        /\ f.proc = "semantic" /\ f.pc = "fields" => ret \/ (f.of \in Struct /\ terrorOf[f.of])

\* What an inner call has done when it returns.
Answered ==
    /\ Top.proc = "variable" => Top.i \in doneOf'[Top.of] \/ ~Top.sc
    /\ Top.proc = "determineSize" => ret' \/ terrorOf'[Top.of]
    /\ Top.proc = "determineFields" =>
         \/ ret' \/ ~AllDone(Top.of)
         \/ Top.of \in Struct /\ terrorOf'[Top.of]

InnerMove ==
    \/ Popped /\ Answered
    \/ \E f \in FrameSet :
         /\ WentOn(f) /\ f.proc = Top.proc /\ f.errors = Top.errors
         /\ f.proc = "variable" => Members(f.of)[f.i].of \in Class
         /\ f.proc = "finalizeSize" => f.pc # "sized"
    \/ \E f, g \in FrameSet :
         /\ Called(f, g) /\ f.proc = Top.proc /\ f.errors = Top.errors
         /\ g.pc = "enter" /\ g.errors = 0 /\ g.proc \in InnerProcs \cup {"semantic"}

InnerEffect ==
    /\ stack # <<>> /\ Top.proc \in InnerProcs /\ InnerMove
    /\ RunSame /\ UNCHANGED <<program, started, deferred, nested, phase>>
    /\ errors <= errors'
    /\ \A a \in Agg : doneOf[a] \subseteq doneOf'[a] /\ (terrorOf[a] => terrorOf'[a])

LEMMA VarFacts ==
    ASSUME VarInv, NEW a \in Agg, NEW i \in DOMAIN Members(a)
    PROVE  /\ var[a][i] \in VarSet /\ var[a][i].scope \in BOOLEAN /\ var[a][i].terror \in BOOLEAN
           /\ i \in doneOf[a] <=> var[a][i].semanticRun = "done"
           /\ i \in badOf[a] <=> var[a][i].terror
           /\ DOMAIN var[a] = DOMAIN Members(a)
  BY DEF VarInv, VarSet, doneOf, badOf

\* The part of an aggregate that the inner steps write.
LEMMA InnerUpdated ==
    ASSUME DataInv, program' = program, OthersOK', VarInv',
           NEW a \in Agg, NEW r \in AggSet, r.fields \in Seq(DOMAIN Members(a)),
           r.semanticRun = agg[a].semanticRun, r.scope = agg[a].scope, r.symtab = agg[a].symtab,
           r.baseok = agg[a].baseok, r.baseClass = agg[a].baseClass, r.base = agg[a].base,
           agg' = [agg EXCEPT ![a] = r]
    PROVE  DataInv' /\ RunSame /\ Became(a, r) /\ Unmoved(a, r)
<1>1. DataInv' /\ Became(a, r) /\ Unmoved(a, r)
  BY Updated
<1> QED BY <1>1 DEF Unmoved, RunSame

\* A step that leaves the objects alone.
LEMMA InnerSame ==
    ASSUME DataInv, NoBlame, program' = program, agg' = agg, var' = var, errors' = errors, OthersOK'
    PROVE  /\ DataInv' /\ RunSame /\ NoBlame' /\ errors <= errors'
           /\ UNCHANGED <<terrorOf, errorsOf, sizeokOf, fieldsOf, doneOf, badOf>>
           /\ \A a \in Agg : doneOf[a] \subseteq doneOf'[a] /\ (terrorOf[a] => terrorOf'[a])
<1>1. DataInv' /\ AggSame /\ VarSame
  BY DataSame
<1>2. errors \in Nat
  BY DEF DataInv
<1> QED BY <1>1, <1>2 DEF AggSame, VarSame, RunSame, NoBlame

LEMMA VariableAtOnceCore ==
    ASSUME DataInv, StackInv, NoBlame, VariableAtOnce
    PROVE  DataInv' /\ StackInv' /\ NoBlame' /\ InnerEffect
<1>1. /\ stack # <<>> /\ program' = program /\ Top.proc = "variable" /\ Top.pc = "enter"
      /\ stack' = Tail(stack)
      /\ var[Top.of][Top.i].semanticRun = "done" \/ ~Top.sc
  BY DEF VariableAtOnce, At, Return
<1>2. Top.of \in Agg /\ Top.i \in DOMAIN Members(Top.of)
  BY <1>1, TopFacts DEF FrameOK, Members
<1>3. OthersOK'
  BY <1>1, DataParts DEF VariableAtOnce, OthersOK, Return
<1>4. /\ DataInv' /\ RunSame /\ NoBlame' /\ errors <= errors' /\ doneOf' = doneOf
      /\ \A a \in Agg : doneOf[a] \subseteq doneOf'[a] /\ (terrorOf[a] => terrorOf'[a])
  BY <1>1, <1>3, InnerSame DEF VariableAtOnce
<1>5. Answered
  BY <1>1, <1>2, <1>4, VarFacts, DataParts DEF Answered
<1>6. StackInv' /\ Popped
  BY <1>1, PopStack
<1> QED BY <1>1, <1>4, <1>5, <1>6 DEF InnerEffect, InnerMove, InnerProcs, VariableAtOnce

\* A variable that is typed, and what is reported of it.
LEMMA TypedCore ==
    ASSUME DataInv, program' = program, NEW a \in Agg, NEW i \in DOMAIN Members(a),
           NEW bad \in BOOLEAN, NEW reported \in Nat, Typed(a, i, bad, reported), agg' = agg,
           UNCHANGED <<started, deferred, dprogress, nested, ret, phase>>
    PROVE  /\ DataInv' /\ AggSame /\ VarBecame(a, i, "done", bad)
           /\ errors' \in Nat /\ errors + reported <= errors'
<1> DEFINE v == [var[a][i] EXCEPT !.semanticRun = "done", !.terror = bad]
           more == IF IsField(a, i) /\ agg[a].sizeok = "done" THEN 1 ELSE 0
<1>1. VarInv /\ var[a][i] \in VarSet
  BY VarFacts, DataParts
<1>2. v \in VarSet /\ v.semanticRun = "done" /\ v.terror = bad
  BY <1>1 DEF VarSet, Runs
<1>3. var' = [var EXCEPT ![a] = [var[a] EXCEPT ![i] = v]]
  BY <1>1 DEF Typed, VarInv
<1>4. VarInv' /\ VarBecame(a, i, "done", bad)
  <2> HIDE DEF v
  <2> QED BY <1>1, <1>2, <1>3, SetVar
<1>5. errors' \in Nat /\ errors + reported <= errors'
  <2>1. errors' = errors + reported + more /\ errors \in Nat
    BY DEF Typed, DataInv
  <2>2. more \in Nat
    OBVIOUS
  <2> HIDE DEF more
  <2> QED BY <2>1, <2>2
<1>6. AggSame
  BY SameAgg
<1>7. OthersOK'
  BY <1>5, DataParts DEF OthersOK
<1>8. (agg \in [Agg -> AggSet])' /\ \A b \in Agg : fieldsOf'[b] \in Seq(DOMAIN Members(b)')
  BY <1>6, DataParts DEF AggSame, Members
<1> QED BY <1>4, <1>5, <1>6, <1>7, <1>8, DataParts DEF OthersOK, DataInv, VarInv

\* It is marked as bad only after an error.
LEMMA TypedInner ==
    ASSUME DataInv, StackInv, NoBlame, stack # <<>>, Top.proc = "variable", stack' = Tail(stack),
           program' = program, NEW bad \in BOOLEAN, NEW reported \in Nat,
           Typed(Top.of, Top.i, bad, reported), agg' = agg,
           UNCHANGED <<started, deferred, dprogress, nested, ret, phase>>,
           bad => errors + reported # 0
    PROVE  DataInv' /\ StackInv' /\ NoBlame' /\ InnerEffect
<1>1. Top.of \in Agg /\ Top.i \in DOMAIN Members(Top.of) /\ Top.proc \in InnerProcs
  BY TopFacts DEF FrameOK, Members, InnerProcs
<1>2. /\ DataInv' /\ AggSame /\ VarBecame(Top.of, Top.i, "done", bad)
      /\ errors' \in Nat /\ errors + reported <= errors' /\ errors \in Nat
  BY <1>1, TypedCore DEF DataInv
<1>3. StackInv' /\ Popped
  BY PopStack
<1>4. /\ Top.i \in doneOf'[Top.of]
      /\ \A a \in Agg : doneOf[a] \subseteq doneOf'[a]
  BY <1>2 DEF VarBecame
<1>5. NoBlame'
  <2> SUFFICES ASSUME errors' = 0 PROVE \A a \in Agg : ~terrorOf'[a] /\ ~errorsOf'[a] /\ badOf'[a] = {}
    BY DEF NoBlame
  <2>1. errors = 0 /\ errors + reported = 0
    BY <1>2
  <2>2. ~bad
    BY <2>1
  <2> QED BY <1>2, <2>1, <2>2 DEF NoBlame, VarBecame, AggSame
<1>6. Answered
  BY <1>4 DEF Answered
<1>7. errors <= errors'
  BY <1>2
<1> QED BY <1>1, <1>2, <1>3, <1>4, <1>5, <1>6, <1>7 DEF InnerEffect, InnerMove, RunSame, AggSame

LEMMA VariableOfStructCore ==
    ASSUME DataInv, StackInv, NoBlame, VariableOfStruct
    PROVE  DataInv' /\ StackInv' /\ NoBlame' /\ InnerEffect
<1> DEFINE s == Members(Top.of)[Top.i].of
<1>1. /\ stack # <<>> /\ program' = program /\ Top.proc = "variable" /\ stack' = Tail(stack)
      /\ Typed(Top.of, Top.i, agg[s].terror, 0) /\ agg' = agg
      /\ UNCHANGED <<started, deferred, dprogress, nested, ret, phase>>
  BY DEF VariableOfStruct, At, Return
<1>2. Top.of \in Agg /\ Top.i \in DOMAIN Members(Top.of) /\ Members(Top.of)[Top.i].kind = "field"
  BY <1>1, TopFacts DEF FrameOK, Members, VariableOfStruct
<1>3. s \in Agg
  BY <1>2, ProgramFacts DEF DataInv, Agg
<1>4. agg[s].terror \in BOOLEAN /\ terrorOf[s] = agg[s].terror /\ errors \in Nat
  BY <1>3, AggFields DEF DataInv, AggSet
<1>5. agg[s].terror => errors + 0 # 0
  <2> HIDE DEF s
  <2>1. terrorOf[s] => errors # 0
    BY <1>3 DEF NoBlame
  <2>2. errors + 0 = errors
    BY <1>4
  <2> QED BY <1>4, <2>1, <2>2
<1> QED BY <1>1, <1>4, <1>5, TypedInner

LEMMA VariableSizedCore ==
    ASSUME DataInv, StackInv, NoBlame, RetInv, VariableSized
    PROVE  DataInv' /\ StackInv' /\ NoBlame' /\ InnerEffect
<1> DEFINE s == Members(Top.of)[Top.i].of
           bad == IF s \in Class THEN agg[s].sizeok # "done" ELSE ~ret
           reported == IF s \in Class /\ bad THEN 1 ELSE 0
<1>1. /\ stack # <<>> /\ program' = program /\ Top.proc = "variable" /\ Top.pc = "sized"
      /\ stack' = Tail(stack) /\ Typed(Top.of, Top.i, bad, reported) /\ agg' = agg
      /\ UNCHANGED <<started, deferred, dprogress, nested, ret, phase>>
  BY DEF VariableSized, At, Return
<1>2. Top.of \in Agg /\ Top.i \in DOMAIN Members(Top.of) /\ Members(Top.of)[Top.i].kind # Import
  BY <1>1, TopFacts DEF FrameOK, Members
<1>3. s \in Agg /\ errors \in Nat /\ ret \in BOOLEAN
  BY <1>2, ProgramFacts DEF DataInv
<1>4. Depth > 0 /\ Top = levels[Depth]
  BY <1>1, TopFacts
<1>5. bad \in BOOLEAN /\ reported \in Nat
  BY <1>3
<1>6. bad => errors + reported # 0
  <2>1. CASE s \in Class
    BY <1>3, <2>1
  <2>2. CASE s \notin Class
    BY <1>1, <1>3, <1>4, <2>2 DEF RetInv, NoBlame, Agg
  <2> QED BY <2>1, <2>2
<1> HIDE DEF bad, reported
<1> QED BY <1>1, <1>5, <1>6, TypedInner

LEMMA VariableOfSizeCore ==
    ASSUME DataInv, StackInv, NoBlame, VariableOfSize
    PROVE  DataInv' /\ StackInv' /\ NoBlame' /\ InnerEffect
<1> DEFINE a == Top.of
           i == Top.i
           s == Members(a)[i].of
           v == [var[a][i] EXCEPT !.semanticRun = "semantic", !.scope = FALSE]
           f == Goto("sized")
           g == DetermineSize(s)
<1>1. /\ stack # <<>> /\ program' = program /\ Top.proc = "variable" /\ Top.pc = "enter"
      /\ Members(a)[i].kind # "field" /\ var[a][i].semanticRun # "done"
      /\ agg' = agg /\ UNCHANGED <<started, deferred, dprogress, nested, errors, ret, phase>>
  BY DEF VariableOfSize, At
<1>2. \/ s \in Class /\ Continue(f)
      \/ Call(f, g)
  BY DEF VariableOfSize
<1>3. a \in Agg /\ i \in DOMAIN Members(a) /\ Members(a)[i].kind # Import /\ Top \in FrameSet
  BY <1>1, TopFacts DEF FrameOK, Members
<1>4. s \in Agg
  BY <1>3, ProgramFacts DEF DataInv
<1>5. /\ f \in FrameSet /\ f.proc = "variable" /\ f.of = a /\ f.i = i /\ f.pc = "sized"
      /\ f.errors = Top.errors /\ f.sc = Top.sc
  BY <1>1, <1>3, GotoIs DEF Pcs
<1>6. FrameOK(f, program)
  BY <1>1, <1>3, <1>5 DEF FrameOK, Members
<1>7. g \in FrameSet /\ g.proc = "determineSize" /\ g.of = s /\ g.pc = "enter" /\ g.errors = 0
  BY <1>4, NewFrames
<1>8. FrameOK(g, program) /\ Waits(f, g, program)
  BY <1>4, <1>5, <1>7 DEF FrameOK, Waits, Members
<1>9. VarInv' /\ VarBecame(a, i, v.semanticRun, v.terror)
  <2>1. VarInv /\ var[a][i] \in VarSet
    BY <1>3, VarFacts, DataParts
  <2>2. v \in VarSet
    BY <2>1 DEF VarSet, Runs
  <2>3. var' = [var EXCEPT ![a] = [var[a] EXCEPT ![i] = v]]
    BY <1>3, <2>1 DEF VariableOfSize, VarInv
  <2> HIDE DEF v
  <2> QED BY <1>1, <1>3, <2>1, <2>2, <2>3, SetVar
<1>10. /\ \A b \in Agg : doneOf[b] \subseteq doneOf'[b]
       /\ \A b \in Agg : badOf'[b] = badOf[b]
  <2>1. /\ i \notin doneOf[a] /\ (i \in badOf[a] <=> var[a][i].terror)
        /\ v.semanticRun # "done" /\ v.terror = var[a][i].terror
    BY <1>1, <1>3, VarFacts, DataParts DEF VarSet
  <2> QED BY <1>9, <2>1 DEF VarBecame
<1>11. AggSame
  BY <1>1, SameAgg
<1>12. /\ (agg \in [Agg -> AggSet])' /\ \A b \in Agg : fieldsOf'[b] \in Seq(DOMAIN Members(b)')
       /\ OthersOK'
  BY <1>1, <1>11, DataParts DEF AggSame, Members, OthersOK
<1>13. DataInv'
  BY <1>9, <1>12, DataParts DEF OthersOK, DataInv, VarInv
<1>14. NoBlame' /\ errors <= errors'
  <2>1. errors' = errors /\ errors \in Nat /\ terrorOf' = terrorOf /\ errorsOf' = errorsOf
    BY <1>1, <1>11 DEF AggSame, DataInv
  <2>2. NoBlame'
    BY <1>10, <2>1 DEF NoBlame
  <2> QED BY <2>1, <2>2
<1> HIDE DEF f, g, v
<1>15. StackInv' /\ InnerMove
  <2>1. CASE s \in Class /\ Continue(f)
    <3>1. StackInv' /\ WentOn(f)
      BY <1>1, <1>5, <1>6, <2>1, GoOn
    <3> QED BY <1>1, <1>5, <2>1, <3>1 DEF InnerMove
  <2>2. CASE Call(f, g)
    <3>1. StackInv' /\ Called(f, g)
      BY <1>1, <1>5, <1>6, <1>7, <1>8, <2>2, CallOn
    <3> QED BY <1>1, <1>5, <1>7, <3>1 DEF InnerMove, InnerProcs
  <2> QED BY <1>2, <2>1, <2>2
<1> QED BY <1>1, <1>10, <1>11, <1>13, <1>14, <1>15 DEF InnerEffect, InnerProcs, RunSame, AggSame

\* A step that changes nothing but the stack: it goes on, or calls.
StackOnly ==
    UNCHANGED <<program, agg, var, started, deferred, dprogress, nested, errors, ret, phase>>

LEMMA InnerGoes ==
    ASSUME DataInv, StackInv, NoBlame, stack # <<>>, Top.proc \in InnerProcs \ {"variable"},
           StackOnly, NEW f \in FrameSet, FrameOK(f, program), f.proc = Top.proc, f.of = Top.of,
           f.errors = Top.errors, Top.proc = "finalizeSize" => f.pc # "sized", Continue(f)
    PROVE  DataInv' /\ StackInv' /\ NoBlame' /\ InnerEffect
<1>1. OthersOK'
  BY DataParts DEF OthersOK, StackOnly
<1>2. /\ DataInv' /\ RunSame /\ NoBlame' /\ errors <= errors'
      /\ \A a \in Agg : doneOf[a] \subseteq doneOf'[a] /\ (terrorOf[a] => terrorOf'[a])
  BY <1>1, InnerSame DEF StackOnly
<1>3. StackInv' /\ WentOn(f)
  BY GoOn DEF StackOnly
<1>4. InnerMove
  BY <1>3 DEF InnerMove
<1> QED BY <1>2, <1>3, <1>4 DEF InnerEffect, StackOnly

LEMMA InnerCalls ==
    ASSUME DataInv, StackInv, NoBlame, stack # <<>>, Top.proc \in InnerProcs \ {"variable"},
           StackOnly, NEW f \in FrameSet, FrameOK(f, program), f.proc = Top.proc, f.of = Top.of,
           f.errors = Top.errors,
           NEW g \in FrameSet, FrameOK(g, program), Waits(f, g, program),
           g.pc = "enter", g.errors = 0, g.proc \in InnerProcs \cup {"semantic"}, Call(f, g)
    PROVE  DataInv' /\ StackInv' /\ NoBlame' /\ InnerEffect
<1>1. OthersOK'
  BY DataParts DEF OthersOK, StackOnly
<1>2. /\ DataInv' /\ RunSame /\ NoBlame' /\ errors <= errors'
      /\ \A a \in Agg : doneOf[a] \subseteq doneOf'[a] /\ (terrorOf[a] => terrorOf'[a])
  BY <1>1, InnerSame DEF StackOnly
<1>3. StackInv' /\ Called(f, g)
  BY CallOn DEF StackOnly
<1>4. InnerMove
  BY <1>3 DEF InnerMove
<1> QED BY <1>2, <1>3, <1>4 DEF InnerEffect, StackOnly

LEMMA SizeAtOnceCore ==
    ASSUME DataInv, StackInv, NoBlame, SizeAtOnce
    PROVE  DataInv' /\ StackInv' /\ NoBlame' /\ InnerEffect
<1>1. /\ stack # <<>> /\ program' = program /\ Top.proc = "determineSize"
      /\ stack' = Tail(stack) /\ ret' = ~agg[Top.of].terror
  BY DEF SizeAtOnce, At, ReturnValue
<1>2. Top.of \in Agg
  BY <1>1, TopAgg
<1>3. agg[Top.of].terror \in BOOLEAN /\ terrorOf[Top.of] = agg[Top.of].terror
  BY <1>2, AggFields DEF DataInv, AggSet
<1>4. OthersOK'
  BY <1>1, <1>3, DataParts DEF SizeAtOnce, OthersOK
<1>5. /\ DataInv' /\ RunSame /\ NoBlame' /\ errors <= errors' /\ terrorOf' = terrorOf
      /\ \A a \in Agg : doneOf[a] \subseteq doneOf'[a] /\ (terrorOf[a] => terrorOf'[a])
  BY <1>1, <1>4, InnerSame DEF SizeAtOnce
<1>6. Answered
  BY <1>1, <1>3, <1>5 DEF Answered
<1>7. StackInv' /\ Popped
  BY <1>1, PopStack
<1> QED BY <1>1, <1>5, <1>6, <1>7 DEF InnerEffect, InnerMove, InnerProcs, SizeAtOnce

\* The frames of determineSize.
LEMMA SizeFrames ==
    ASSUME StackInv, stack # <<>>, Top.proc = "determineSize", NEW pc \in Pcs,
           pc \in {"enter", "base", "based", "fields", "final"}
    PROVE  /\ Top.of \in Agg /\ Top.proc \in InnerProcs \ {"variable"}
           /\ Goto(pc) \in FrameSet /\ FrameOK(Goto(pc), program)
           /\ Goto(pc).proc = "determineSize" /\ Goto(pc).of = Top.of
           /\ Goto(pc).pc = pc /\ Goto(pc).errors = Top.errors
<1>1. Top \in FrameSet /\ Top.of \in Agg /\ Top.proc \in InnerProcs \ {"variable"}
  BY TopFacts, TopAgg DEF InnerProcs
<1>2. /\ Goto(pc) \in FrameSet /\ Goto(pc).proc = Top.proc /\ Goto(pc).of = Top.of
      /\ Goto(pc).pc = pc /\ Goto(pc).errors = Top.errors
  BY <1>1, GotoIs
<1>3. FrameOK(Goto(pc), program)
  BY <1>1, <1>2 DEF FrameOK
<1> QED BY <1>1, <1>2, <1>3

LEMMA SizeEnterCore ==
    ASSUME DataInv, StackInv, NoBlame, SizeEnter
    PROVE  DataInv' /\ StackInv' /\ NoBlame' /\ InnerEffect
<1> DEFINE f == Goto("base")
           g == Semantic(Top.of, FALSE)
<1>1. /\ stack # <<>> /\ Top.proc = "determineSize" /\ StackOnly
      /\ Continue(f) \/ Call(f, g)
  BY DEF SizeEnter, At, StackOnly
<1>2. /\ Top.of \in Agg /\ Top.proc \in InnerProcs \ {"variable"}
      /\ f \in FrameSet /\ FrameOK(f, program) /\ f.proc = "determineSize" /\ f.of = Top.of
      /\ f.pc = "base" /\ f.errors = Top.errors
  BY <1>1, SizeFrames DEF Pcs
<1>3. /\ g \in FrameSet /\ g.proc = "semantic" /\ g.of = Top.of /\ g.pc = "enter" /\ g.errors = 0
  BY <1>2, NewFrames
<1>4. FrameOK(g, program) /\ Waits(f, g, program)
  BY <1>2, <1>3 DEF FrameOK, Waits
<1> HIDE DEF f, g
<1>5. CASE Continue(f)
  BY <1>1, <1>2, <1>5, InnerGoes
<1>6. CASE Call(f, g)
  BY <1>1, <1>2, <1>3, <1>4, <1>6, InnerCalls
<1> QED BY <1>1, <1>5, <1>6

\* determineFields is called.
LEMMA CallsFields ==
    ASSUME DataInv, StackInv, NoBlame, stack # <<>>, Top.proc = "determineSize", StackOnly,
           Call(Goto("fields"), DetermineFields(Top.of))
    PROVE  DataInv' /\ StackInv' /\ NoBlame' /\ InnerEffect
<1> DEFINE f == Goto("fields")
           g == DetermineFields(Top.of)
<1>1. /\ Top.of \in Agg /\ Top.proc \in InnerProcs \ {"variable"}
      /\ f \in FrameSet /\ FrameOK(f, program) /\ f.proc = "determineSize" /\ f.of = Top.of
      /\ f.pc = "fields" /\ f.errors = Top.errors
  BY SizeFrames DEF Pcs
<1>2. /\ g \in FrameSet /\ g.proc = "determineFields" /\ g.of = Top.of /\ g.pc = "enter" /\ g.errors = 0
  BY <1>1, NewFrames
<1>3. FrameOK(g, program) /\ Waits(f, g, program)
  BY <1>1, <1>2 DEF FrameOK, Waits
<1>4. Call(f, g) /\ g.proc \in InnerProcs \cup {"semantic"}
  BY <1>2 DEF InnerProcs
<1> HIDE DEF f, g
<1> QED BY <1>1, <1>2, <1>3, <1>4, InnerCalls

LEMMA SizeBaseCore ==
    ASSUME DataInv, StackInv, NoBlame, SizeBase
    PROVE  DataInv' /\ StackInv' /\ NoBlame' /\ InnerEffect
<1> DEFINE b == agg[Top.of].baseClass
           f == Goto("based")
           g == DetermineSize(b)
<1>1. /\ stack # <<>> /\ Top.proc = "determineSize" /\ StackOnly
      /\ \/ b # NoBase /\ Call(f, g)
         \/ Call(Goto("fields"), DetermineFields(Top.of))
  BY DEF SizeBase, At, StackOnly
<1>2. CASE b # NoBase /\ Call(f, g)
  <2>1. /\ Top.of \in Agg /\ Top.proc \in InnerProcs \ {"variable"}
        /\ f \in FrameSet /\ FrameOK(f, program) /\ f.proc = "determineSize" /\ f.of = Top.of
        /\ f.pc = "based" /\ f.errors = Top.errors
    BY <1>1, SizeFrames DEF Pcs
  <2>2. b \in Agg
    BY <1>2, <2>1 DEF DataInv, AggSet, Agg
  <2>3. /\ g \in FrameSet /\ g.proc = "determineSize" /\ g.of = b /\ g.pc = "enter" /\ g.errors = 0
    BY <2>2, NewFrames
  <2>4. FrameOK(g, program) /\ Waits(f, g, program) /\ g.proc \in InnerProcs \cup {"semantic"}
    BY <2>1, <2>2, <2>3 DEF FrameOK, Waits, InnerProcs
  <2> HIDE DEF f, g
  <2> QED BY <1>1, <1>2, <2>1, <2>3, <2>4, InnerCalls
<1>3. CASE Call(Goto("fields"), DetermineFields(Top.of))
  BY <1>1, <1>3, CallsFields
<1> QED BY <1>1, <1>2, <1>3

\* A size that cannot be computed is reported, unless that was done before.
LEMMA SizeFails ==
    ASSUME DataInv, StackInv, NoBlame, stack # <<>>, Top.proc = "determineSize", SizeFail,
           UNCHANGED <<program, var, started, deferred, dprogress, nested, phase>>
    PROVE  DataInv' /\ StackInv' /\ NoBlame' /\ InnerEffect
<1> DEFINE a == Top.of
           r == [agg[a] EXCEPT !.terror = TRUE, !.errors = TRUE]
           more == IF agg[a].terror THEN 0 ELSE 1
<1>1. stack' = Tail(stack) /\ ret' = FALSE /\ errors' = errors + more
  BY DEF SizeFail, ReturnValue
<1>2. a \in Agg /\ agg[a] \in AggSet /\ errors \in Nat /\ more \in Nat
  BY TopAgg DEF DataInv
<1>3. agg' = [agg EXCEPT ![a] = r]
  BY <1>2 DEF SizeFail, DataInv
<1>4. /\ r \in AggSet /\ r.fields = agg[a].fields /\ r.semanticRun = agg[a].semanticRun
      /\ r.scope = agg[a].scope /\ r.symtab = agg[a].symtab /\ r.baseok = agg[a].baseok
      /\ r.baseClass = agg[a].baseClass /\ r.base = agg[a].base /\ r.terror = TRUE /\ r.errors = TRUE
  BY <1>2 DEF AggSet
<1>5. r.fields \in Seq(DOMAIN Members(a))
  BY <1>2, <1>4, AggFields DEF DataInv
<1>6. VarInv' /\ VarSame
  BY SameVar, DataParts
<1>7. errors' \in Nat /\ errors <= errors'
  BY <1>1, <1>2
<1>8. OthersOK'
  BY <1>1, <1>7, DataParts DEF OthersOK
<1>9. DataInv' /\ RunSame /\ Became(a, r)
  <2> HIDE DEF r
  <2> QED BY <1>2, <1>3, <1>4, <1>5, <1>6, <1>8, InnerUpdated
<1>10. terrorOf' = [terrorOf EXCEPT ![a] = TRUE] /\ terrorOf'[a] = TRUE
  BY <1>2, <1>4, <1>9 DEF Became, terrorOf
<1>11. \A b \in Agg : terrorOf[b] => terrorOf'[b]
  BY <1>10 DEF terrorOf
<1>12. errors' # 0
  <2>1. CASE agg[a].terror
    <3>1. terrorOf[a]
      BY <1>2, <2>1, AggFields DEF DataInv
    <3> QED BY <1>2, <1>7, <3>1 DEF NoBlame
  <2>2. CASE ~agg[a].terror
    BY <1>1, <1>2, <2>2
  <2> QED BY <2>1, <2>2
<1>13. NoBlame'
  BY <1>12 DEF NoBlame
<1>14. Answered
  BY <1>10 DEF Answered
<1>15. StackInv' /\ Popped
  BY <1>1, PopStack
<1>16. \A b \in Agg : doneOf[b] \subseteq doneOf'[b]
  BY <1>6 DEF VarSame
<1> HIDE DEF r, more
<1> QED BY <1>7, <1>9, <1>11, <1>13, <1>14, <1>15, <1>16 DEF InnerEffect, InnerMove, InnerProcs

LEMMA SizeBasedCore ==
    ASSUME DataInv, StackInv, NoBlame, SizeBased
    PROVE  DataInv' /\ StackInv' /\ NoBlame' /\ InnerEffect
<1>1. stack # <<>> /\ Top.proc = "determineSize"
  BY DEF SizeBased, At
<1>2. CASE ret
  BY <1>1, <1>2, CallsFields DEF SizeBased, StackOnly
<1>3. CASE ~ret
  BY <1>1, <1>3, SizeFails DEF SizeBased
<1> QED BY <1>2, <1>3

LEMMA SizeFieldsCore ==
    ASSUME DataInv, StackInv, NoBlame, SizeFields
    PROVE  DataInv' /\ StackInv' /\ NoBlame' /\ InnerEffect
<1> DEFINE f == Goto("final")
           g == FinalizeSize(Top.of)
<1>1. stack # <<>> /\ Top.proc = "determineSize"
  BY DEF SizeFields, At
<1>2. CASE ret
  <2>1. StackOnly /\ (Call(f, g) \/ Continue(f))
    BY <1>2 DEF SizeFields, StackOnly
  <2>2. /\ Top.of \in Agg /\ Top.proc \in InnerProcs \ {"variable"}
        /\ f \in FrameSet /\ FrameOK(f, program) /\ f.proc = "determineSize" /\ f.of = Top.of
        /\ f.pc = "final" /\ f.errors = Top.errors
    BY <1>1, SizeFrames DEF Pcs
  <2>3. /\ g \in FrameSet /\ g.proc = "finalizeSize" /\ g.of = Top.of /\ g.pc = "enter" /\ g.errors = 0
    BY <2>2, NewFrames
  <2>4. FrameOK(g, program) /\ Waits(f, g, program) /\ g.proc \in InnerProcs \cup {"semantic"}
    BY <2>2, <2>3 DEF FrameOK, Waits, InnerProcs
  <2> HIDE DEF f, g
  <2>5. CASE Continue(f)
    BY <1>1, <2>1, <2>2, <2>5, InnerGoes
  <2>6. CASE Call(f, g)
    BY <1>1, <2>1, <2>2, <2>3, <2>4, <2>6, InnerCalls
  <2> QED BY <2>1, <2>5, <2>6
<1>3. CASE ~ret
  BY <1>1, <1>3, SizeFails DEF SizeFields
<1> QED BY <1>2, <1>3

LEMMA SizeFinalCore ==
    ASSUME DataInv, StackInv, NoBlame, SizeFinal
    PROVE  DataInv' /\ StackInv' /\ NoBlame' /\ InnerEffect
<1>1. stack # <<>> /\ Top.proc = "determineSize" /\ program' = program
  BY DEF SizeFinal, At
<1>2. CASE agg[Top.of].terror \/ agg[Top.of].sizeok = "done"
  <2>1. stack' = Tail(stack) /\ ret' = ~agg[Top.of].terror /\ agg' = agg /\ errors' = errors
    BY <1>2 DEF SizeFinal, ReturnValue
  <2>2. Top.of \in Agg
    BY <1>1, TopAgg
  <2>3. agg[Top.of].terror \in BOOLEAN /\ terrorOf[Top.of] = agg[Top.of].terror
    BY <2>2, AggFields DEF DataInv, AggSet
  <2>4. OthersOK'
    BY <1>1, <2>1, <2>3, DataParts DEF SizeFinal, OthersOK
  <2>5. /\ DataInv' /\ RunSame /\ NoBlame' /\ errors <= errors' /\ terrorOf' = terrorOf
        /\ \A a \in Agg : doneOf[a] \subseteq doneOf'[a] /\ (terrorOf[a] => terrorOf'[a])
    BY <1>1, <2>1, <2>4, InnerSame DEF SizeFinal
  <2>6. Answered
    BY <1>1, <2>1, <2>3, <2>5 DEF Answered
  <2>7. StackInv' /\ Popped
    BY <1>1, <2>1, PopStack
  <2> QED BY <1>1, <2>1, <2>5, <2>6, <2>7 DEF InnerEffect, InnerMove, InnerProcs, SizeFinal
<1>3. CASE ~(agg[Top.of].terror \/ agg[Top.of].sizeok = "done")
  BY <1>1, <1>3, SizeFails DEF SizeFinal
<1> QED BY <1>2, <1>3

LEMMA LeastOf ==
    ASSUME NEW T \in SUBSET Nat, T # {}
    PROVE  \E x \in T : \A y \in T : x <= y
<1> DEFINE R == {ss \in Nat \X Nat : ss[1] < ss[2]}
<1>1. IsWellFoundedOn(R, Nat)
  BY NatLessThanWellFounded DEF OpToRel
<1>2. \A x, y \in Nat : x < y => <<x, y>> \in R
  OBVIOUS
<1> HIDE DEF R
<1>3. PICK x \in T : \A y \in T : <<y, x>> \notin R
  BY <1>1, WFMin
<1>4. \A y \in T : ~(y < x) /\ y \in Nat /\ x \in Nat
  BY <1>2, <1>3
<1>5. \A y \in T : x <= y
  BY <1>4
<1> QED BY <1>5

LEMMA NextFieldIs ==
    ASSUME program \in Programs, NEW a \in Agg, NEW i \in Nat
    PROVE  /\ NextField(a, i) \in Nat
           /\ NextField(a, i) # 0 =>
                NextField(a, i) \in DOMAIN Members(a) /\ IsField(a, NextField(a, i))
<1> DEFINE rest == {j \in i..Len(Members(a)) : IsField(a, j)}
<1>1. DOMAIN Members(a) = 1..Len(Members(a)) /\ Len(Members(a)) \in Nat
  BY ProgramFacts
<1>2. rest \in SUBSET Nat
  BY <1>1
<1>3. CASE rest = {}
  BY <1>3 DEF NextField
<1>4. CASE rest # {}
  <2> HIDE DEF rest
  <2>1. \E j \in rest : \A k \in rest : j <= k
    BY <1>2, <1>4, LeastOf
  <2>2. NextField(a, i) = CHOOSE j \in rest : \A k \in rest : j <= k
    BY <1>4 DEF NextField, rest
  <2>3. NextField(a, i) \in rest
    BY <2>1, <2>2
  <2>4. NextField(a, i) \in i..Len(Members(a)) /\ IsField(a, NextField(a, i))
    BY <2>3 DEF rest
  <2> QED BY <1>1, <2>4
<1> QED BY <1>3, <1>4

LEMMA FieldsFrames ==
    ASSUME StackInv, stack # <<>>, Top.proc = "determineFields"
    PROVE  /\ Top.of \in Agg /\ Top.i \in Nat /\ Top.proc \in InnerProcs \ {"variable"}
           /\ Top \in FrameSet /\ FrameOK(Top, program)
           /\ \A pc \in Pcs, i \in Nat :
                /\ GotoMember(pc, i) \in FrameSet
                /\ GotoMember(pc, i).proc = "determineFields" /\ GotoMember(pc, i).of = Top.of
                /\ GotoMember(pc, i).i = i /\ GotoMember(pc, i).pc = pc
                /\ GotoMember(pc, i).errors = Top.errors
           /\ Goto("start") \in FrameSet /\ FrameOK(Goto("start"), program)
           /\ Goto("start").proc = "determineFields" /\ Goto("start").of = Top.of
           /\ Goto("start").pc = "start" /\ Goto("start").errors = Top.errors
<1>1. /\ Top \in FrameSet /\ FrameOK(Top, program) /\ Top.of \in Agg /\ Top.i \in Nat
      /\ Top.proc \in InnerProcs \ {"variable"}
  BY TopFacts, TopAgg DEF InnerProcs, FrameSet
<1>2. /\ Goto("start") \in FrameSet /\ Goto("start").proc = Top.proc /\ Goto("start").of = Top.of
      /\ Goto("start").pc = "start" /\ Goto("start").errors = Top.errors
  BY <1>1, GotoIs DEF Pcs
<1>3. FrameOK(Goto("start"), program)
  BY <1>1, <1>2 DEF FrameOK
<1> QED BY <1>1, <1>2, <1>3, GotoIs

LEMMA FieldsEnterCore ==
    ASSUME DataInv, StackInv, NoBlame, FieldsEnter
    PROVE  DataInv' /\ StackInv' /\ NoBlame' /\ InnerEffect
<1> DEFINE f == Goto("start")
           g == Semantic(Top.of, FALSE)
<1>1. /\ stack # <<>> /\ Top.proc = "determineFields" /\ StackOnly
      /\ Continue(f) \/ Call(f, g)
  BY DEF FieldsEnter, At, StackOnly
<1>2. /\ Top.of \in Agg /\ Top.proc \in InnerProcs \ {"variable"}
      /\ f \in FrameSet /\ FrameOK(f, program) /\ f.proc = "determineFields" /\ f.of = Top.of
      /\ f.pc = "start" /\ f.errors = Top.errors
  BY <1>1, FieldsFrames
<1>3. /\ g \in FrameSet /\ g.proc = "semantic" /\ g.of = Top.of /\ g.pc = "enter" /\ g.errors = 0
  BY <1>2, NewFrames
<1>4. FrameOK(g, program) /\ Waits(f, g, program)
  BY <1>2, <1>3 DEF FrameOK, Waits
<1> HIDE DEF f, g
<1>5. CASE Continue(f)
  BY <1>1, <1>2, <1>5, InnerGoes
<1>6. CASE Call(f, g)
  BY <1>1, <1>2, <1>3, <1>4, <1>6, InnerCalls
<1> QED BY <1>1, <1>5, <1>6

\* A step that writes no more than the fields, the size and the marks.
LEMMA InnerWrites ==
    ASSUME DataInv, StackInv, NoBlame, stack # <<>>, Top.proc \in InnerProcs \ {"variable"},
           UNCHANGED <<program, started, deferred, dprogress, nested, phase>>,
           VarInv', \A a \in Agg : doneOf[a] \subseteq doneOf'[a],
           NEW r \in AggSet, r.fields \in Seq(DOMAIN Members(Top.of)),
           r.semanticRun = agg[Top.of].semanticRun, r.scope = agg[Top.of].scope,
           r.symtab = agg[Top.of].symtab, r.baseok = agg[Top.of].baseok,
           r.baseClass = agg[Top.of].baseClass, r.base = agg[Top.of].base,
           agg[Top.of].terror => r.terror,
           agg' = [agg EXCEPT ![Top.of] = r],
           errors' \in Nat, errors <= errors', ret' \in BOOLEAN,
           errors' = 0 => ~r.terror /\ ~r.errors /\ \A a \in Agg : badOf'[a] = {}
    PROVE  /\ DataInv' /\ RunSame /\ NoBlame' /\ terrorOf'[Top.of] = r.terror
           /\ \A b \in Agg : terrorOf[b] => terrorOf'[b]
<1> DEFINE a == Top.of
<1>1. a \in Agg /\ agg[a] \in AggSet /\ errors \in Nat
  BY TopAgg DEF DataInv, InnerProcs
<1>2. OthersOK'
  BY DataParts DEF OthersOK
<1>3. DataInv' /\ RunSame /\ Became(a, r) /\ Unmoved(a, r)
  BY <1>1, <1>2, InnerUpdated
<1>4. /\ terrorOf'[a] = r.terror /\ errorsOf'[a] = r.errors
      /\ \A b \in Agg : b # a => terrorOf'[b] = terrorOf[b] /\ errorsOf'[b] = errorsOf[b]
  BY <1>1, <1>3 DEF Became, terrorOf, errorsOf
<1>5. \A b \in Agg : terrorOf[b] => terrorOf'[b]
  BY <1>1, <1>4, AggFields DEF DataInv
<1>6. NoBlame'
  <2> SUFFICES ASSUME errors' = 0, NEW b \in Agg
               PROVE  ~terrorOf'[b] /\ ~errorsOf'[b] /\ badOf'[b] = {}
    BY DEF NoBlame
  <2>1. errors = 0
    BY <1>1
  <2> QED BY <1>4, <2>1 DEF NoBlame
<1> QED BY <1>3, <1>4, <1>5, <1>6

LEMMA InnerWritesReturns ==
    ASSUME DataInv, StackInv, NoBlame, stack # <<>>, Top.proc \in InnerProcs \ {"variable"},
           UNCHANGED <<program, started, deferred, dprogress, nested, phase>>,
           VarInv', \A a \in Agg : doneOf[a] \subseteq doneOf'[a],
           NEW r \in AggSet, r.fields \in Seq(DOMAIN Members(Top.of)),
           r.semanticRun = agg[Top.of].semanticRun, r.scope = agg[Top.of].scope,
           r.symtab = agg[Top.of].symtab, r.baseok = agg[Top.of].baseok,
           r.baseClass = agg[Top.of].baseClass, r.base = agg[Top.of].base,
           agg[Top.of].terror => r.terror,
           agg' = [agg EXCEPT ![Top.of] = r],
           errors' \in Nat, errors <= errors', ret' \in BOOLEAN,
           errors' = 0 => ~r.terror /\ ~r.errors /\ \A a \in Agg : badOf'[a] = {},
           stack' = Tail(stack), terrorOf'[Top.of] = r.terror => Answered
    PROVE  DataInv' /\ StackInv' /\ NoBlame' /\ InnerEffect
<1>1. /\ DataInv' /\ RunSame /\ NoBlame' /\ terrorOf'[Top.of] = r.terror
      /\ \A b \in Agg : terrorOf[b] => terrorOf'[b]
  BY InnerWrites
<1>2. StackInv' /\ Popped
  BY PopStack
<1> QED BY <1>1, <1>2 DEF InnerEffect, InnerMove

LEMMA InnerWritesGoes ==
    ASSUME DataInv, StackInv, NoBlame, stack # <<>>, Top.proc \in InnerProcs \ {"variable"},
           UNCHANGED <<program, started, deferred, dprogress, nested, phase>>,
           VarInv', \A a \in Agg : doneOf[a] \subseteq doneOf'[a],
           NEW r \in AggSet, r.fields \in Seq(DOMAIN Members(Top.of)),
           r.semanticRun = agg[Top.of].semanticRun, r.scope = agg[Top.of].scope,
           r.symtab = agg[Top.of].symtab, r.baseok = agg[Top.of].baseok,
           r.baseClass = agg[Top.of].baseClass, r.base = agg[Top.of].base,
           agg[Top.of].terror => r.terror,
           agg' = [agg EXCEPT ![Top.of] = r],
           errors' \in Nat, errors <= errors', ret' \in BOOLEAN,
           errors' = 0 => ~r.terror /\ ~r.errors /\ \A a \in Agg : badOf'[a] = {},
           NEW f \in FrameSet, FrameOK(f, program), f.proc = Top.proc, f.of = Top.of,
           f.errors = Top.errors, Top.proc = "finalizeSize" => f.pc # "sized", Continue(f)
    PROVE  DataInv' /\ StackInv' /\ NoBlame' /\ InnerEffect
<1>1. /\ DataInv' /\ RunSame /\ NoBlame'
      /\ \A b \in Agg : terrorOf[b] => terrorOf'[b]
  BY InnerWrites
<1>2. StackInv' /\ WentOn(f)
  BY GoOn
<1>3. InnerMove
  BY <1>2 DEF InnerMove
<1> QED BY <1>1, <1>2, <1>3 DEF InnerEffect

LEMMA FieldsStartCore ==
    ASSUME DataInv, StackInv, NoBlame, FieldsStart
    PROVE  DataInv' /\ StackInv' /\ NoBlame' /\ InnerEffect
<1> DEFINE a == Top.of
           f == GotoMember("next", 1)
           r == [agg[a] EXCEPT !.fields = <<>>]
<1>1. stack # <<>> /\ Top.proc = "determineFields" /\ program' = program
  BY DEF FieldsStart, At
<1>2. /\ a \in Agg /\ Top.proc \in InnerProcs \ {"variable"} /\ agg[a] \in AggSet /\ errors \in Nat
      /\ agg[a].terror = terrorOf[a] /\ agg[a].errors = errorsOf[a]
  BY <1>1, FieldsFrames, AggFields DEF DataInv
<1>3. /\ f \in FrameSet /\ f.proc = "determineFields" /\ f.of = a /\ f.i = 1 /\ f.pc = "next"
      /\ f.errors = Top.errors
  BY <1>1, FieldsFrames DEF Pcs
<1>4. FrameOK(f, program)
  BY <1>2, <1>3 DEF FrameOK
<1>5. VarInv' /\ VarSame
  BY <1>1, SameVar, DataParts DEF FieldsStart
<1>6. \A b \in Agg : doneOf[b] \subseteq doneOf'[b] /\ badOf'[b] = badOf[b]
  BY <1>5 DEF VarSame
<1>7. CASE agg[a].sizeok # "none"
  <2>1. stack' = Tail(stack) /\ ret' = TRUE /\ agg' = [agg EXCEPT ![a] = agg[a]]
    BY <1>2, <1>7 DEF FieldsStart, ReturnValue, DataInv
  <2>2. /\ UNCHANGED <<program, started, deferred, dprogress, nested, phase>> /\ errors' = errors
        /\ agg[a].fields \in Seq(DOMAIN Members(a))
    BY <1>2, AggFields DEF FieldsStart, DataInv
  <2>3. terrorOf'[a] = agg[a].terror => Answered
    BY <1>1, <2>1 DEF Answered
  <2>4. errors' = 0 => ~agg[a].terror /\ ~agg[a].errors /\ \A b \in Agg : badOf'[b] = {}
    BY <1>2, <1>6, <2>2 DEF NoBlame
  <2>9. errors' \in Nat /\ errors <= errors'
    BY <1>2, <2>2
  <2> HIDE DEF f
  <2> QED BY <1>1, <1>2, <1>5, <1>6, <2>1, <2>2, <2>3, <2>4, <2>9, InnerWritesReturns
<1>8. CASE ~(agg[a].sizeok # "none")
  <2>1. Continue(f) /\ ret' = ret /\ agg' = [agg EXCEPT ![a] = r]
    BY <1>2, <1>8 DEF FieldsStart, DataInv
  <2>2. /\ r \in AggSet /\ r.semanticRun = agg[a].semanticRun
        /\ r.scope = agg[a].scope /\ r.symtab = agg[a].symtab /\ r.baseok = agg[a].baseok
        /\ r.baseClass = agg[a].baseClass /\ r.base = agg[a].base
        /\ r.terror = agg[a].terror /\ r.errors = agg[a].errors /\ r.fields = <<>>
    BY <1>2, EmptySeq DEF AggSet
  <2>3. r.fields \in Seq(DOMAIN Members(a))
    BY <2>2, EmptySeq
  <2>4. UNCHANGED <<program, started, deferred, dprogress, nested, phase>> /\ errors' = errors
        /\ ret' \in BOOLEAN
    BY <2>1 DEF FieldsStart, DataInv
  <2>5. errors' = 0 => ~r.terror /\ ~r.errors /\ \A b \in Agg : badOf'[b] = {}
    BY <1>2, <1>6, <2>2, <2>4 DEF NoBlame
  <2>9. errors' \in Nat /\ errors <= errors'
    BY <1>2, <2>4
  <2> HIDE DEF f, r
  <2> QED BY <1>1, <1>2, <1>3, <1>4, <1>5, <1>6, <2>1, <2>2, <2>3, <2>4, <2>5, <2>9, InnerWritesGoes
<1> QED BY <1>7, <1>8

LEMMA FieldsNextCore ==
    ASSUME DataInv, StackInv, NoBlame, FieldsNext
    PROVE  DataInv' /\ StackInv' /\ NoBlame' /\ InnerEffect
<1> DEFINE a == Top.of
           j == NextField(a, Top.i)
           f == GotoMember("push", j)
           g == Variable(a, j, FALSE)
           r == [agg[a] EXCEPT !.sizeok = IF agg[a].sizeok # "done" THEN "fwd" ELSE agg[a].sizeok]
<1>1. stack # <<>> /\ Top.proc = "determineFields" /\ program' = program
  BY DEF FieldsNext, At
<1>2. /\ a \in Agg /\ Top.proc \in InnerProcs \ {"variable"} /\ agg[a] \in AggSet /\ errors \in Nat
      /\ agg[a].terror = terrorOf[a] /\ agg[a].errors = errorsOf[a] /\ Top.i \in Nat
      /\ program \in Programs
  BY <1>1, FieldsFrames, AggFields DEF DataInv
<1>3. VarInv' /\ VarSame
  BY <1>1, SameVar, DataParts DEF FieldsNext
<1>4. \A b \in Agg : doneOf[b] \subseteq doneOf'[b] /\ badOf'[b] = badOf[b]
  BY <1>3 DEF VarSame
<1>5. j # 0 => j \in DOMAIN Members(a) /\ IsField(a, j)
  BY <1>2, NextFieldIs
<1>6. CASE j = 0
  <2>1. stack' = Tail(stack) /\ ret' = TRUE /\ agg' = [agg EXCEPT ![a] = r]
    BY <1>2, <1>6 DEF FieldsNext, ReturnValue, DataInv
  <2>2. /\ r \in AggSet /\ r.semanticRun = agg[a].semanticRun
        /\ r.scope = agg[a].scope /\ r.symtab = agg[a].symtab /\ r.baseok = agg[a].baseok
        /\ r.baseClass = agg[a].baseClass /\ r.base = agg[a].base
        /\ r.terror = agg[a].terror /\ r.errors = agg[a].errors /\ r.fields = agg[a].fields
    BY <1>2 DEF AggSet
  <2>3. r.fields \in Seq(DOMAIN Members(a))
    BY <1>2, <2>2, AggFields DEF DataInv
  <2>4. UNCHANGED <<program, started, deferred, dprogress, nested, phase>> /\ errors' = errors
    BY DEF FieldsNext
  <2>5. errors' = 0 => ~r.terror /\ ~r.errors /\ \A b \in Agg : badOf'[b] = {}
    BY <1>2, <1>4, <2>2, <2>4 DEF NoBlame
  <2>6. terrorOf'[a] = r.terror => Answered
    BY <1>1, <2>1 DEF Answered
  <2>9. errors' \in Nat /\ errors <= errors'
    BY <1>2, <2>4
  <2> HIDE DEF r
  <2> QED BY <1>1, <1>2, <1>3, <1>4, <2>1, <2>2, <2>3, <2>4, <2>5, <2>6, <2>9, InnerWritesReturns
<1>7. CASE j # 0
  <2> HIDE DEF j
  <2>1. StackOnly /\ (Call(f, g) \/ Continue(f))
    BY <1>7 DEF FieldsNext, StackOnly, j
  <2>2. j \in DOMAIN Members(a) /\ IsField(a, j) /\ j \in Nat
    BY <1>2, <1>5, <1>7, NextFieldIs DEF j
  <2>3. /\ f \in FrameSet /\ f.proc = "determineFields" /\ f.of = a /\ f.i = j /\ f.pc = "push"
        /\ f.errors = Top.errors
    BY <1>1, <2>2, FieldsFrames DEF Pcs
  <2>4. /\ g \in FrameSet /\ g.proc = "variable" /\ g.of = a /\ g.i = j /\ g.pc = "enter"
        /\ g.errors = 0
    BY <1>2, <2>2, NewFrames
  <2>5. FrameOK(f, program)
    BY <1>2, <2>2, <2>3 DEF FrameOK, Members, IsField
  <2>6. FrameOK(g, program)
    <3>1. Members(a)[j].kind # Import
      BY <2>2 DEF IsField, Import
    <3> QED BY <1>2, <2>2, <2>4, <3>1 DEF FrameOK, Members
  <2>7. Waits(f, g, program) /\ g.proc \in InnerProcs
    BY <2>3, <2>4 DEF Waits, InnerProcs
  <2> HIDE DEF f, g
  <2>8. CASE Continue(f)
    BY <1>1, <1>2, <2>1, <2>3, <2>5, <2>8, InnerGoes
  <2>9. CASE Call(f, g)
    BY <1>1, <1>2, <2>1, <2>3, <2>4, <2>5, <2>6, <2>7, <2>9, InnerCalls
  <2> QED BY <2>1, <2>8, <2>9
<1> QED BY <1>6, <1>7

LEMMA FieldsPushCore ==
    ASSUME DataInv, StackInv, NoBlame, FieldsPush
    PROVE  DataInv' /\ StackInv' /\ NoBlame' /\ InnerEffect
<1> DEFINE a == Top.of
           i == Top.i
           f == GotoMember("next", i + 1)
           longer == Append(agg[a].fields, i)
           r == [agg[a] EXCEPT !.fields = longer]
           bad == [agg[a] EXCEPT !.fields = longer, !.terror = TRUE, !.errors = TRUE]
           early == agg[a].sizeok # "none" \/ var[a][i].semanticRun # "done"
<1>1. /\ stack # <<>> /\ Top.proc = "determineFields" /\ Top.pc = "push"
      /\ UNCHANGED <<program, started, deferred, dprogress, nested, phase>> /\ var' = var
  BY DEF FieldsPush, At
<1>2. /\ a \in Agg /\ Top.proc \in InnerProcs \ {"variable"} /\ agg[a] \in AggSet /\ errors \in Nat
      /\ agg[a].terror = terrorOf[a] /\ agg[a].errors = errorsOf[a] /\ i \in DOMAIN Members(a)
      /\ agg[a].fields \in Seq(DOMAIN Members(a)) /\ IsField(a, i) /\ i \in Nat
      /\ program \in Programs
  BY <1>1, FieldsFrames, AggFields DEF DataInv, FrameOK, IsField, Members
<1>3. VarInv /\ VarInv' /\ VarSame
  BY <1>1, SameVar, DataParts
<1>4. \A b \in Agg : doneOf[b] \subseteq doneOf'[b] /\ badOf'[b] = badOf[b]
  BY <1>3 DEF VarSame
<1>5. CASE early
  <2>1. /\ stack' = Tail(stack) /\ ret' = (agg[a].sizeok # "none")
        /\ agg' = [agg EXCEPT ![a] = agg[a]] /\ errors' = errors
    BY <1>2, <1>5 DEF FieldsPush, ReturnValue, DataInv
  <2>2. Members(a)[i].kind # Import
    BY <1>2 DEF IsField, Import
  <2>3. ret' \/ ~AllDone(a)
    BY <1>2, <1>3, <1>5, <2>1, <2>2, VarFacts DEF AllDone
  <2>4. terrorOf'[a] = agg[a].terror => Answered
    BY <1>1, <2>3 DEF Answered
  <2>5. errors' = 0 => ~agg[a].terror /\ ~agg[a].errors /\ \A b \in Agg : badOf'[b] = {}
    BY <1>2, <1>4, <2>1 DEF NoBlame
  <2>6. ret' \in BOOLEAN
    BY <2>1
  <2>9. errors' \in Nat /\ errors <= errors'
    BY <1>2, <2>1
  <2> HIDE DEF f, early
  <2> QED BY <1>1, <1>2, <1>3, <1>4, <2>1, <2>4, <2>5, <2>6, <2>9, InnerWritesReturns
<1>6. longer \in Seq(DOMAIN Members(a)) /\ longer \in Seq(Nat)
  <2>1. agg[a].fields \in Seq(Nat)
    BY <1>2 DEF AggSet
  <2> QED BY <1>2, <2>1, AppendProperties
<1>7. CASE ~early /\ ContainsItself(a, i)
  <2>1. /\ stack' = Tail(stack) /\ ret' = FALSE /\ agg' = [agg EXCEPT ![a] = bad]
        /\ errors' = errors + 1
    BY <1>2, <1>7 DEF FieldsPush, ReturnValue, DataInv
  <2>2. /\ bad \in AggSet /\ bad.semanticRun = agg[a].semanticRun
        /\ bad.scope = agg[a].scope /\ bad.symtab = agg[a].symtab /\ bad.baseok = agg[a].baseok
        /\ bad.baseClass = agg[a].baseClass /\ bad.base = agg[a].base
        /\ bad.terror = TRUE /\ bad.errors = TRUE /\ bad.fields = longer
    BY <1>2, <1>6 DEF AggSet
  <2>3. a \in Struct
    <3>1. Members(a)[i].kind = "field" /\ Members(a)[i].of = a
      BY <1>7 DEF ContainsItself
    <3> QED BY <1>2, <3>1, ProgramFacts
  <2>4. terrorOf'[a] = bad.terror => Answered
    BY <1>1, <2>2, <2>3 DEF Answered
  <2>5. errors' \in Nat /\ errors <= errors' /\ errors' # 0
    BY <1>2, <2>1
  <2> HIDE DEF f, early, bad, longer
  <2> QED BY <1>1, <1>2, <1>3, <1>4, <1>6, <2>1, <2>2, <2>4, <2>5, InnerWritesReturns
<1>8. CASE ~early /\ ~ContainsItself(a, i)
  <2>1. Continue(f) /\ ret' = ret /\ agg' = [agg EXCEPT ![a] = r] /\ errors' = errors
    BY <1>2, <1>8 DEF FieldsPush, DataInv
  <2>2. /\ r \in AggSet /\ r.semanticRun = agg[a].semanticRun
        /\ r.scope = agg[a].scope /\ r.symtab = agg[a].symtab /\ r.baseok = agg[a].baseok
        /\ r.baseClass = agg[a].baseClass /\ r.base = agg[a].base
        /\ r.terror = agg[a].terror /\ r.errors = agg[a].errors /\ r.fields = longer
    BY <1>2, <1>6 DEF AggSet
  <2>3. /\ f \in FrameSet /\ f.proc = "determineFields" /\ f.of = a /\ f.i = i + 1 /\ f.pc = "next"
        /\ f.errors = Top.errors
    BY <1>1, <1>2, FieldsFrames DEF Pcs
  <2>4. FrameOK(f, program)
    BY <1>2, <2>3 DEF FrameOK
  <2>5. errors' = 0 => ~r.terror /\ ~r.errors /\ \A b \in Agg : badOf'[b] = {}
    BY <1>2, <1>4, <2>1, <2>2 DEF NoBlame
  <2>6. ret' \in BOOLEAN
    BY <2>1 DEF DataInv
  <2>9. errors' \in Nat /\ errors <= errors'
    BY <1>2, <2>1
  <2> HIDE DEF f, early, r, longer
  <2> QED BY <1>1, <1>2, <1>3, <1>4, <1>6, <2>1, <2>2, <2>3, <2>4, <2>5, <2>6, <2>9, InnerWritesGoes
<1> QED BY <1>5, <1>7, <1>8

LEMMA FinalizeFrames ==
    ASSUME StackInv, stack # <<>>, Top.proc = "finalizeSize"
    PROVE  /\ Top.of \in Agg /\ Top.i \in Nat /\ Top.proc \in InnerProcs \ {"variable"}
           /\ Top \in FrameSet /\ FrameOK(Top, program)
           /\ \A i \in Nat \ {0} :
                /\ GotoMember("next", i) \in FrameSet /\ FrameOK(GotoMember("next", i), program)
                /\ GotoMember("next", i).proc = Top.proc
                /\ GotoMember("next", i).of = Top.of /\ GotoMember("next", i).pc # "sized"
                /\ GotoMember("next", i).errors = Top.errors
<1>1. /\ Top \in FrameSet /\ FrameOK(Top, program) /\ Top.of \in Agg /\ Top.i \in Nat
      /\ Top.proc \in InnerProcs \ {"variable"}
  BY TopFacts, TopAgg DEF InnerProcs, FrameSet
<1> SUFFICES ASSUME NEW i \in Nat \ {0}
             PROVE  /\ GotoMember("next", i) \in FrameSet /\ FrameOK(GotoMember("next", i), program)
                    /\ GotoMember("next", i).proc = Top.proc
                    /\ GotoMember("next", i).of = Top.of /\ GotoMember("next", i).pc # "sized"
                    /\ GotoMember("next", i).errors = Top.errors
  BY <1>1
<1> DEFINE f == GotoMember("next", i)
<1>2. /\ f \in FrameSet /\ f.proc = Top.proc /\ f.of = Top.of /\ f.i = i /\ f.pc = "next"
      /\ f.errors = Top.errors
  BY <1>1, GotoIs DEF Pcs
<1> HIDE DEF f
<1>3. FrameOK(f, program)
  BY <1>1, <1>2 DEF FrameOK
<1> QED BY <1>2, <1>3 DEF f

LEMMA FinalizeEnterCore ==
    ASSUME DataInv, StackInv, NoBlame, FinalizeEnter
    PROVE  DataInv' /\ StackInv' /\ NoBlame' /\ InnerEffect
<1> DEFINE a == Top.of
           f == GotoMember("next", 1)
           r == [agg[a] EXCEPT !.fields = <<>>,
                               !.sizeok = IF a \in Struct THEN "inProcess" ELSE agg[a].sizeok]
<1>1. stack # <<>> /\ Top.proc = "finalizeSize" /\ program' = program
  BY DEF FinalizeEnter, At
<1>2. /\ a \in Agg /\ Top.proc \in InnerProcs \ {"variable"} /\ agg[a] \in AggSet /\ errors \in Nat
      /\ agg[a].terror = terrorOf[a] /\ agg[a].errors = errorsOf[a]
  BY <1>1, FinalizeFrames, AggFields DEF DataInv
<1>3. /\ f \in FrameSet /\ FrameOK(f, program) /\ f.proc = Top.proc /\ f.of = Top.of
      /\ f.pc # "sized" /\ f.errors = Top.errors
  <2>1. 1 \in Nat \ {0}
    OBVIOUS
  <2> QED BY <1>1, <2>1, FinalizeFrames
<1>4. VarInv' /\ VarSame
  BY <1>1, SameVar, DataParts DEF FinalizeEnter
<1>5. /\ \A b \in Agg : doneOf[b] \subseteq doneOf'[b] /\ badOf'[b] = badOf[b]
      /\ UNCHANGED <<program, started, deferred, dprogress, nested, phase>>
      /\ errors' \in Nat /\ errors <= errors' /\ errors' = errors
  BY <1>2, <1>4 DEF VarSame, FinalizeEnter
<1>6. CASE a \in Struct /\ agg[a].sizeok = "inProcess"
  <2>1. stack' = Tail(stack) /\ ret' = ret /\ agg' = [agg EXCEPT ![a] = agg[a]]
    BY <1>2, <1>6 DEF FinalizeEnter, Return, DataInv
  <2>2. agg[a].fields \in Seq(DOMAIN Members(a)) /\ ret' \in BOOLEAN
    BY <1>2, <2>1, AggFields DEF DataInv
  <2>3. terrorOf'[a] = agg[a].terror => Answered
    BY <1>1 DEF Answered
  <2>4. errors' = 0 => ~agg[a].terror /\ ~agg[a].errors /\ \A b \in Agg : badOf'[b] = {}
    BY <1>2, <1>5 DEF NoBlame
  <2> HIDE DEF f
  <2> QED BY <1>1, <1>2, <1>4, <1>5, <2>1, <2>2, <2>3, <2>4, InnerWritesReturns
<1>7. CASE ~(a \in Struct /\ agg[a].sizeok = "inProcess")
  <2>1. Continue(f) /\ ret' = ret /\ agg' = [agg EXCEPT ![a] = r]
    BY <1>2, <1>7 DEF FinalizeEnter, DataInv
  <2>2. /\ r \in AggSet /\ r.semanticRun = agg[a].semanticRun
        /\ r.scope = agg[a].scope /\ r.symtab = agg[a].symtab /\ r.baseok = agg[a].baseok
        /\ r.baseClass = agg[a].baseClass /\ r.base = agg[a].base
        /\ r.terror = agg[a].terror /\ r.errors = agg[a].errors /\ r.fields = <<>>
    BY <1>2, EmptySeq DEF AggSet
  <2>3. r.fields \in Seq(DOMAIN Members(a)) /\ ret' \in BOOLEAN
    BY <2>1, <2>2, EmptySeq DEF DataInv
  <2>4. errors' = 0 => ~r.terror /\ ~r.errors /\ \A b \in Agg : badOf'[b] = {}
    BY <1>2, <1>5, <2>2 DEF NoBlame
  <2> HIDE DEF f, r
  <2> QED BY <1>1, <1>2, <1>3, <1>4, <1>5, <2>1, <2>2, <2>3, <2>4, InnerWritesGoes
<1> QED BY <1>6, <1>7

LEMMA FinalizeFieldCore ==
    ASSUME DataInv, StackInv, NoBlame, FinalizeField
    PROVE  DataInv' /\ StackInv' /\ NoBlame' /\ InnerEffect
<1> DEFINE a == Top.of
           i == NextField(a, Top.i)
           m == Members(a)[i]
           f == GotoMember("next", i + 1)
           h == GotoMember("sized", i)
           g == DetermineSize(m.of)
           v == [var[a][i] EXCEPT !.placed = ~var[a][i].terror]
           longer == Append(agg[a].fields, i)
           r == [agg[a] EXCEPT !.fields = longer]
<1>1. stack # <<>> /\ Top.proc = "finalizeSize" /\ program' = program /\ i # 0
  BY DEF FinalizeField, At
<1>2. /\ a \in Agg /\ Top.proc \in InnerProcs \ {"variable"} /\ agg[a] \in AggSet /\ errors \in Nat
      /\ agg[a].terror = terrorOf[a] /\ agg[a].errors = errorsOf[a] /\ Top.i \in Nat
      /\ program \in Programs /\ agg[a].fields \in Seq(DOMAIN Members(a))
  BY <1>1, FinalizeFrames, AggFields DEF DataInv
<1>3. i \in DOMAIN Members(a) /\ IsField(a, i) /\ i \in Nat /\ i + 1 \in Nat \ {0}
  <2>1. i \in DOMAIN Members(a) /\ IsField(a, i) /\ i \in Nat
    BY <1>1, <1>2, NextFieldIs
  <2> HIDE DEF i
  <2> QED BY <2>1
<1> HIDE DEF i
<1>4. /\ f \in FrameSet /\ FrameOK(f, program) /\ f.proc = Top.proc /\ f.of = Top.of
      /\ f.pc # "sized" /\ f.errors = Top.errors
  BY <1>1, <1>3, FinalizeFrames
<1>5. \/ StackOnly /\ Continue(f)
      \/ StackOnly /\ m.kind = "field" /\ Call(h, g)
      \/ /\ agg' = [agg EXCEPT ![a].fields = longer] /\ var' = [var EXCEPT ![a][i].placed = ~var[a][i].terror]
         /\ Continue(f)
         /\ UNCHANGED <<program, started, deferred, dprogress, nested, errors, ret, phase>>
  BY DEF FinalizeField, StackOnly, i
<1> HIDE DEF f
<1>6. CASE StackOnly /\ Continue(f)
  BY <1>1, <1>2, <1>4, <1>6, InnerGoes
<1>7. CASE StackOnly /\ m.kind = "field" /\ Call(h, g)
  <2>1. m.of \in Agg
    BY <1>2, <1>3, <1>7, ProgramFacts DEF Agg
  <2>2. Top \in FrameSet
    BY <1>1, FinalizeFrames
  <2>3. /\ h \in FrameSet /\ h.proc = Top.proc /\ h.of = Top.of
        /\ h.pc = "sized" /\ h.errors = Top.errors /\ h.i = i
    BY <1>1, <1>3, <2>2, GotoIs DEF Pcs
  <2>4. FrameOK(h, program)
    BY <1>1, <1>2, <1>3, <1>7, <2>3 DEF FrameOK, Members
  <2>5. /\ g \in FrameSet /\ g.proc = "determineSize" /\ g.of = m.of /\ g.pc = "enter" /\ g.errors = 0
    BY <2>1, NewFrames
  <2>6. FrameOK(g, program) /\ Waits(h, g, program) /\ g.proc \in InnerProcs \cup {"semantic"}
    BY <1>1, <2>1, <2>3, <2>5 DEF FrameOK, Waits, InnerProcs, Members
  <2> HIDE DEF g, h
  <2> QED BY <1>1, <1>2, <1>7, <2>3, <2>4, <2>5, <2>6, InnerCalls
<1>8. CASE /\ agg' = [agg EXCEPT ![a].fields = longer] /\ var' = [var EXCEPT ![a][i].placed = ~var[a][i].terror]
           /\ Continue(f)
           /\ UNCHANGED <<program, started, deferred, dprogress, nested, errors, ret, phase>>
  <2>1. longer \in Seq(DOMAIN Members(a)) /\ longer \in Seq(Nat)
    <3>1. agg[a].fields \in Seq(Nat)
      BY <1>2 DEF AggSet
    <3> QED BY <1>2, <1>3, <3>1, AppendProperties
  <2>2. /\ r \in AggSet /\ r.semanticRun = agg[a].semanticRun
        /\ r.scope = agg[a].scope /\ r.symtab = agg[a].symtab /\ r.baseok = agg[a].baseok
        /\ r.baseClass = agg[a].baseClass /\ r.base = agg[a].base
        /\ r.terror = agg[a].terror /\ r.errors = agg[a].errors /\ r.fields = longer
    BY <1>2, <2>1 DEF AggSet
  <2>3. agg' = [agg EXCEPT ![a] = r]
    BY <1>2, <1>8 DEF DataInv
  <2>4. VarInv' /\ VarBecame(a, i, v.semanticRun, v.terror)
    <3>1. VarInv /\ var[a][i] \in VarSet
      BY <1>2, <1>3, VarFacts, DataParts
    <3>2. v \in VarSet
      BY <3>1 DEF VarSet, Runs
    <3>3. var' = [var EXCEPT ![a] = [var[a] EXCEPT ![i] = v]]
      BY <1>2, <1>8, <3>1 DEF VarInv
    <3> HIDE DEF v
    <3> QED BY <1>1, <1>2, <1>3, <3>1, <3>2, <3>3, SetVar
  <2>5. \A b \in Agg : doneOf[b] \subseteq doneOf'[b] /\ badOf'[b] = badOf[b]
    <3>1. /\ i \in doneOf[a] <=> v.semanticRun = "done"
          /\ i \in badOf[a] <=> v.terror
      BY <1>2, <1>3, VarFacts, DataParts DEF VarSet
    <3> QED BY <2>4, <3>1 DEF VarBecame
  <2>6. errors' \in Nat /\ errors <= errors' /\ errors' = errors /\ ret' \in BOOLEAN
    BY <1>2, <1>8 DEF DataInv
  <2>7. errors' = 0 => ~r.terror /\ ~r.errors /\ \A b \in Agg : badOf'[b] = {}
    BY <1>2, <2>2, <2>5, <2>6 DEF NoBlame
  <2> HIDE DEF r, longer, v
  <2> QED BY <1>1, <1>2, <1>4, <1>8, <2>1, <2>2, <2>3, <2>4, <2>5, <2>6, <2>7, InnerWritesGoes
<1> QED BY <1>5, <1>6, <1>7, <1>8

LEMMA FinalizeSizedCore ==
    ASSUME DataInv, StackInv, NoBlame, RetInv, FinalizeSized
    PROVE  DataInv' /\ StackInv' /\ NoBlame' /\ InnerEffect
<1> DEFINE a == Top.of
           i == Top.i
           s == Members(a)[i].of
           f == GotoMember("next", i + 1)
           v == [var[a][i] EXCEPT !.placed = ret, !.terror = ~ret]
           longer == IF ret THEN Append(agg[a].fields, i) ELSE agg[a].fields
           r == [agg[a] EXCEPT !.fields = longer]
<1>1. /\ stack # <<>> /\ Top.proc = "finalizeSize" /\ Top.pc = "sized" /\ program' = program
      /\ Continue(f)
      /\ UNCHANGED <<program, started, deferred, dprogress, nested, errors, ret, phase>>
  BY DEF FinalizeSized, At
<1>2. /\ a \in Agg /\ Top.proc \in InnerProcs \ {"variable"} /\ agg[a] \in AggSet /\ errors \in Nat
      /\ agg[a].terror = terrorOf[a] /\ agg[a].errors = errorsOf[a] /\ i \in Nat
      /\ program \in Programs /\ agg[a].fields \in Seq(DOMAIN Members(a)) /\ ret \in BOOLEAN
  BY <1>1, FinalizeFrames, AggFields DEF DataInv
<1>3. i \in DOMAIN Members(a) /\ Members(a)[i].kind = "field" /\ i + 1 \in Nat \ {0}
  BY <1>1, <1>2, FinalizeFrames DEF FrameOK, Members
<1>4. /\ f \in FrameSet /\ FrameOK(f, program) /\ f.proc = Top.proc /\ f.of = Top.of
      /\ f.pc # "sized" /\ f.errors = Top.errors
  BY <1>1, <1>3, FinalizeFrames
<1>5. s \in Agg
  BY <1>2, <1>3, ProgramFacts DEF Agg
<1>6. errors = 0 => ret
  <2>1. ret \/ terrorOf[s]
    <3>1. Depth > 0 /\ Top = levels[Depth]
      BY <1>1, TopFacts
    <3> QED BY <1>1, <3>1 DEF RetInv
  <2> QED BY <1>5, <2>1 DEF NoBlame
<1>7. longer \in Seq(DOMAIN Members(a)) /\ longer \in Seq(Nat)
  <2>1. agg[a].fields \in Seq(Nat)
    BY <1>2 DEF AggSet
  <2> QED BY <1>2, <1>3, <2>1, AppendProperties
<1>8. /\ r \in AggSet /\ r.semanticRun = agg[a].semanticRun
      /\ r.scope = agg[a].scope /\ r.symtab = agg[a].symtab /\ r.baseok = agg[a].baseok
      /\ r.baseClass = agg[a].baseClass /\ r.base = agg[a].base
      /\ r.terror = agg[a].terror /\ r.errors = agg[a].errors /\ r.fields = longer
  <2> HIDE DEF longer
  <2> QED BY <1>2, <1>7 DEF AggSet
<1>9. agg' = [agg EXCEPT ![a] = r]
  BY <1>2 DEF FinalizeSized, DataInv
<1>10. VarInv' /\ VarBecame(a, i, v.semanticRun, v.terror) /\ v.semanticRun = var[a][i].semanticRun
       /\ v.terror = ~ret
  <2>1. VarInv /\ var[a][i] \in VarSet
    BY <1>2, <1>3, VarFacts, DataParts
  <2>2. v \in VarSet /\ v.semanticRun = var[a][i].semanticRun /\ v.terror = ~ret
    BY <1>2, <2>1 DEF VarSet, Runs
  <2>3. var' = [var EXCEPT ![a] = [var[a] EXCEPT ![i] = v]]
    BY <1>2, <2>1 DEF VarInv, FinalizeSized
  <2> HIDE DEF v
  <2> QED BY <1>1, <1>2, <1>3, <2>1, <2>2, <2>3, SetVar
<1>11. \A b \in Agg : doneOf[b] \subseteq doneOf'[b]
  <2>1. i \in doneOf[a] <=> v.semanticRun = "done"
    BY <1>2, <1>3, <1>10, VarFacts, DataParts
  <2> QED BY <1>10, <2>1 DEF VarBecame
<1>12. errors' = 0 => \A b \in Agg : badOf'[b] = {}
  <2> SUFFICES ASSUME errors' = 0 PROVE \A b \in Agg : badOf'[b] = {}
    OBVIOUS
  <2>1. errors = 0 /\ ~v.terror /\ \A b \in Agg : badOf[b] = {}
    BY <1>1, <1>6, <1>10 DEF NoBlame
  <2> HIDE DEF v
  <2>2. /\ badOf'[a] = badOf[a] \ {i}
        /\ \A b \in Agg : b # a => badOf'[b] = badOf[b]
    BY <1>10, <2>1 DEF VarBecame
  <2> QED BY <1>2, <2>1, <2>2
<1>13. errors' \in Nat /\ errors <= errors' /\ errors' = errors /\ ret' \in BOOLEAN
  BY <1>1, <1>2
<1>14. errors' = 0 => ~r.terror /\ ~r.errors /\ \A b \in Agg : badOf'[b] = {}
  BY <1>2, <1>8, <1>12, <1>13 DEF NoBlame
<1> HIDE DEF f, r, longer, v
<1> QED BY <1>1, <1>2, <1>4, <1>7, <1>8, <1>9, <1>10, <1>11, <1>13, <1>14, InnerWritesGoes

LEMMA FinalizeDoneCore ==
    ASSUME DataInv, StackInv, NoBlame, FinalizeDone
    PROVE  DataInv' /\ StackInv' /\ NoBlame' /\ InnerEffect
<1> DEFINE a == Top.of
           failed == a \in Struct /\ agg[a].terror
           r == [agg[a] EXCEPT !.errors = agg[a].errors \/ failed,
                               !.sizeok = IF failed THEN agg[a].sizeok ELSE "done"]
<1>1. /\ stack # <<>> /\ Top.proc = "finalizeSize" /\ program' = program /\ stack' = Tail(stack)
      /\ UNCHANGED <<program, started, deferred, dprogress, nested, errors, ret, phase>>
  BY DEF FinalizeDone, At, Return
<1>2. /\ a \in Agg /\ Top.proc \in InnerProcs \ {"variable"} /\ agg[a] \in AggSet /\ errors \in Nat
      /\ agg[a].terror = terrorOf[a] /\ agg[a].errors = errorsOf[a]
      /\ agg[a].fields \in Seq(DOMAIN Members(a)) /\ ret \in BOOLEAN
  BY <1>1, FinalizeFrames, AggFields DEF DataInv
<1>3. VarInv' /\ VarSame
  BY <1>1, SameVar, DataParts DEF FinalizeDone
<1>4. \A b \in Agg : doneOf[b] \subseteq doneOf'[b] /\ badOf'[b] = badOf[b]
  BY <1>3 DEF VarSame
<1>5. /\ r \in AggSet /\ r.semanticRun = agg[a].semanticRun
      /\ r.scope = agg[a].scope /\ r.symtab = agg[a].symtab /\ r.baseok = agg[a].baseok
      /\ r.baseClass = agg[a].baseClass /\ r.base = agg[a].base
      /\ r.terror = agg[a].terror /\ r.errors = (agg[a].errors \/ failed) /\ r.fields = agg[a].fields
  BY <1>2 DEF AggSet
<1>6. agg' = [agg EXCEPT ![a] = r]
  BY <1>2 DEF FinalizeDone, DataInv
<1>7. errors' \in Nat /\ errors <= errors' /\ errors' = errors /\ ret' \in BOOLEAN
  BY <1>1, <1>2
<1>8. errors' = 0 => ~r.terror /\ ~r.errors /\ \A b \in Agg : badOf'[b] = {}
  <2> HIDE DEF r
  <2> QED BY <1>2, <1>4, <1>5, <1>7 DEF NoBlame
<1>9. Answered
  BY <1>1 DEF Answered
<1> HIDE DEF r
<1> QED BY <1>1, <1>2, <1>3, <1>4, <1>5, <1>6, <1>7, <1>8, <1>9, InnerWritesReturns

InnerStep ==
    \/ VariableAtOnce \/ VariableOfStruct \/ VariableOfSize \/ VariableSized
    \/ SizeAtOnce \/ SizeEnter \/ SizeBase \/ SizeBased \/ SizeFields \/ SizeFinal
    \/ FieldsEnter \/ FieldsStart \/ FieldsNext \/ FieldsPush
    \/ FinalizeEnter \/ FinalizeField \/ FinalizeSized \/ FinalizeDone

LEMMA InnerCore ==
    ASSUME DataInv, StackInv, NoBlame, RetInv, InnerStep
    PROVE  DataInv' /\ StackInv' /\ NoBlame' /\ InnerEffect
  BY VariableAtOnceCore, VariableOfStructCore, VariableOfSizeCore, VariableSizedCore,
     SizeAtOnceCore, SizeEnterCore, SizeBaseCore, SizeBasedCore, SizeFieldsCore, SizeFinalCore,
     FieldsEnterCore, FieldsStartCore, FieldsNextCore, FieldsPushCore, FinalizeEnterCore,
     FinalizeFieldCore, FinalizeSizedCore, FinalizeDoneCore DEF InnerStep

-----------------------------------------------------------------------------
(***************************************************************************)
(* The steps of the visitors of structs and classes.                       *)
(***************************************************************************)
Others == UNCHANGED <<program, started, nested, phase>>

\* The call at the top is at pc now.
Now(f, pc) ==
    /\ f \in FrameSet /\ f.proc = "semantic" /\ f.of = Top.of /\ f.pc = pc /\ f.errors = Top.errors

LEMMA SemanticFrames ==
    ASSUME StackInv, stack # <<>>, Top.proc = "semantic", Top.pc # "enter", NEW pc \in Pcs,
           \/ pc \in {"members", "fields"}
           \/ pc \in {"base", "based", "ancestors"} /\ Top.pc \in {"base", "based", "ancestors"}
    PROVE  Now(Goto(pc), pc) /\ FrameOK(Goto(pc), program) /\ Goto(pc).i = Top.i
<1>1. Top \in FrameSet /\ FrameOK(Top, program)
  BY TopFacts
<1>2. /\ Goto(pc) \in FrameSet /\ Goto(pc).proc = Top.proc /\ Goto(pc).of = Top.of
      /\ Goto(pc).pc = pc /\ Goto(pc).errors = Top.errors /\ Goto(pc).i = Top.i
  BY <1>1, GotoIs
<1>3. FrameOK(Goto(pc), program)
  BY <1>1, <1>2 DEF FrameOK
<1> QED BY <1>2, <1>3 DEF Now

\* With the variables as they were.
LEMMA SemanticUpdated ==
    ASSUME DataInv, program' = program, OthersOK', VarInv',
           NEW a \in Agg, NEW r \in AggSet, r.fields = agg[a].fields,
           agg' = [agg EXCEPT ![a] = r]
    PROVE  DataInv' /\ Became(a, r) /\ Unmoved(a, r)
<1>1. r.fields \in Seq(DOMAIN Members(a))
  BY AggFields DEF DataInv
<1> QED BY <1>1, Updated

\* Where nothing is marked, nothing needs to be reported.
LEMMA BlameKept ==
    ASSUME NoBlame, UNCHANGED <<terrorOf, errorsOf, badOf>>, errors' = 0 => errors = 0
    PROVE  NoBlame'
  BY DEF NoBlame

ClassBaseEffect ==
    LET c == Top.of
        b == baseOf[c]
    IN /\ At("semantic", "base") /\ c \in Class /\ errors <= errors'
       /\ Others /\ UNCHANGED <<runOf, symtabOf, doneOf, terrorOf, errorsOf, sizeokOf, deferred>>
       /\ \/ /\ baseClassOf[c] = NoBase /\ UNCHANGED <<scopeOf, baseClassOf>>
             /\ baseOf' = [baseOf EXCEPT ![c] = NoBase]
             /\ baseokOf' = [baseokOf EXCEPT ![c] = "done"]
             /\ \E f : WentOn(f) /\ Now(f, "ancestors")
          \/ /\ b \in Class /\ c \notin Chain(baseClassOf, b) /\ UNCHANGED baseOf
             /\ baseClassOf' = [baseClassOf EXCEPT ![c] = b]
             /\ scopeOf' = [scopeOf EXCEPT ![c] = TRUE]
             /\ baseokOf' = [baseokOf EXCEPT ![c] = "start"]
             /\ \E f, g : /\ Called(f, g) /\ Now(f, "based")
                          /\ g.proc = "semantic" /\ g.of = b /\ g.pc = "enter" /\ g.errors = 0
          \/ /\ b \in Class /\ c \notin Chain(baseClassOf, b) /\ UNCHANGED <<scopeOf, baseOf>>
             /\ baseClassOf' = [baseClassOf EXCEPT ![c] = b]
             /\ baseokOf' = [baseokOf EXCEPT ![c] = "done"]
             /\ \E f : WentOn(f) /\ Now(f, "ancestors")

LEMMA ClassBaseCore ==
    ASSUME DataInv, StackInv, ChainInv, NoBlame, ClassBase
    PROVE  DataInv' /\ StackInv' /\ NoBlame' /\ ClassBaseEffect
<1> DEFINE c == Top.of
           b == agg[c].base
           dropped == \/ b = NoBase
                      \/ agg[b].terror /\ agg[c].baseClass = NoBase
           circular == ~dropped /\ DerivesFrom(c, b)
           r == [agg[c] EXCEPT !.base = NoBase, !.baseok = "done"]
           s == [agg[c] EXCEPT !.baseClass = b, !.scope = TRUE, !.baseok = "start"]
           t == [agg[c] EXCEPT !.baseClass = b, !.baseok = "done"]
           f == Goto("based")
           g == Semantic(b, FALSE)
           h == Goto("ancestors")
<1>1. /\ stack # <<>> /\ Top.proc = "semantic" /\ Top.pc = "base" /\ At("semantic", "base")
      /\ UNCHANGED <<program, var, started, deferred, dprogress, nested, ret, phase>>
  BY DEF ClassBase, At
<1>2. /\ c \in Class /\ c \in Agg /\ agg[c] \in AggSet /\ errors \in Nat /\ b = baseOf[c]
      /\ b \in Class \cup {NoBase} /\ agg[c].baseClass = baseClassOf[c]
  <2>1. c \in Class
    BY <1>1, TopFacts DEF FrameOK
  <2>2. c \in Agg /\ agg[c] \in AggSet
    BY <2>1 DEF DataInv, Agg
  <2> QED BY <2>1, <2>2, AggFields DEF DataInv, AggSet
<1>3. /\ f \in FrameSet /\ Now(f, "based") /\ FrameOK(f, program)
      /\ h \in FrameSet /\ Now(h, "ancestors") /\ FrameOK(h, program)
  BY <1>1, SemanticFrames DEF Pcs, Now
<1>4. VarInv' /\ VarSame
  BY <1>1, SameVar, DataParts
<1>5. \/ /\ dropped \/ circular
         /\ errors' = errors + (IF circular THEN 1 ELSE 0) /\ agg' = [agg EXCEPT ![c] = r] /\ Continue(h)
      \/ /\ ~dropped /\ ~circular /\ errors' = errors
         /\ agg' = [agg EXCEPT ![c] = s] /\ Call(f, g)
      \/ /\ ~dropped /\ ~circular /\ errors' = errors
         /\ agg' = [agg EXCEPT ![c] = t] /\ Continue(h)
  <2>1. /\ [agg EXCEPT ![c].base = NoBase, ![c].baseok = "done"] = [agg EXCEPT ![c] = r]
        /\ [agg EXCEPT ![c].baseClass = b, ![c].scope = TRUE, ![c].baseok = "start"]
             = [agg EXCEPT ![c] = s]
        /\ [agg EXCEPT ![c].baseClass = b, ![c].baseok = "done"] = [agg EXCEPT ![c] = t]
    BY <1>2 DEF DataInv
  <2>2. CASE dropped \/ circular
    <3>1. /\ errors' = errors + (IF circular THEN 1 ELSE 0)
          /\ agg' = [agg EXCEPT ![c].base = NoBase, ![c].baseok = "done"] /\ Continue(h)
      BY <2>2 DEF ClassBase
    <3> HIDE DEF r, s, t, f, g, h, dropped, circular
    <3> QED BY <2>1, <2>2, <3>1
  <2>3. CASE ~(dropped \/ circular)
    <3>1. /\ errors' = errors
          /\ \/ /\ agg' = [agg EXCEPT ![c].baseClass = b, ![c].scope = TRUE, ![c].baseok = "start"]
                /\ Call(f, g)
             \/ /\ agg' = [agg EXCEPT ![c].baseClass = b, ![c].baseok = "done"]
                /\ Continue(h)
      BY <2>3 DEF ClassBase
    <3> HIDE DEF r, s, t, f, g, h, dropped, circular
    <3> QED BY <2>1, <2>3, <3>1
  <2> QED BY <2>2, <2>3
<1>6. errors' \in Nat /\ errors <= errors'
  <2> DEFINE more == IF circular THEN 1 ELSE 0
  <2>1. more \in Nat
    OBVIOUS
  <2>2. errors' = errors + more \/ errors' = errors
    BY <1>5
  <2> HIDE DEF more
  <2> QED BY <1>2, <2>1, <2>2
<1>7. OthersOK'
  BY <1>1, <1>6, DataParts DEF OthersOK
<1>8. /\ f.proc = Top.proc /\ f.of = Top.of /\ h.proc = Top.proc /\ h.of = Top.of
      /\ f.errors = Top.errors /\ h.errors = Top.errors
  BY <1>1, <1>3 DEF Now
<1>9. DerivesFrom(c, b) <=> c \in Chain(baseClassOf, b)
  BY BaseChainIs DEF DerivesFrom
<1> HIDE DEF f, g, h
<1>10. CASE /\ dropped \/ circular
            /\ errors' = errors + (IF circular THEN 1 ELSE 0) /\ agg' = [agg EXCEPT ![c] = r] /\ Continue(h)
  <2>1. /\ r \in AggSet /\ r.fields = agg[c].fields /\ r.semanticRun = agg[c].semanticRun
        /\ r.scope = agg[c].scope /\ r.symtab = agg[c].symtab /\ r.baseClass = agg[c].baseClass
        /\ r.terror = agg[c].terror /\ r.errors = agg[c].errors /\ r.sizeok = agg[c].sizeok
        /\ r.base = NoBase /\ r.baseok = "done"
    BY <1>2 DEF AggSet
  <2>2. baseClassOf[c] = NoBase
    <3>1. CASE dropped
      BY <1>2, <3>1 DEF ChainInv
    <3>2. CASE circular
      <4>1. c \in Chain(baseClassOf, b)
        BY <1>9, <3>2
      <4>2. c \notin Chain(baseClassOf, baseClassOf[c])
        BY <1>2 DEF ChainInv
      <4> QED BY <1>2, <4>1, <4>2 DEF ChainInv
    <3> QED BY <1>10, <3>1, <3>2
  <2> HIDE DEF r
  <2>3. DataInv' /\ Became(c, r) /\ Unmoved(c, r)
    BY <1>1, <1>2, <1>4, <1>7, <1>10, <2>1, SemanticUpdated
  <2>4. /\ UNCHANGED <<runOf, scopeOf, symtabOf, baseClassOf, terrorOf, errorsOf, sizeokOf>>
        /\ baseOf' = [baseOf EXCEPT ![c] = NoBase]
        /\ baseokOf' = [baseokOf EXCEPT ![c] = "done"]
    BY <2>1, <2>3 DEF Unmoved, Became
  <2>5. NoBlame'
    BY <1>2, <1>4, <1>6, <2>4, BlameKept DEF VarSame
  <2>6. StackInv' /\ WentOn(h)
    BY <1>1, <1>3, <1>8, <1>10, GoOn
  <2> QED BY <1>1, <1>2, <1>3, <1>4, <1>6, <2>2, <2>3, <2>4, <2>5, <2>6
          DEF ClassBaseEffect, Others, VarSame
<1>11. ~dropped /\ ~circular => b \in Class /\ c \notin Chain(baseClassOf, b)
  <2>1. ~dropped => b # NoBase
    OBVIOUS
  <2> HIDE DEF dropped
  <2>2. ~dropped /\ ~circular => ~DerivesFrom(c, b)
    OBVIOUS
  <2> QED BY <1>2, <1>9, <2>1, <2>2
<1>12. CASE /\ ~dropped /\ ~circular /\ errors' = errors
            /\ agg' = [agg EXCEPT ![c] = s] /\ Call(f, g)
  <2>1. /\ s \in AggSet /\ s.fields = agg[c].fields /\ s.semanticRun = agg[c].semanticRun
        /\ s.scope = TRUE /\ s.symtab = agg[c].symtab /\ s.baseClass = b
        /\ s.terror = agg[c].terror /\ s.errors = agg[c].errors /\ s.sizeok = agg[c].sizeok
        /\ s.base = agg[c].base /\ s.baseok = "start"
    BY <1>2 DEF AggSet
  <2> HIDE DEF s, dropped, circular
  <2>2. DataInv' /\ Became(c, s) /\ Unmoved(c, s)
    BY <1>1, <1>2, <1>4, <1>7, <1>12, <2>1, SemanticUpdated
  <2>3. /\ UNCHANGED <<runOf, symtabOf, baseOf, terrorOf, errorsOf, sizeokOf>>
        /\ baseClassOf' = [baseClassOf EXCEPT ![c] = b]
        /\ scopeOf' = [scopeOf EXCEPT ![c] = TRUE]
        /\ baseokOf' = [baseokOf EXCEPT ![c] = "start"]
    BY <2>1, <2>2 DEF Unmoved, Became
  <2>4. NoBlame'
    BY <1>4, <1>12, <2>3, BlameKept DEF VarSame
  <2>5. b \in Agg /\ b \in Class /\ c \notin Chain(baseClassOf, b)
    BY <1>11, <1>12 DEF Agg
  <2>6. /\ g \in FrameSet /\ g.proc = "semantic" /\ g.of = b /\ g.pc = "enter" /\ g.errors = 0
    BY <2>5, NewFrames DEF g
  <2>7. FrameOK(g, program) /\ Waits(f, g, program)
    BY <1>3, <2>5, <2>6 DEF FrameOK, Waits, Now
  <2>8. StackInv' /\ Called(f, g)
    BY <1>1, <1>3, <1>8, <1>12, <2>6, <2>7, CallOn
  <2>9. \E f_1, g_1 : /\ Called(f_1, g_1) /\ Now(f_1, "based")
                      /\ g_1.proc = "semantic" /\ g_1.of = b /\ g_1.pc = "enter" /\ g_1.errors = 0
    BY <1>3, <2>6, <2>8
  <2> QED BY <1>1, <1>2, <1>4, <1>6, <2>2, <2>3, <2>4, <2>5, <2>8, <2>9
          DEF ClassBaseEffect, Others, VarSame
<1>13. CASE /\ ~dropped /\ ~circular /\ errors' = errors
            /\ agg' = [agg EXCEPT ![c] = t] /\ Continue(h)
  <2>1. /\ t \in AggSet /\ t.fields = agg[c].fields /\ t.semanticRun = agg[c].semanticRun
        /\ t.scope = agg[c].scope /\ t.symtab = agg[c].symtab /\ t.baseClass = b
        /\ t.terror = agg[c].terror /\ t.errors = agg[c].errors /\ t.sizeok = agg[c].sizeok
        /\ t.base = agg[c].base /\ t.baseok = "done"
    BY <1>2 DEF AggSet
  <2> HIDE DEF t, dropped, circular
  <2>2. DataInv' /\ Became(c, t) /\ Unmoved(c, t)
    BY <1>1, <1>2, <1>4, <1>7, <1>13, <2>1, SemanticUpdated
  <2>3. /\ UNCHANGED <<runOf, scopeOf, symtabOf, baseOf, terrorOf, errorsOf, sizeokOf>>
        /\ baseClassOf' = [baseClassOf EXCEPT ![c] = b]
        /\ baseokOf' = [baseokOf EXCEPT ![c] = "done"]
    BY <2>1, <2>2 DEF Unmoved, Became
  <2>4. NoBlame'
    BY <1>4, <1>13, <2>3, BlameKept DEF VarSame
  <2>5. b \in Class /\ c \notin Chain(baseClassOf, b)
    BY <1>11, <1>13
  <2>6. StackInv' /\ WentOn(h)
    BY <1>1, <1>3, <1>8, <1>13, GoOn
  <2> QED BY <1>1, <1>2, <1>3, <1>4, <1>6, <2>2, <2>3, <2>4, <2>5, <2>6
          DEF ClassBaseEffect, Others, VarSame
<1> QED BY <1>5, <1>10, <1>12, <1>13

\* The symbols in the list of deferred ones.
waiting == {deferred[n] : n \in DOMAIN deferred}

LEMMA WaitingMore ==
    ASSUME deferred \in Seq(Agg), NEW more \in Seq(Agg), deferred' = deferred \o more
    PROVE  /\ deferred' \in Seq(Agg) /\ waiting \subseteq waiting'
           /\ \A n \in DOMAIN more : more[n] \in waiting'
<1>1. /\ deferred' \in Seq(Agg) /\ Len(deferred') = Len(deferred) + Len(more)
      /\ \A n \in 1..Len(deferred) : deferred'[n] = deferred[n]
      /\ \A n \in 1..Len(more) : deferred'[Len(deferred) + n] = more[n]
      /\ Len(deferred) \in Nat /\ Len(more) \in Nat
  BY ConcatProperties, LenProperties
<1>2. /\ DOMAIN deferred = 1..Len(deferred) /\ DOMAIN more = 1..Len(more)
      /\ DOMAIN deferred' = 1..Len(deferred')
  BY <1>1
<1>3. waiting \subseteq waiting'
  <2> SUFFICES ASSUME NEW n \in DOMAIN deferred PROVE deferred[n] \in waiting'
    BY DEF waiting
  <2>1. n \in 1..Len(deferred) /\ n \in DOMAIN deferred'
    BY <1>1, <1>2
  <2> QED BY <1>1, <2>1 DEF waiting
<1>4. ASSUME NEW n \in DOMAIN more PROVE more[n] \in waiting'
  <2>1. n \in 1..Len(more) /\ Len(deferred) + n \in DOMAIN deferred'
    BY <1>1, <1>2
  <2> QED BY <1>1, <2>1 DEF waiting
<1> QED BY <1>1, <1>3, <1>4

LEMMA DeferBehind ==
    ASSUME deferred \in Seq(Agg), NEW c \in Agg, NEW b \in Agg, DeferBehindBase(c, b)
    PROVE  deferred' \in Seq(Agg) /\ waiting \cup {c} \subseteq waiting' /\ stack' = Tail(stack) /\ ret' = ret
<1>1. <<b, c>> \in Seq(Agg) /\ DOMAIN <<b, c>> = 1..2 /\ <<b, c>>[2] = c
  OBVIOUS
<1>2. <<c>> \in Seq(Agg) /\ DOMAIN <<c>> = 1..1 /\ <<c>>[1] = c
  OBVIOUS
<1>3. 2 \in 1..2 /\ 1 \in 1..1
  OBVIOUS
<1>4. deferred' = deferred \o <<b, c>> \/ deferred' = deferred \o <<c>>
  BY DEF DeferBehindBase
<1>5. CASE deferred' = deferred \o <<b, c>>
  <2> DEFINE more == <<b, c>>
  <2>1. more \in Seq(Agg) /\ deferred' = deferred \o more /\ 2 \in DOMAIN more /\ more[2] = c
    BY <1>1, <1>3, <1>5
  <2> HIDE DEF more
  <2>2. deferred' \in Seq(Agg) /\ waiting \subseteq waiting' /\ c \in waiting'
    BY <2>1, WaitingMore
  <2> QED BY <2>2 DEF DeferBehindBase, Return
<1>6. CASE deferred' = deferred \o <<c>>
  <2> DEFINE more == <<c>>
  <2>1. more \in Seq(Agg) /\ deferred' = deferred \o more /\ 1 \in DOMAIN more /\ more[1] = c
    BY <1>2, <1>3, <1>6
  <2> HIDE DEF more
  <2>2. deferred' \in Seq(Agg) /\ waiting \subseteq waiting' /\ c \in waiting'
    BY <2>1, WaitingMore
  <2> QED BY <2>2 DEF DeferBehindBase, Return
<1> QED BY <1>4, <1>5, <1>6

ClassBasedEffect ==
    LET c == Top.of
    IN /\ At("semantic", "based") /\ c \in Class /\ errors' = errors
       /\ Others /\ UNCHANGED <<runOf, symtabOf, baseClassOf, baseOf, doneOf, terrorOf, sizeokOf>>
       /\ \/ /\ Popped /\ waiting \cup {c} \subseteq waiting'
             /\ scopeOf' = [scopeOf EXCEPT ![c] = TRUE]
             /\ baseokOf' = [baseokOf EXCEPT ![c] = "none"]
          \/ /\ \E f : WentOn(f) /\ Now(f, "ancestors")
             /\ waiting' = waiting
             /\ scopeOf' = [scopeOf EXCEPT ![c] = FALSE]
             /\ baseokOf' = [baseokOf EXCEPT ![c] = "done"]

LEMMA ClassBasedCore ==
    ASSUME DataInv, StackInv, ChainInv, NoBlame, ClassBased
    PROVE  DataInv' /\ StackInv' /\ NoBlame' /\ ClassBasedEffect
<1> DEFINE c == Top.of
           b == agg[c].base
           r == [agg[c] EXCEPT !.scope = TRUE, !.baseok = "none"]
           s == [agg[c] EXCEPT !.scope = FALSE, !.baseok = "done"]
           h == Goto("ancestors")
<1>1. /\ stack # <<>> /\ Top.proc = "semantic" /\ Top.pc = "based" /\ At("semantic", "based")
      /\ UNCHANGED <<program, var, started, dprogress, nested, errors, phase>>
  BY DEF ClassBased, At
<1>2. Depth \in 1..Depth /\ Top = levels[Depth] /\ c \in Class
  BY <1>1, TopFacts DEF FrameOK
<1>3. c \in Agg /\ agg[c] \in AggSet /\ b = baseOf[c]
  BY <1>2, AggFields DEF DataInv, Agg
<1>4. b \in Agg
  <2>1. baseClassOf[c] # NoBase /\ baseClassOf[c] \in {NoBase, baseOf[c]}
    BY <1>1, <1>2, <1>3 DEF ChainInv
  <2> QED BY <1>3, <2>1 DEF AggSet, Agg
<1>5. VarInv' /\ VarSame
  BY <1>1, SameVar, DataParts
<1>6. \/ agg' = [agg EXCEPT ![c] = r] /\ DeferBehindBase(c, b)
      \/ agg' = [agg EXCEPT ![c] = s] /\ Continue(h) /\ UNCHANGED <<deferred, ret>>
  <2>1. /\ [agg EXCEPT ![c].scope = TRUE, ![c].baseok = "none"] = [agg EXCEPT ![c] = r]
        /\ [agg EXCEPT ![c].scope = FALSE, ![c].baseok = "done"] = [agg EXCEPT ![c] = s]
    BY <1>3 DEF DataInv
  <2> HIDE DEF r, s, h
  <2> QED BY <2>1 DEF ClassBased, h
<1> HIDE DEF b
<1>7. CASE agg' = [agg EXCEPT ![c] = r] /\ DeferBehindBase(c, b)
  <2>1. deferred' \in Seq(Agg) /\ waiting \cup {c} \subseteq waiting' /\ stack' = Tail(stack) /\ ret' = ret
    BY <1>3, <1>4, <1>7, DeferBehind DEF DataInv
  <2>2. OthersOK'
    BY <1>1, <2>1, DataParts DEF OthersOK
  <2>3. /\ r \in AggSet /\ r.fields = agg[c].fields /\ r.semanticRun = agg[c].semanticRun
        /\ r.scope = TRUE /\ r.symtab = agg[c].symtab /\ r.baseClass = agg[c].baseClass
        /\ r.terror = agg[c].terror /\ r.errors = agg[c].errors /\ r.sizeok = agg[c].sizeok
        /\ r.base = agg[c].base /\ r.baseok = "none"
    BY <1>3 DEF AggSet
  <2> HIDE DEF r
  <2>4. DataInv' /\ Became(c, r) /\ Unmoved(c, r)
    BY <1>1, <1>3, <1>5, <1>7, <2>2, <2>3, SemanticUpdated
  <2>5. /\ UNCHANGED <<runOf, symtabOf, baseClassOf, baseOf, terrorOf, errorsOf, sizeokOf>>
        /\ scopeOf' = [scopeOf EXCEPT ![c] = TRUE]
        /\ baseokOf' = [baseokOf EXCEPT ![c] = "none"]
    BY <2>3, <2>4 DEF Unmoved, Became
  <2>6. NoBlame'
    BY <1>1, <1>5, <2>5, BlameKept DEF VarSame
  <2>7. StackInv' /\ Popped
    BY <1>1, <2>1, PopStack
  <2> QED BY <1>1, <1>2, <1>5, <2>1, <2>4, <2>5, <2>6, <2>7 DEF ClassBasedEffect, Others, VarSame
<1>8. CASE agg' = [agg EXCEPT ![c] = s] /\ Continue(h) /\ UNCHANGED <<deferred, ret>>
  <2>1. OthersOK'
    BY <1>1, <1>8, DataParts DEF OthersOK
  <2>2. /\ s \in AggSet /\ s.fields = agg[c].fields /\ s.semanticRun = agg[c].semanticRun
        /\ s.scope = FALSE /\ s.symtab = agg[c].symtab /\ s.baseClass = agg[c].baseClass
        /\ s.terror = agg[c].terror /\ s.errors = agg[c].errors /\ s.sizeok = agg[c].sizeok
        /\ s.base = agg[c].base /\ s.baseok = "done"
    BY <1>3 DEF AggSet
  <2>3. /\ h \in FrameSet /\ Now(h, "ancestors") /\ FrameOK(h, program)
        /\ h.proc = Top.proc /\ h.of = Top.of
    BY <1>1, SemanticFrames DEF Pcs, Now
  <2> HIDE DEF s, h
  <2>4. DataInv' /\ Became(c, s) /\ Unmoved(c, s)
    BY <1>1, <1>3, <1>5, <1>8, <2>1, <2>2, SemanticUpdated
  <2>5. /\ UNCHANGED <<runOf, symtabOf, baseClassOf, baseOf, terrorOf, errorsOf, sizeokOf>>
        /\ scopeOf' = [scopeOf EXCEPT ![c] = FALSE]
        /\ baseokOf' = [baseokOf EXCEPT ![c] = "done"]
    BY <2>2, <2>4 DEF Unmoved, Became
  <2>6. NoBlame'
    BY <1>1, <1>5, <2>5, BlameKept DEF VarSame
  <2>7. StackInv' /\ WentOn(h)
    BY <1>1, <1>8, <2>3, GoOn
  <2>8. waiting' = waiting
    BY <1>8 DEF waiting
  <2> QED BY <1>1, <1>2, <1>5, <2>3, <2>4, <2>5, <2>6, <2>7, <2>8 DEF ClassBasedEffect, Others, VarSame
<1> QED BY <1>6, <1>7, <1>8

ClassAncestorsEffect ==
    LET c == Top.of
    IN /\ At("semantic", "ancestors") /\ c \in Class /\ errors' = errors
       /\ Others /\ UNCHANGED <<runOf, baseClassOf, baseOf, doneOf, terrorOf, sizeokOf>>
       /\ symtabOf' = [symtabOf EXCEPT ![c] = TRUE]
       /\ \/ /\ Popped /\ waiting \cup {c} \subseteq waiting'
             /\ scopeOf' = [scopeOf EXCEPT ![c] = TRUE] /\ UNCHANGED baseokOf
          \/ /\ \E f : WentOn(f) /\ Now(f, "members") /\ f.i = 1
             /\ waiting' = waiting /\ UNCHANGED scopeOf
             /\ baseokOf' = [baseokOf EXCEPT ![c] = "semanticdone"]

LEMMA ClassAncestorsCore ==
    ASSUME DataInv, StackInv, ChainInv, NoBlame, ClassAncestors
    PROVE  DataInv' /\ StackInv' /\ NoBlame' /\ ClassAncestorsEffect
<1> DEFINE c == Top.of
           b == agg[c].base
           r == [agg[c] EXCEPT !.scope = TRUE, !.symtab = TRUE]
           s == [agg[c] EXCEPT !.symtab = TRUE, !.baseok = "semanticdone"]
           h == Goto("members")
<1>1. /\ stack # <<>> /\ Top.proc = "semantic" /\ Top.pc = "ancestors" /\ At("semantic", "ancestors")
      /\ UNCHANGED <<program, started, dprogress, nested, errors, phase>>
  BY DEF ClassAncestors, At
<1>2. c \in Class /\ Top.i = 1
  BY <1>1, TopFacts DEF FrameOK
<1>3. c \in Agg /\ agg[c] \in AggSet /\ b \in Class \cup {NoBase}
  BY <1>2 DEF DataInv, Agg, AggSet
<1>4. BaseUnfinished(b) => b \in Agg
  BY <1>3 DEF BaseUnfinished, Agg
<1>5. VarInv' /\ VarSame
  <2>1. CASE var' = var
    BY <1>1, <2>1, SameVar, DataParts
  <2>2. CASE DeclareMembers(c)
    BY <1>1, <1>3, <2>2, DeclareVars, DataParts DEF DeclareMembers
  <2> QED BY <2>1, <2>2 DEF ClassAncestors
<1>6. \/ BaseUnfinished(b) /\ agg' = [agg EXCEPT ![c] = r] /\ DeferBehindBase(c, b)
      \/ agg' = [agg EXCEPT ![c] = s] /\ Continue(h) /\ UNCHANGED <<deferred, ret>>
  <2>1. /\ [agg EXCEPT ![c].scope = TRUE, ![c].symtab = TRUE] = [agg EXCEPT ![c] = r]
        /\ [agg EXCEPT ![c].symtab = TRUE, ![c].baseok = "semanticdone"] = [agg EXCEPT ![c] = s]
    BY <1>3 DEF DataInv
  <2> HIDE DEF r, s, h
  <2> QED BY <2>1 DEF ClassAncestors, h
<1> HIDE DEF b
<1>7. CASE BaseUnfinished(b) /\ agg' = [agg EXCEPT ![c] = r] /\ DeferBehindBase(c, b)
  <2>1. deferred' \in Seq(Agg) /\ waiting \cup {c} \subseteq waiting' /\ stack' = Tail(stack) /\ ret' = ret
    BY <1>3, <1>4, <1>7, DeferBehind DEF DataInv
  <2>2. OthersOK'
    BY <1>1, <2>1, DataParts DEF OthersOK
  <2>3. /\ r \in AggSet /\ r.fields = agg[c].fields /\ r.semanticRun = agg[c].semanticRun
        /\ r.scope = TRUE /\ r.symtab = TRUE /\ r.baseClass = agg[c].baseClass
        /\ r.terror = agg[c].terror /\ r.errors = agg[c].errors /\ r.sizeok = agg[c].sizeok
        /\ r.base = agg[c].base /\ r.baseok = agg[c].baseok
    BY <1>3 DEF AggSet
  <2> HIDE DEF r
  <2>4. DataInv' /\ Became(c, r) /\ Unmoved(c, r)
    BY <1>1, <1>3, <1>5, <1>7, <2>2, <2>3, SemanticUpdated
  <2>5. /\ UNCHANGED <<runOf, baseokOf, baseClassOf, baseOf, terrorOf, errorsOf, sizeokOf>>
        /\ scopeOf' = [scopeOf EXCEPT ![c] = TRUE]
        /\ symtabOf' = [symtabOf EXCEPT ![c] = TRUE]
    BY <2>3, <2>4 DEF Unmoved, Became
  <2>6. NoBlame'
    BY <1>1, <1>5, <2>5, BlameKept DEF VarSame
  <2>7. StackInv' /\ Popped
    BY <1>1, <2>1, PopStack
  <2> QED BY <1>1, <1>2, <1>5, <2>1, <2>4, <2>5, <2>6, <2>7 DEF ClassAncestorsEffect, Others, VarSame
<1>8. CASE agg' = [agg EXCEPT ![c] = s] /\ Continue(h) /\ UNCHANGED <<deferred, ret>>
  <2>1. OthersOK'
    BY <1>1, <1>8, DataParts DEF OthersOK
  <2>2. /\ s \in AggSet /\ s.fields = agg[c].fields /\ s.semanticRun = agg[c].semanticRun
        /\ s.scope = agg[c].scope /\ s.symtab = TRUE /\ s.baseClass = agg[c].baseClass
        /\ s.terror = agg[c].terror /\ s.errors = agg[c].errors /\ s.sizeok = agg[c].sizeok
        /\ s.base = agg[c].base /\ s.baseok = "semanticdone"
    BY <1>3 DEF AggSet
  <2>3. /\ h \in FrameSet /\ Now(h, "members") /\ FrameOK(h, program) /\ h.i = 1
        /\ h.proc = Top.proc /\ h.of = Top.of
    BY <1>1, <1>2, SemanticFrames DEF Pcs, Now
  <2> HIDE DEF s, h
  <2>4. DataInv' /\ Became(c, s) /\ Unmoved(c, s)
    BY <1>1, <1>3, <1>5, <1>8, <2>1, <2>2, SemanticUpdated
  <2>5. /\ UNCHANGED <<runOf, scopeOf, baseClassOf, baseOf, terrorOf, errorsOf, sizeokOf>>
        /\ symtabOf' = [symtabOf EXCEPT ![c] = TRUE]
        /\ baseokOf' = [baseokOf EXCEPT ![c] = "semanticdone"]
    BY <2>2, <2>4 DEF Unmoved, Became
  <2>6. NoBlame'
    BY <1>1, <1>5, <2>5, BlameKept DEF VarSame
  <2>7. StackInv' /\ WentOn(h)
    BY <1>1, <1>8, <2>3, GoOn
  <2>8. waiting' = waiting
    BY <1>8 DEF waiting
  <2> QED BY <1>1, <1>2, <1>5, <2>3, <2>4, <2>5, <2>6, <2>7, <2>8
          DEF ClassAncestorsEffect, Others, VarSame
<1> QED BY <1>6, <1>7, <1>8

SemanticMemberEffect ==
    LET a == Top.of
        i == Top.i
    IN /\ At("semantic", "members") /\ i \in DOMAIN Members(a) /\ errors' = errors
       /\ Kept /\ UNCHANGED <<nested, phase, deferred>>
       /\ \E f : /\ Now(f, "members") /\ f.i = i + 1
                 /\ \/ /\ IsVar(a, i) /\ UNCHANGED started
                       /\ \E g : /\ Called(f, g) /\ g.proc = "variable" /\ g.i = i
                                 /\ g.pc = "enter" /\ g.errors = 0
                    \/ ~IsVar(a, i) /\ UNCHANGED started /\ WentOn(f)
                    \/ /\ ~IsVar(a, i) /\ started' = started \cup {Imported}
                       /\ \E g : /\ Called(f, g) /\ g.proc = "module" /\ g.of = Imported
                                 /\ g.i = 1 /\ g.pc = "enter" /\ g.errors = 0

LEMMA SemanticMemberCore ==
    ASSUME DataInv, StackInv, NoBlame, SemanticMember
    PROVE  DataInv' /\ StackInv' /\ NoBlame' /\ SemanticMemberEffect
<1> DEFINE a == Top.of
           i == Top.i
           f == GotoMember("members", i + 1)
           g == Variable(a, i, TRUE)
           m == ModuleSemantic(Imported)
<1>1. /\ stack # <<>> /\ Top.proc = "semantic" /\ Top.pc = "members" /\ At("semantic", "members")
      /\ UNCHANGED <<program, agg, var, deferred, dprogress, nested, errors, ret, phase>>
      /\ i <= Len(Members(a))
  BY DEF SemanticMember, At
<1>2. /\ Top \in FrameSet /\ FrameOK(Top, program) /\ a \in Agg /\ i \in Nat \ {0}
  BY <1>1, TopFacts, TopAgg DEF FrameOK
<1>3. i \in DOMAIN Members(a)
  <2>1. DOMAIN Members(a) = 1..Len(Members(a)) /\ Len(Members(a)) \in Nat
    BY <1>2, ProgramFacts DEF DataInv
  <2> QED BY <1>1, <1>2, <2>1
<1>4. \/ IsVar(a, i) /\ Call(f, g) /\ started' = started
      \/ ~IsVar(a, i) /\ Continue(f) /\ started' = started
      \/ ~IsVar(a, i) /\ Call(f, m) /\ started' = started \cup {Imported}
  BY DEF SemanticMember, ImportModule
<1>5. OthersOK'
  BY <1>1, <1>4, DataParts DEF OthersOK
<1>6. DataInv' /\ Kept
  BY <1>1, <1>5, DataSame DEF Kept
<1>7. NoBlame'
  BY <1>1, <1>6, BlameKept DEF Kept, AggSame, VarSame
<1>8. f \in FrameSet /\ Now(f, "members") /\ f.i = i + 1 /\ f.proc = Top.proc /\ f.of = a
  BY <1>1, <1>2, GotoIs DEF Pcs, Now
<1>9. FrameOK(f, program)
  <2> HIDE DEF f
  <2> QED BY <1>2, <1>8 DEF FrameOK, Now
<1> HIDE DEF f
<1>10. CASE IsVar(a, i) /\ Call(f, g) /\ started' = started
  <2>1. /\ g \in FrameSet /\ g.proc = "variable" /\ g.of = a /\ g.i = i /\ g.pc = "enter"
        /\ g.errors = 0 /\ g.sc = TRUE
    BY <1>2, NewFrames
  <2>2. Members(a)[i].kind # Import
    BY <1>10 DEF IsVar
  <2> HIDE DEF g
  <2>3. FrameOK(g, program)
    BY <1>2, <1>3, <2>1, <2>2 DEF FrameOK, Members
  <2>4. Waits(f, g, program)
    BY <1>8, <2>1 DEF Waits, Now
  <2>5. StackInv' /\ Called(f, g)
    BY <1>1, <1>8, <1>9, <1>10, <2>1, <2>3, <2>4, CallOn
  <2> QED BY <1>1, <1>3, <1>6, <1>7, <1>8, <1>10, <2>1, <2>5 DEF SemanticMemberEffect
<1>11. CASE ~IsVar(a, i) /\ Continue(f) /\ started' = started
  <2>1. StackInv' /\ WentOn(f)
    BY <1>1, <1>8, <1>9, <1>11, GoOn
  <2> QED BY <1>1, <1>3, <1>6, <1>7, <1>8, <1>11, <2>1 DEF SemanticMemberEffect
<1>12. CASE ~IsVar(a, i) /\ Call(f, m) /\ started' = started \cup {Imported}
  <2>1. /\ m \in FrameSet /\ m.proc = "module" /\ m.of = Imported /\ m.i = 1 /\ m.pc = "enter"
        /\ m.errors = 0
    BY NewFrames
  <2> HIDE DEF m
  <2>2. FrameOK(m, program) /\ Waits(f, m, program)
    BY <1>8, <2>1 DEF FrameOK, Waits, Now
  <2>3. StackInv' /\ Called(f, m)
    BY <1>1, <1>8, <1>9, <1>12, <2>1, <2>2, CallOn
  <2> QED BY <1>1, <1>3, <1>6, <1>7, <1>8, <1>12, <2>1, <2>3 DEF SemanticMemberEffect
<1> QED BY <1>4, <1>10, <1>11, <1>12

SemanticMembersDoneEffect ==
    LET a == Top.of
    IN /\ At("semantic", "members") /\ Top.i > Len(Members(a)) /\ errors' = errors
       /\ Others /\ RunSame /\ UNCHANGED <<doneOf, sizeokOf, deferred>>
       /\ \A b \in Agg : terrorOf[b] => terrorOf'[b]
       /\ \E f, g : /\ Called(f, g) /\ Now(f, "fields")
                    /\ g.proc = "determineFields" /\ g.of = a /\ g.pc = "enter" /\ g.errors = 0

LEMMA SemanticMembersDoneCore ==
    ASSUME DataInv, StackInv, NoBlame, SemanticMembersDone
    PROVE  DataInv' /\ StackInv' /\ NoBlame' /\ SemanticMembersDoneEffect
<1> DEFINE a == Top.of
           bad == a \in Struct /\ \E i \in DOMAIN var[a] : var[a][i].terror
           worse == (agg[a].terror \/ (a \in Struct /\ agg[a].errors)) \/ bad
           r == [agg[a] EXCEPT !.errors = agg[a].errors \/ bad, !.terror = worse]
           f == Goto("fields")
           g == DetermineFields(a)
<1>1. /\ stack # <<>> /\ Top.proc = "semantic" /\ Top.pc = "members" /\ At("semantic", "members")
      /\ UNCHANGED <<program, var, started, deferred, dprogress, nested, errors, ret, phase>>
      /\ Top.i > Len(Members(a)) /\ Call(f, g)
  BY DEF SemanticMembersDone, At
<1>2. a \in Agg /\ agg[a] \in AggSet /\ agg[a].terror = terrorOf[a] /\ agg[a].errors = errorsOf[a]
  BY <1>1, TopAgg, AggFields DEF DataInv
<1>3. VarInv /\ VarInv' /\ VarSame
  BY <1>1, SameVar, DataParts
<1>4. OthersOK'
  BY <1>1, DataParts DEF OthersOK
<1>5. agg' = [agg EXCEPT ![a] = r]
  BY <1>2 DEF SemanticMembersDone, DataInv
<1>6. bad => badOf[a] # {}
  <2> SUFFICES ASSUME bad PROVE badOf[a] # {}
    OBVIOUS
  <2>1. DOMAIN var[a] = DOMAIN Members(a)
    BY <1>2, <1>3 DEF VarInv
  <2>2. PICK i \in DOMAIN Members(a) : var[a][i].terror
    BY <2>1
  <2>3. i \in badOf[a]
    BY <1>2, <2>2 DEF badOf
  <2> QED BY <2>3
<1>7. worse \in BOOLEAN
  OBVIOUS
<1> HIDE DEF bad
<1>8. /\ r \in AggSet /\ r.fields = agg[a].fields /\ r.semanticRun = agg[a].semanticRun
      /\ r.scope = agg[a].scope /\ r.symtab = agg[a].symtab /\ r.baseClass = agg[a].baseClass
      /\ r.terror = worse /\ r.errors = (agg[a].errors \/ bad) /\ r.sizeok = agg[a].sizeok
      /\ r.base = agg[a].base /\ r.baseok = agg[a].baseok
  BY <1>2, <1>7 DEF AggSet
<1> HIDE DEF r
<1>9. DataInv' /\ Became(a, r) /\ Unmoved(a, r)
  BY <1>1, <1>2, <1>3, <1>4, <1>5, <1>8, SemanticUpdated
<1>10. RunSame /\ UNCHANGED sizeokOf
  BY <1>8, <1>9 DEF Unmoved, RunSame
<1>11. /\ terrorOf'[a] = worse /\ errorsOf'[a] = (agg[a].errors \/ bad)
       /\ \A b \in Agg : b # a => terrorOf'[b] = terrorOf[b] /\ errorsOf'[b] = errorsOf[b]
  BY <1>2, <1>8, <1>9 DEF Became, terrorOf, errorsOf
<1>12. \A b \in Agg : terrorOf[b] => terrorOf'[b]
  BY <1>2, <1>11
<1>13. NoBlame'
  <2> SUFFICES ASSUME errors' = 0, NEW b \in Agg
               PROVE  ~terrorOf'[b] /\ ~errorsOf'[b] /\ badOf'[b] = {}
    BY DEF NoBlame
  <2>1. \A d \in Agg : ~terrorOf[d] /\ ~errorsOf[d] /\ badOf[d] = {}
    BY <1>1 DEF NoBlame
  <2>2. ~agg[a].terror /\ ~agg[a].errors /\ ~bad
    BY <1>2, <1>6, <2>1
  <2>3. ~worse
    BY <2>2
  <2> HIDE DEF worse
  <2>4. badOf'[b] = {}
    BY <1>3, <2>1 DEF VarSame
  <2> QED BY <1>11, <2>1, <2>2, <2>3, <2>4
<1>14. f \in FrameSet /\ Now(f, "fields") /\ FrameOK(f, program) /\ f.proc = Top.proc /\ f.of = a
  BY <1>1, SemanticFrames DEF Pcs, Now
<1>15. /\ g \in FrameSet /\ g.proc = "determineFields" /\ g.of = a /\ g.pc = "enter" /\ g.errors = 0
  BY <1>2, NewFrames
<1> HIDE DEF f, g
<1>16. FrameOK(g, program) /\ Waits(f, g, program)
  BY <1>2, <1>14, <1>15 DEF FrameOK, Waits, Now
<1>17. StackInv' /\ Called(f, g)
  BY <1>1, <1>14, <1>15, <1>16, CallOn
<1> QED BY <1>1, <1>3, <1>9, <1>10, <1>12, <1>13, <1>14, <1>15, <1>17
        DEF SemanticMembersDoneEffect, Others, VarSame

SemanticNoFieldsEffect ==
    LET a == Top.of
    IN /\ At("semantic", "fields") /\ ~ret /\ Popped /\ errors <= errors'
       /\ Others /\ UNCHANGED <<scopeOf, symtabOf, baseokOf, baseClassOf, baseOf, doneOf,
                                sizeokOf, deferred>>
       /\ runOf' = [runOf EXCEPT ![a] = IF a \in Struct THEN "done" ELSE runOf[a]]
       /\ \A b \in Agg : terrorOf[b] => terrorOf'[b]

LEMMA SemanticNoFieldsCore ==
    ASSUME DataInv, StackInv, NoBlame, SemanticNoFields
    PROVE  DataInv' /\ StackInv' /\ NoBlame' /\ SemanticNoFieldsEffect
<1> DEFINE a == Top.of
           more == IF agg[a].terror THEN 0 ELSE 1
           r == [agg[a] EXCEPT !.semanticRun = "done", !.terror = TRUE,
                               !.errors = agg[a].errors \/ ~agg[a].terror]
<1>1. /\ stack # <<>> /\ Top.proc = "semantic" /\ Top.pc = "fields" /\ At("semantic", "fields")
      /\ UNCHANGED <<program, var, started, deferred, dprogress, nested, phase>>
      /\ ~ret /\ stack' = Tail(stack) /\ ret' = ret
  BY DEF SemanticNoFields, At, Return
<1>2. /\ a \in Agg /\ agg[a] \in AggSet /\ agg[a].terror = terrorOf[a] /\ agg[a].errors = errorsOf[a]
      /\ errors \in Nat /\ more \in Nat
  BY <1>1, TopAgg, AggFields DEF DataInv
<1>3. VarInv /\ VarInv' /\ VarSame
  BY <1>1, SameVar, DataParts
<1>4. StackInv' /\ Popped
  BY <1>1, PopStack
<1>5. CASE a \in Struct
  <2>1. errors' = errors + more /\ agg' = [agg EXCEPT ![a] = r]
    BY <1>2, <1>5 DEF SemanticNoFields, DataInv
  <2>2. errors' \in Nat /\ errors <= errors'
    BY <1>2, <2>1
  <2>3. OthersOK'
    BY <1>1, <2>2, DataParts DEF OthersOK
  <2>4. /\ r \in AggSet /\ r.fields = agg[a].fields /\ r.semanticRun = "done"
        /\ r.scope = agg[a].scope /\ r.symtab = agg[a].symtab /\ r.baseClass = agg[a].baseClass
        /\ r.terror = TRUE /\ r.sizeok = agg[a].sizeok
        /\ r.base = agg[a].base /\ r.baseok = agg[a].baseok
    BY <1>2 DEF AggSet, Runs
  <2> HIDE DEF r
  <2>5. DataInv' /\ Became(a, r) /\ Unmoved(a, r)
    BY <1>1, <1>2, <1>3, <2>1, <2>3, <2>4, SemanticUpdated
  <2>6. /\ UNCHANGED <<scopeOf, symtabOf, baseokOf, baseClassOf, baseOf, sizeokOf>>
        /\ runOf' = [runOf EXCEPT ![a] = "done"]
    BY <2>4, <2>5 DEF Unmoved, Became
  <2>7. \A b \in Agg : terrorOf[b] => terrorOf'[b]
    BY <1>2, <2>4, <2>5 DEF Became, terrorOf
  <2>8. errors' # 0
    <3>1. CASE agg[a].terror
      <4>1. errors # 0
        BY <1>2, <3>1 DEF NoBlame
      <4> HIDE DEF more
      <4> QED BY <1>2, <2>2, <4>1
    <3>2. CASE ~agg[a].terror
      BY <1>2, <2>1, <3>2
    <3> QED BY <3>1, <3>2
  <2>9. NoBlame'
    BY <2>8 DEF NoBlame
  <2> QED BY <1>1, <1>3, <1>4, <1>5, <2>2, <2>5, <2>6, <2>7, <2>9
          DEF SemanticNoFieldsEffect, Others, VarSame
<1>6. CASE a \notin Struct
  <2>1. errors' = errors /\ agg' = agg
    BY <1>6 DEF SemanticNoFields
  <2>2. OthersOK'
    BY <1>1, <2>1, DataParts DEF OthersOK
  <2>3. DataInv' /\ AggSame
    BY <1>1, <2>1, <2>2, DataSame
  <2>4. NoBlame'
    BY <1>3, <2>1, <2>3, BlameKept DEF VarSame, AggSame
  <2>5. runOf' = [runOf EXCEPT ![a] = IF a \in Struct THEN "done" ELSE runOf[a]]
    BY <1>2, <1>6, <2>3 DEF AggSame, runOf
  <2>6. errors <= errors'
    BY <1>2, <2>1
  <2> QED BY <1>1, <1>3, <1>4, <2>3, <2>4, <2>5, <2>6 DEF SemanticNoFieldsEffect, Others, VarSame, AggSame
<1> QED BY <1>5, <1>6

SemanticDeferEffect ==
    LET a == Top.of
    IN /\ At("semantic", "fields") /\ ret /\ Popped /\ errors' = errors
       /\ Others /\ UNCHANGED <<runOf, symtabOf, baseokOf, baseClassOf, baseOf, doneOf,
                                terrorOf, sizeokOf>>
       /\ scopeOf' = [scopeOf EXCEPT ![a] = TRUE]
       /\ waiting \cup {a} \subseteq waiting'

LEMMA SemanticDeferCore ==
    ASSUME DataInv, StackInv, NoBlame, SemanticDefer
    PROVE  DataInv' /\ StackInv' /\ NoBlame' /\ SemanticDeferEffect
<1> DEFINE a == Top.of
           r == [agg[a] EXCEPT !.scope = TRUE]
           more == <<a>>
<1>1. /\ stack # <<>> /\ Top.proc = "semantic" /\ Top.pc = "fields" /\ At("semantic", "fields")
      /\ UNCHANGED <<program, var, started, dprogress, nested, errors, phase>>
      /\ ret /\ stack' = Tail(stack) /\ ret' = ret /\ deferred' = Append(deferred, a)
  BY DEF SemanticDefer, At, Return
<1>2. a \in Agg /\ agg[a] \in AggSet /\ deferred \in Seq(Agg)
  BY <1>1, TopAgg, AggFields DEF DataInv
<1>3. VarInv' /\ VarSame
  BY <1>1, SameVar, DataParts
<1>4. deferred' \in Seq(Agg) /\ waiting \cup {a} \subseteq waiting'
  <2>1. more \in Seq(Agg) /\ deferred' = deferred \o more /\ 1 \in DOMAIN more /\ more[1] = a
    BY <1>1, <1>2
  <2> HIDE DEF more
  <2>2. deferred' \in Seq(Agg) /\ waiting \subseteq waiting' /\ a \in waiting'
    BY <1>2, <2>1, WaitingMore
  <2> QED BY <2>2
<1>5. OthersOK'
  BY <1>1, <1>4, DataParts DEF OthersOK
<1>6. agg' = [agg EXCEPT ![a] = r]
  BY <1>2 DEF SemanticDefer, DataInv
<1>7. /\ r \in AggSet /\ r.fields = agg[a].fields /\ r.semanticRun = agg[a].semanticRun
      /\ r.scope = TRUE /\ r.symtab = agg[a].symtab /\ r.baseClass = agg[a].baseClass
      /\ r.terror = agg[a].terror /\ r.errors = agg[a].errors /\ r.sizeok = agg[a].sizeok
      /\ r.base = agg[a].base /\ r.baseok = agg[a].baseok
  BY <1>2 DEF AggSet
<1> HIDE DEF r
<1>8. DataInv' /\ Became(a, r) /\ Unmoved(a, r)
  BY <1>1, <1>2, <1>3, <1>5, <1>6, <1>7, SemanticUpdated
<1>9. /\ UNCHANGED <<runOf, symtabOf, baseokOf, baseClassOf, baseOf, terrorOf, errorsOf, sizeokOf>>
      /\ scopeOf' = [scopeOf EXCEPT ![a] = TRUE]
  BY <1>7, <1>8 DEF Unmoved, Became
<1>10. NoBlame'
  BY <1>1, <1>3, <1>9, BlameKept DEF VarSame
<1>11. StackInv' /\ Popped
  BY <1>1, PopStack
<1> QED BY <1>1, <1>3, <1>4, <1>8, <1>9, <1>10, <1>11 DEF SemanticDeferEffect, Others, VarSame

\* While no error is reported, every call began with none.
ErrInv == errors = 0 => \A k \in 1..Depth : levels[k].errors = 0

SemanticDoneEffect ==
    LET a == Top.of
    IN /\ At("semantic", "fields") /\ ret /\ Popped /\ errors' = errors
       /\ Others /\ UNCHANGED <<scopeOf, symtabOf, baseokOf, baseClassOf, baseOf, doneOf,
                                sizeokOf, deferred>>
       /\ runOf' = [runOf EXCEPT ![a] = "done"]
       /\ \A b \in Agg : terrorOf[b] => terrorOf'[b]

LEMMA SemanticDoneCore ==
    ASSUME DataInv, StackInv, NoBlame, ErrInv, SemanticDone
    PROVE  DataInv' /\ StackInv' /\ NoBlame' /\ SemanticDoneEffect
<1> DEFINE a == Top.of
           failed == errors # Top.errors
           r == [agg[a] EXCEPT !.semanticRun = "done", !.terror = agg[a].terror \/ failed,
                               !.errors = agg[a].errors \/ failed]
<1>1. /\ stack # <<>> /\ Top.proc = "semantic" /\ Top.pc = "fields" /\ At("semantic", "fields")
      /\ UNCHANGED <<program, var, started, deferred, nested, errors, phase>>
      /\ ret /\ stack' = Tail(stack) /\ ret' = ret /\ dprogress' = dprogress + 1
  BY DEF SemanticDone, At, Return
<1>2. a \in Agg /\ agg[a] \in AggSet /\ agg[a].terror = terrorOf[a] /\ agg[a].errors = errorsOf[a]
  BY <1>1, TopAgg, AggFields DEF DataInv
<1>3. VarInv' /\ VarSame
  BY <1>1, SameVar, DataParts
<1>4. OthersOK'
  BY <1>1, DataParts DEF OthersOK
<1>5. agg' = [agg EXCEPT ![a] = r]
  BY <1>2 DEF SemanticDone, DataInv
<1>6. /\ r \in AggSet /\ r.fields = agg[a].fields /\ r.semanticRun = "done"
      /\ r.scope = agg[a].scope /\ r.symtab = agg[a].symtab /\ r.baseClass = agg[a].baseClass
      /\ r.terror = (agg[a].terror \/ failed) /\ r.errors = (agg[a].errors \/ failed)
      /\ r.sizeok = agg[a].sizeok /\ r.base = agg[a].base /\ r.baseok = agg[a].baseok
  BY <1>2 DEF AggSet, Runs
<1> HIDE DEF r
<1>7. DataInv' /\ Became(a, r) /\ Unmoved(a, r)
  BY <1>1, <1>2, <1>3, <1>4, <1>5, <1>6, SemanticUpdated
<1>8. /\ UNCHANGED <<scopeOf, symtabOf, baseokOf, baseClassOf, baseOf, sizeokOf>>
      /\ runOf' = [runOf EXCEPT ![a] = "done"]
  BY <1>6, <1>7 DEF Unmoved, Became
<1>9. /\ terrorOf'[a] = r.terror /\ errorsOf'[a] = r.errors
      /\ \A b \in Agg : b # a => terrorOf'[b] = terrorOf[b] /\ errorsOf'[b] = errorsOf[b]
  BY <1>2, <1>7 DEF Became, terrorOf, errorsOf
<1>10. \A b \in Agg : terrorOf[b] => terrorOf'[b]
  BY <1>2, <1>6, <1>9
<1>11. NoBlame'
  <2> SUFFICES ASSUME errors' = 0, NEW b \in Agg
               PROVE  ~terrorOf'[b] /\ ~errorsOf'[b] /\ badOf'[b] = {}
    BY DEF NoBlame
  <2>1. errors = 0 /\ \A d \in Agg : ~terrorOf[d] /\ ~errorsOf[d] /\ badOf[d] = {}
    BY <1>1 DEF NoBlame
  <2>2. Depth \in 1..Depth /\ Top = levels[Depth]
    BY <1>1, TopFacts
  <2>3. ~failed
    BY <2>1, <2>2 DEF ErrInv
  <2>4. ~r.terror /\ ~r.errors
    BY <1>2, <1>6, <2>1, <2>3
  <2>5. badOf'[b] = {}
    BY <1>3, <2>1 DEF VarSame
  <2> QED BY <1>9, <2>1, <2>4, <2>5
<1>12. StackInv' /\ Popped
  BY <1>1, PopStack
<1> QED BY <1>1, <1>3, <1>7, <1>8, <1>10, <1>11, <1>12 DEF SemanticDoneEffect, Others, VarSame

-----------------------------------------------------------------------------
(***************************************************************************)
(* All the steps.                                                          *)
(***************************************************************************)

\* An aggregate that is entered takes over the mark of its errors.
LEMMA EnteredBlame ==
    ASSUME NoBlame, NEW a \in Agg, terrorOf' = [terrorOf EXCEPT ![a] = terrorOf[a] \/ errorsOf[a]],
           UNCHANGED <<errorsOf, errors>>, VarSame
    PROVE  NoBlame' /\ \A b \in Agg : terrorOf[b] => terrorOf'[b]
<1>1. \A b \in Agg : terrorOf'[b] = IF b = a THEN terrorOf[a] \/ errorsOf[a] ELSE terrorOf[b]
  BY DEF terrorOf
<1>2. NoBlame'
  BY <1>1 DEF NoBlame, VarSame
<1> QED BY <1>1, <1>2

LEMMA EnteredNoBlame ==
    ASSUME DataInv, StackInv, NoBlame, VarSame, SemanticAtOnceEffect \/ SemanticEnterEffect
    PROVE  NoBlame' /\ \A b \in Agg : terrorOf[b] => terrorOf'[b]
<1>1. stack # <<>> /\ Top.proc = "semantic" /\ UNCHANGED <<errorsOf, errors>>
  BY DEF SemanticAtOnceEffect, SemanticEnterEffect, At
<1>2. Top.of \in Agg
  BY <1>1, TopAgg
<1>3. terrorOf' = terrorOf \/ terrorOf' = [terrorOf EXCEPT ![Top.of] = terrorOf[Top.of] \/ errorsOf[Top.of]]
  BY DEF SemanticAtOnceEffect, SemanticEnterEffect
<1>4. CASE terrorOf' = terrorOf
  BY <1>1, <1>4, BlameKept DEF VarSame
<1>5. CASE terrorOf' = [terrorOf EXCEPT ![Top.of] = terrorOf[Top.of] \/ errorsOf[Top.of]]
  BY <1>1, <1>2, <1>5, EnteredBlame
<1> QED BY <1>3, <1>4, <1>5

LastTryEffect ==
    /\ stack = <<>> /\ phase' = "deferred" /\ Kept /\ UNCHANGED <<errors, started, nested, deferred>>
    /\ Depth' = 1 /\ levels'[1].proc = "runDeferred" /\ levels'[1].pc = "enter" /\ levels'[1].errors = 0

LEMMA LastTryCore ==
    ASSUME DataInv, StackInv, LastTry
    PROVE  DataInv' /\ StackInv' /\ LastTryEffect
<1>1. DataInv' /\ Kept
  <2>1. OthersOK'
    BY DataParts DEF LastTry, OthersOK
  <2> QED BY <2>1, DataSame DEF LastTry, Kept
<1>2. /\ RunDeferred \in FrameSet /\ RunDeferred.proc = "runDeferred" /\ RunDeferred.pc = "enter"
      /\ RunDeferred.errors = 0
  BY NewFrames
<1>3. stack' = <<RunDeferred>>
  BY DEF LastTry
<1> HIDE DEF RunDeferred
<1>4. stack' \in Seq(FrameSet) /\ Depth' = 1 /\ stack'[1] = RunDeferred
  BY <1>2, <1>3 DEF Depth
<1>5. levels'[1] = RunDeferred
  <2>1. levels' = [k \in 1..1 |-> stack'[1 + 1 - k]]
    BY <1>4 DEF levels
  <2>2. 1 \in 1..1 /\ 1 + 1 - 1 = 1
    OBVIOUS
  <2> QED BY <1>4, <2>1, <2>2
<1>6. FrameOK(levels'[1], program')
  BY <1>2, <1>5 DEF FrameOK
<1>7. (\A k \in 1..Depth' : k = 1) /\ (\A k \in 1..Depth' - 1 : FALSE)
  BY <1>4
<1>8. StackInv'
  BY <1>4, <1>6, <1>7 DEF StackInv
<1> QED BY <1>1, <1>2, <1>4, <1>5, <1>8 DEF LastTry, LastTryEffect

ReportUnresolvedEffect ==
    /\ stack = <<>> /\ stack' = <<>> /\ Depth' = 0 /\ phase' = "end" /\ Kept
    /\ UNCHANGED <<started, nested, deferred>>
    /\ errors' \in Nat /\ errors <= errors' /\ (errors' = 0 => deferred = <<>>)

LEMMA ReportUnresolvedCore ==
    ASSUME DataInv, StackInv, ReportUnresolved
    PROVE  DataInv' /\ StackInv' /\ ReportUnresolvedEffect
<1>1. errors \in Nat /\ Len(deferred) \in Nat /\ (Len(deferred) = 0 => deferred = <<>>)
  BY EmptySeq, LenProperties DEF DataInv
<1>2. errors' = errors + Len(deferred)
  BY DEF ReportUnresolved
<1>3. errors' \in Nat /\ errors <= errors' /\ (errors' = 0 => deferred = <<>>)
  BY <1>1, <1>2
<1>4. DataInv' /\ Kept
  <2>1. OthersOK'
    BY <1>3, DataParts DEF ReportUnresolved, OthersOK
  <2> QED BY <2>1, DataSame DEF ReportUnresolved, Kept
<1>5. StackInv' /\ Depth' = 0
  <2>1. stack' = stack /\ program' = program
    BY DEF ReportUnresolved
  <2>2. Depth' = Depth /\ levels' = levels /\ Depth = 0
    BY <2>1, EmptyStack DEF Depth, levels, ReportUnresolved, StackInv
  <2> QED BY <2>1, <2>2 DEF StackInv
<1> QED BY <1>3, <1>4, <1>5 DEF ReportUnresolved, ReportUnresolvedEffect

StepEffect ==
    \/ ModuleMemberEffect \/ ModuleMemberDoneEffect
    \/ RunDeferredAtOnceEffect \/ RunDeferredEnterEffect \/ RunDeferredSymbolEffect
    \/ RunDeferredRoundDoneEffect
    \/ SemanticAtOnceEffect /\ VarSame /\ Others
    \/ SemanticEnterEffect /\ VarSame /\ Others
    \/ ClassBaseEffect \/ ClassBasedEffect \/ ClassAncestorsEffect
    \/ SemanticMemberEffect \/ SemanticMembersDoneEffect
    \/ SemanticNoFieldsEffect \/ SemanticDeferEffect \/ SemanticDoneEffect
    \/ InnerEffect
    \/ LastTryEffect \/ ReportUnresolvedEffect

\* What never goes back.
Grows ==
    /\ program' = program /\ started \subseteq started' /\ (errors' = 0 => errors = 0)
    /\ \A a \in Agg : /\ doneOf[a] \subseteq doneOf'[a] /\ (terrorOf[a] => terrorOf'[a])
                      /\ (runOf[a] = "done" => runOf'[a] = "done")
                      /\ (runOf[a] # "init" => runOf'[a] # "init")

BlameInv == NoBlame /\ RetInv /\ ErrInv

LEMMA StepCore ==
    ASSUME DataInv, StackInv, ChainInv, BlameInv, Step
    PROVE  DataInv' /\ StackInv' /\ NoBlame' /\ StepEffect
<1>1. NoBlame /\ RetInv /\ ErrInv
  BY DEF BlameInv
<1>2. ASSUME Quiet PROVE NoBlame'
  BY <1>1, <1>2, BlameKept DEF Quiet, Kept, AggSame, VarSame
<1>3. CASE ModuleMember
  BY <1>2, <1>3, ModuleMemberCore DEF ModuleMemberEffect, StepEffect
<1>4. CASE ModuleMemberDone
  BY <1>2, <1>4, ModuleMemberDoneCore DEF ModuleMemberDoneEffect, StepEffect
<1>5. CASE RunDeferredAtOnce
  BY <1>2, <1>5, RunDeferredAtOnceCore DEF RunDeferredAtOnceEffect, StepEffect
<1>6. CASE RunDeferredEnter
  BY <1>2, <1>6, RunDeferredEnterCore DEF RunDeferredEnterEffect, StepEffect
<1>7. CASE RunDeferredSymbol
  BY <1>2, <1>7, RunDeferredSymbolCore DEF RunDeferredSymbolEffect, StepEffect
<1>8. CASE RunDeferredRoundDone
  BY <1>2, <1>8, RunDeferredRoundDoneCore DEF RunDeferredRoundDoneEffect, StepEffect
<1>9. CASE SemanticAtOnce
  <2>1. DataInv' /\ StackInv' /\ VarSame /\ SemanticAtOnceEffect
    BY <1>9, SemanticAtOnceCore
  <2>2. Others
    BY <1>9 DEF SemanticAtOnce, Others
  <2> QED BY <1>1, <2>1, <2>2, EnteredNoBlame DEF StepEffect
<1>10. CASE SemanticEnter
  <2>1. DataInv' /\ StackInv' /\ VarSame /\ SemanticEnterEffect
    BY <1>10, SemanticEnterCore
  <2>2. Others
    BY <1>10 DEF SemanticEnter, Others
  <2> QED BY <1>1, <2>1, <2>2, EnteredNoBlame DEF StepEffect
<1>11. CASE ClassBase
  BY <1>1, <1>11, ClassBaseCore DEF StepEffect
<1>12. CASE ClassBased
  BY <1>1, <1>12, ClassBasedCore DEF StepEffect
<1>13. CASE ClassAncestors
  BY <1>1, <1>13, ClassAncestorsCore DEF StepEffect
<1>14. CASE SemanticMember
  BY <1>1, <1>14, SemanticMemberCore DEF StepEffect
<1>15. CASE SemanticMembersDone
  BY <1>1, <1>15, SemanticMembersDoneCore DEF StepEffect
<1>16. CASE SemanticNoFields
  BY <1>1, <1>16, SemanticNoFieldsCore DEF StepEffect
<1>17. CASE SemanticDefer
  BY <1>1, <1>17, SemanticDeferCore DEF StepEffect
<1>18. CASE SemanticDone
  BY <1>1, <1>18, SemanticDoneCore DEF StepEffect
<1>19. CASE InnerStep
  BY <1>1, <1>19, InnerCore DEF StepEffect
<1>20. CASE LastTry
  <2>1. DataInv' /\ StackInv' /\ LastTryEffect
    BY <1>20, LastTryCore
  <2>2. NoBlame'
    BY <1>1, <2>1, BlameKept DEF LastTryEffect, Kept, AggSame, VarSame
  <2> QED BY <2>1, <2>2 DEF StepEffect
<1>21. CASE ReportUnresolved
  <2>1. DataInv' /\ StackInv' /\ ReportUnresolvedEffect /\ errors \in Nat
    BY <1>21, ReportUnresolvedCore DEF DataInv
  <2>2. errors' = 0 => errors = 0
    BY <2>1 DEF ReportUnresolvedEffect
  <2>3. NoBlame'
    BY <1>1, <2>1, <2>2, BlameKept DEF ReportUnresolvedEffect, Kept, AggSame, VarSame
  <2> QED BY <2>1, <2>3 DEF StepEffect
<1> QED BY <1>3, <1>4, <1>5, <1>6, <1>7, <1>8, <1>9, <1>10, <1>11, <1>12, <1>13, <1>14, <1>15,
           <1>16, <1>17, <1>18, <1>19, <1>20, <1>21 DEF Step, InnerStep

\* An aggregate that goes on with its analysis does not go back.
LEMMA RunGrows ==
    ASSUME NEW a \in Agg, NEW r, runOf' = [runOf EXCEPT ![a] = r],
           r \in {"semantic", "done", runOf[a]}, runOf[a] = "done" => r = "done"
    PROVE  \A b \in Agg : /\ runOf[b] = "done" => runOf'[b] = "done"
                          /\ runOf[b] # "init" => runOf'[b] # "init"
<1>1. \A b \in Agg : runOf'[b] = IF b = a THEN r ELSE runOf[b]
  BY DEF runOf
<1> QED BY <1>1

LEMMA StepGrows ==
    ASSUME DataInv, DataInv', StackInv, NoBlame, StepEffect
    PROVE  Grows
<1>1. errors \in Nat /\ errors' \in Nat /\ (errors <= errors' => (errors' = 0 => errors = 0))
  BY DEF DataInv
<1>2. ASSUME Quiet, started \subseteq started' PROVE Grows
  BY <1>2 DEF Quiet, Kept, AggSame, VarSame, Grows
<1>3. CASE ModuleMemberEffect
  BY <1>2, <1>3 DEF ModuleMemberEffect
<1>4. CASE ModuleMemberDoneEffect
  BY <1>2, <1>4 DEF ModuleMemberDoneEffect
<1>5. CASE RunDeferredAtOnceEffect
  BY <1>2, <1>5 DEF RunDeferredAtOnceEffect
<1>6. CASE RunDeferredEnterEffect
  BY <1>2, <1>6 DEF RunDeferredEnterEffect
<1>7. CASE RunDeferredSymbolEffect
  BY <1>2, <1>7 DEF RunDeferredSymbolEffect
<1>8. CASE RunDeferredRoundDoneEffect
  BY <1>2, <1>8 DEF RunDeferredRoundDoneEffect
<1>9. ASSUME NEW p, NEW c, At(p, c), p = "semantic" PROVE Top.of \in Agg
  BY <1>9, TopAgg DEF At
<1>10. CASE SemanticAtOnceEffect /\ VarSame /\ Others
  <2>1. Top.of \in Agg /\ UNCHANGED <<errors, started, program, doneOf>>
    BY <1>9, <1>10 DEF SemanticAtOnceEffect, VarSame, Others
  <2>2. \A b \in Agg : terrorOf[b] => terrorOf'[b]
    BY <1>10, EnteredNoBlame
  <2>3. \A b \in Agg : (runOf[b] = "done" => runOf'[b] = "done") /\ (runOf[b] # "init" => runOf'[b] # "init")
    <3>1. CASE runOf' = runOf
      BY <3>1
    <3>2. CASE runOf' = [runOf EXCEPT ![Top.of] = IF Top.of \in Class THEN "done" ELSE runOf[Top.of]]
      <4> DEFINE r == IF Top.of \in Class THEN "done" ELSE runOf[Top.of]
      <4>1. r \in {"semantic", "done", runOf[Top.of]} /\ (runOf[Top.of] = "done" => r = "done")
        OBVIOUS
      <4> HIDE DEF r
      <4> QED BY <2>1, <3>2, <4>1, RunGrows DEF r
    <3> QED BY <1>10, <3>1, <3>2 DEF SemanticAtOnceEffect
  <2> QED BY <2>1, <2>2, <2>3 DEF Grows
<1>11. CASE SemanticEnterEffect /\ VarSame /\ Others
  <2>1. Top.of \in Agg /\ UNCHANGED <<errors, started, program, doneOf>>
    BY <1>9, <1>11 DEF SemanticEnterEffect, VarSame, Others
  <2>2. \A b \in Agg : terrorOf[b] => terrorOf'[b]
    BY <1>11, EnteredNoBlame
  <2>3. \A b \in Agg : (runOf[b] = "done" => runOf'[b] = "done") /\ (runOf[b] # "init" => runOf'[b] # "init")
    BY <1>11, <2>1, RunGrows DEF SemanticEnterEffect
  <2> QED BY <2>1, <2>2, <2>3 DEF Grows
<1>12. CASE ClassBaseEffect
  BY <1>1, <1>12 DEF ClassBaseEffect, Others, Grows
<1>13. CASE ClassBasedEffect
  BY <1>1, <1>13 DEF ClassBasedEffect, Others, Grows
<1>14. CASE ClassAncestorsEffect
  BY <1>1, <1>14 DEF ClassAncestorsEffect, Others, Grows
<1>15. CASE SemanticMemberEffect
  <2>1. started \subseteq started'
    BY <1>15 DEF SemanticMemberEffect
  <2> QED BY <1>15, <2>1 DEF SemanticMemberEffect, Kept, AggSame, VarSame, Grows
<1>16. CASE SemanticMembersDoneEffect
  BY <1>1, <1>16 DEF SemanticMembersDoneEffect, Others, RunSame, Grows
<1>17. CASE SemanticNoFieldsEffect
  <2>1. /\ Top.of \in Agg /\ UNCHANGED <<started, program, doneOf>> /\ errors <= errors'
        /\ \A b \in Agg : terrorOf[b] => terrorOf'[b]
    BY <1>9, <1>17 DEF SemanticNoFieldsEffect, Others
  <2> DEFINE r == IF Top.of \in Struct THEN "done" ELSE runOf[Top.of]
  <2>2. r \in {"semantic", "done", runOf[Top.of]} /\ (runOf[Top.of] = "done" => r = "done")
    OBVIOUS
  <2>3. runOf' = [runOf EXCEPT ![Top.of] = r]
    BY <1>17 DEF SemanticNoFieldsEffect
  <2> HIDE DEF r
  <2>4. \A b \in Agg : (runOf[b] = "done" => runOf'[b] = "done") /\ (runOf[b] # "init" => runOf'[b] # "init")
    BY <2>1, <2>2, <2>3, RunGrows
  <2> QED BY <1>1, <2>1, <2>4 DEF Grows
<1>18. CASE SemanticDeferEffect
  BY <1>1, <1>18 DEF SemanticDeferEffect, Others, Grows
<1>19. CASE SemanticDoneEffect
  <2>1. /\ Top.of \in Agg /\ UNCHANGED <<started, program, doneOf, errors>>
        /\ \A b \in Agg : terrorOf[b] => terrorOf'[b]
    BY <1>9, <1>19 DEF SemanticDoneEffect, Others
  <2>2. \A b \in Agg : (runOf[b] = "done" => runOf'[b] = "done") /\ (runOf[b] # "init" => runOf'[b] # "init")
    BY <1>19, <2>1, RunGrows DEF SemanticDoneEffect
  <2> QED BY <2>1, <2>2 DEF Grows
<1>20. CASE InnerEffect
  BY <1>1, <1>20 DEF InnerEffect, RunSame, Grows
<1>21. CASE LastTryEffect
  BY <1>21 DEF LastTryEffect, Kept, AggSame, VarSame, Grows
<1>22. CASE ReportUnresolvedEffect
  BY <1>1, <1>22 DEF ReportUnresolvedEffect, Kept, AggSame, VarSame, Grows
<1> QED BY <1>3, <1>4, <1>5, <1>6, <1>7, <1>8, <1>10, <1>11, <1>12, <1>13, <1>14, <1>15, <1>16,
           <1>17, <1>18, <1>19, <1>20, <1>21, <1>22 DEF StepEffect

-----------------------------------------------------------------------------
(***************************************************************************)
(* What every level of the stack keeps.                                    *)
(***************************************************************************)

\* A call that goes on keeps the count of errors it began with, or notes it.
Shape ==
    \/ stack # <<>> /\ Popped
    \/ stack # <<>> /\ \E f : WentOn(f) /\ f.proc = Top.proc /\ f.errors \in {Top.errors, errors}
    \/ stack # <<>> /\ \E f, g : /\ Called(f, g) /\ f.proc = Top.proc /\ f.errors = Top.errors
                                 /\ g.pc = "enter" /\ g.errors = 0
    \/ stack = <<>> /\ Depth' = 1 /\ levels'[1].proc = "runDeferred" /\ levels'[1].pc = "enter"
       /\ levels'[1].errors = 0
    \/ stack = <<>> /\ stack' = <<>> /\ Depth' = 0

LEMMA StepShape ==
    ASSUME StepEffect
    PROVE  Shape
<1>1. CASE ModuleMemberEffect
  BY <1>1 DEF ModuleMemberEffect, Reached, At, Shape
<1>2. CASE ModuleMemberDoneEffect
  BY <1>2 DEF ModuleMemberDoneEffect, Reached, At, Shape
<1>3. CASE RunDeferredAtOnceEffect
  BY <1>3 DEF RunDeferredAtOnceEffect, At, Shape
<1>4. CASE RunDeferredEnterEffect
  BY <1>4 DEF RunDeferredEnterEffect, RoundBegun, Retries, At, Shape
<1>5. CASE RunDeferredSymbolEffect
  BY <1>5 DEF RunDeferredSymbolEffect, Retries, At, Shape
<1>6. CASE RunDeferredRoundDoneEffect
  BY <1>6 DEF RunDeferredRoundDoneEffect, RoundBegun, Retries, At, Shape
<1>7. CASE SemanticAtOnceEffect
  BY <1>7 DEF SemanticAtOnceEffect, At, Shape
<1>8. CASE SemanticEnterEffect
  <2>1. WentOn(levels'[Depth]) /\ levels'[Depth].proc = Top.proc /\ levels'[Depth].errors = errors
    BY <1>8 DEF SemanticEnterEffect, At
  <2> QED BY <1>8, <2>1 DEF SemanticEnterEffect, At, Shape
<1>9. CASE ClassBaseEffect
  BY <1>9 DEF ClassBaseEffect, Now, At, Shape
<1>10. CASE ClassBasedEffect
  BY <1>10 DEF ClassBasedEffect, Now, At, Shape
<1>11. CASE ClassAncestorsEffect
  BY <1>11 DEF ClassAncestorsEffect, Now, At, Shape
<1>12. CASE SemanticMemberEffect
  BY <1>12 DEF SemanticMemberEffect, Now, At, Shape
<1>13. CASE SemanticMembersDoneEffect
  BY <1>13 DEF SemanticMembersDoneEffect, Now, At, Shape
<1>14. CASE SemanticNoFieldsEffect
  BY <1>14 DEF SemanticNoFieldsEffect, At, Shape
<1>15. CASE SemanticDeferEffect
  BY <1>15 DEF SemanticDeferEffect, At, Shape
<1>16. CASE SemanticDoneEffect
  BY <1>16 DEF SemanticDoneEffect, At, Shape
<1>17. CASE InnerEffect
  BY <1>17 DEF InnerEffect, InnerMove, Shape
<1>18. CASE LastTryEffect
  BY <1>18 DEF LastTryEffect, Shape
<1>19. CASE ReportUnresolvedEffect
  BY <1>19 DEF ReportUnresolvedEffect, Shape
<1> QED BY <1>1, <1>2, <1>3, <1>4, <1>5, <1>6, <1>7, <1>8, <1>9, <1>10, <1>11, <1>12, <1>13, <1>14,
           <1>15, <1>16, <1>17, <1>18, <1>19 DEF StepEffect

\* Where each level of the next state comes from.
LEMMA NextLevels ==
    ASSUME StackInv, stack # <<>>
    PROVE  /\ Depth \in Nat \ {0}
           /\ Popped => \A k \in 1..Depth' : k \in 1..Depth - 1 /\ k \in 1..Depth /\ levels'[k] = levels[k]
           /\ \A f : WentOn(f) =>
                \A k \in 1..Depth' : \/ k \in 1..Depth - 1 /\ k \in 1..Depth /\ levels'[k] = levels[k]
                                     \/ k = Depth /\ levels'[k] = f
           /\ \A f, g : Called(f, g) =>
                \A k \in 1..Depth' : \/ k \in 1..Depth - 1 /\ k \in 1..Depth /\ levels'[k] = levels[k]
                                     \/ k = Depth /\ levels'[k] = f
                                     \/ k = Depth + 1 /\ levels'[k] = g
<1>1. Depth \in Nat \ {0}
  BY TopFacts
<1>2. ASSUME Popped, NEW k \in 1..Depth'
      PROVE  k \in 1..Depth - 1 /\ k \in 1..Depth /\ levels'[k] = levels[k]
  BY <1>1, <1>2 DEF Popped
<1>3. ASSUME NEW f, WentOn(f), NEW k \in 1..Depth'
      PROVE  \/ k \in 1..Depth - 1 /\ k \in 1..Depth /\ levels'[k] = levels[k]
             \/ k = Depth /\ levels'[k] = f
  BY <1>1, <1>3 DEF WentOn
<1>4. ASSUME NEW f, NEW g, Called(f, g), NEW k \in 1..Depth'
      PROVE  \/ k \in 1..Depth - 1 /\ k \in 1..Depth /\ levels'[k] = levels[k]
             \/ k = Depth /\ levels'[k] = f
             \/ k = Depth + 1 /\ levels'[k] = g
  BY <1>1, <1>4 DEF Called
<1> QED BY <1>1, <1>2, <1>3, <1>4

LEMMA StepErr ==
    ASSUME DataInv, StackInv, ErrInv, Shape, Grows
    PROVE  ErrInv'
<1> SUFFICES ASSUME errors' = 0, NEW k \in 1..Depth' PROVE levels'[k].errors = 0
  BY DEF ErrInv
<1>1. errors = 0 /\ \A j \in 1..Depth : levels[j].errors = 0
  BY DEF Grows, ErrInv
<1>2. CASE stack = <<>>
  <2>1. (Depth' = 1 /\ levels'[1].errors = 0) \/ Depth' = 0
    BY <1>2 DEF Shape
  <2>2. k = 1 /\ Depth' # 0
    BY <2>1
  <2> QED BY <2>1, <2>2
<1>3. CASE stack # <<>>
  <2>1. Depth \in 1..Depth /\ Top = levels[Depth]
    BY <1>3, TopFacts
  <2>2. Top.errors = 0
    BY <1>1, <2>1
  <2>3. CASE Popped
    BY <1>1, <1>3, <2>3, NextLevels
  <2>4. CASE \E f : WentOn(f) /\ f.errors \in {Top.errors, errors}
    BY <1>1, <1>3, <2>2, <2>4, NextLevels
  <2>5. CASE \E f, g : Called(f, g) /\ f.errors = Top.errors /\ g.errors = 0
    BY <1>1, <1>3, <2>2, <2>5, NextLevels
  <2> QED BY <1>3, <2>3, <2>4, <2>5 DEF Shape
<1> QED BY <1>2, <1>3

\* The members that the analysis f is past are done, but for the one it waits for.
Passed(f, busy, p, done) ==
    /\ f.pc = "members" =>
         \A j \in DOMAIN p.members[f.of] :
            j < f.i /\ p.members[f.of][j].kind # Import => j \in done[f.of] \/ (busy /\ f.i = j + 1)
    /\ f.pc = "fields" =>
         \A j \in DOMAIN p.members[f.of] : p.members[f.of][j].kind # Import => j \in done[f.of]

MembersInv ==
    \A k \in 1..Depth : levels[k].proc = "semantic" =>
        Passed(levels[k], k < Depth /\ levels[k + 1].proc = "variable", program, doneOf)

LEMMA PassedGrows ==
    ASSUME NEW f, f.of \in Agg, NEW b, NEW c, b => c, Passed(f, b, program, doneOf), Grows
    PROVE  Passed(f, c, program', doneOf')
<1>1. program' = program /\ doneOf[f.of] \subseteq doneOf'[f.of]
  BY DEF Grows
<1> QED BY <1>1 DEF Passed

\* The levels below the top.
Below ==
    \A k \in 1..Depth - 1 : levels[k].proc = "semantic" =>
        Passed(levels[k], k < Depth' /\ levels'[k + 1].proc = "variable", program', doneOf')

LEMMA BelowPassed ==
    ASSUME DataInv, StackInv, MembersInv, Grows, stack # <<>>,
           \/ Popped /\ (Top.proc = "variable" => Top.i \in doneOf'[Top.of] \/ ~Top.sc)
           \/ \E f : WentOn(f) /\ f.proc = Top.proc
           \/ \E f, g : Called(f, g) /\ f.proc = Top.proc
    PROVE  Below
<1> SUFFICES ASSUME NEW k \in 1..Depth - 1, levels[k].proc = "semantic"
             PROVE  Passed(levels[k], k < Depth' /\ levels'[k + 1].proc = "variable", program', doneOf')
  BY DEF Below
<1> DEFINE f == levels[k]
<1>1. Depth \in Nat \ {0} /\ Top = levels[Depth] /\ Top \in FrameSet
  BY TopFacts
<1>2. k \in 1..Depth /\ k < Depth /\ FrameOK(f, program) /\ Waits(f, levels[k + 1], program)
  BY <1>1 DEF StackInv
<1>3. f.of \in Agg /\ Passed(f, levels[k + 1].proc = "variable", program, doneOf)
  BY <1>2 DEF FrameOK, MembersInv
<1>4. CASE k + 1 \in 1..Depth - 1
  <2>1. k < Depth' /\ levels'[k + 1] = levels[k + 1]
    BY <1>1, <1>4 DEF Popped, WentOn, Called
  <2> HIDE DEF f
  <2> QED BY <1>3, <2>1, PassedGrows DEF f
<1>5. CASE k + 1 = Depth
  <2>1. CASE (\E h : WentOn(h) /\ h.proc = Top.proc) \/ (\E h, g : Called(h, g) /\ h.proc = Top.proc)
    <3>1. k < Depth' /\ levels'[k + 1].proc = levels[k + 1].proc
      BY <1>1, <1>5, <2>1 DEF WentOn, Called
    <3> HIDE DEF f
    <3> QED BY <1>3, <3>1, PassedGrows DEF f
  <2>2. CASE Popped /\ (Top.proc = "variable" => Top.i \in doneOf'[Top.of] \/ ~Top.sc)
    <3>1. CASE Top.proc # "variable"
      <4> HIDE DEF f
      <4> QED BY <1>1, <1>3, <1>5, <3>1, PassedGrows DEF f
    <3>2. CASE Top.proc = "variable"
      <4>1. Waits(f, Top, program)
        BY <1>1, <1>2, <1>5
      <4>2. \/ f.of = Top.of /\ f.i = Top.i + 1 /\ Top.sc
            \/ f.pc # "members" /\ f.pc # "fields"
        BY <3>2, <4>1 DEF Waits
      <4>3. CASE f.pc # "members" /\ f.pc # "fields"
        BY <4>3 DEF Passed
      <4>4. CASE f.of = Top.of /\ f.i = Top.i + 1 /\ Top.sc
        <5>1. Top.i \in doneOf'[Top.of] /\ Top.i \in Nat
          BY <1>1, <2>2, <3>2, <4>4 DEF FrameSet
        <5>2. Passed(f, TRUE, program', doneOf')
          <6>1. f.of \in Agg /\ Passed(f, TRUE, program, doneOf)
            BY <1>1, <1>3, <1>5, <3>2
          <6> HIDE DEF f
          <6> QED BY <6>1, PassedGrows
        <5>3. \A j \in DOMAIN program'.members[f.of] : f.i = j + 1 => j \in doneOf'[f.of]
          <6>1. program' = program /\ program'.members[f.of] = Members(f.of)
            BY DEF Grows, Members
          <6>2. DOMAIN Members(f.of) \subseteq Nat
            BY <1>3, ProgramFacts DEF DataInv
          <6> QED BY <4>4, <5>1, <6>1, <6>2
        <5> HIDE DEF f
        <5>4. Passed(f, FALSE, program', doneOf')
          BY <5>2, <5>3 DEF Passed
        <5> QED BY <5>4 DEF Passed, f
      <4> QED BY <4>2, <4>3, <4>4
    <3> QED BY <3>1, <3>2
  <2> QED BY <2>1, <2>2
<1> QED BY <1>1, <1>4, <1>5

LEMMA MembersNow ==
    ASSUME StackInv, stack # <<>>, Below,
           \/ Popped
           \/ \E f : WentOn(f) /\ (f.proc = "semantic" => Passed(f, FALSE, program', doneOf'))
           \/ \E f, g : /\ Called(f, g) /\ g.pc = "enter"
                        /\ f.proc = "semantic" => Passed(f, g.proc = "variable", program', doneOf')
    PROVE  MembersInv'
<1> SUFFICES ASSUME NEW k \in 1..Depth', levels'[k].proc = "semantic"
             PROVE  Passed(levels'[k], k < Depth' /\ levels'[k + 1].proc = "variable", program', doneOf')
  BY DEF MembersInv
<1>1. Depth \in Nat \ {0}
  BY TopFacts
<1>2. CASE k \in 1..Depth - 1 /\ levels'[k] = levels[k]
  BY <1>2 DEF Below
<1>3. CASE \E f : WentOn(f) /\ k = Depth /\ Passed(f, FALSE, program', doneOf')
  <2>1. PICK f : WentOn(f) /\ k = Depth /\ Passed(f, FALSE, program', doneOf')
    BY <1>3
  <2>2. levels'[k] = f /\ ~(k < Depth')
    BY <1>1, <2>1 DEF WentOn
  <2> QED BY <2>1, <2>2
<1>4. CASE \E f, g : Called(f, g) /\ k = Depth /\ Passed(f, g.proc = "variable", program', doneOf')
  <2>1. PICK f, g : Called(f, g) /\ k = Depth /\ Passed(f, g.proc = "variable", program', doneOf')
    BY <1>4
  <2>2. levels'[k] = f /\ k < Depth' /\ levels'[k + 1] = g
    BY <1>1, <2>1 DEF Called
  <2> QED BY <2>1, <2>2
<1>5. CASE levels'[k].pc = "enter"
  BY <1>5 DEF Passed
<1>6. CASE Popped
  BY <1>2, <1>6, NextLevels
<1>7. CASE \E f : WentOn(f) /\ (f.proc = "semantic" => Passed(f, FALSE, program', doneOf'))
  BY <1>2, <1>3, <1>7, NextLevels
<1>8. CASE \E f, g : /\ Called(f, g) /\ g.pc = "enter"
                     /\ f.proc = "semantic" => Passed(f, g.proc = "variable", program', doneOf')
  BY <1>2, <1>4, <1>5, <1>8, NextLevels
<1> QED BY <1>6, <1>7, <1>8

LEMMA StepMembers ==
    ASSUME DataInv, StackInv, MembersInv, Grows, StepEffect
    PROVE  MembersInv'
<1>1. ASSUME stack = <<>> PROVE MembersInv'
  <2>1. (Depth' = 1 /\ levels'[1].proc = "runDeferred") \/ Depth' = 0
    BY <1>1, StepShape DEF Shape
  <2>2. \A k \in 1..Depth' : k = 1 /\ levels'[k].proc # "semantic"
    BY <2>1
  <2> QED BY <2>2 DEF MembersInv
<1>2. ASSUME stack # <<>>, Popped, Top.proc # "variable" PROVE MembersInv'
  BY <1>2, BelowPassed, MembersNow
<1>3. ASSUME stack # <<>>, NEW f, WentOn(f), f.proc = Top.proc,
             f.proc = "semantic" => Passed(f, FALSE, program', doneOf')
      PROVE  MembersInv'
  BY <1>3, BelowPassed, MembersNow
<1>4. ASSUME stack # <<>>, NEW f, NEW g, Called(f, g), f.proc = Top.proc, g.pc = "enter",
             f.proc = "semantic" => Passed(f, g.proc = "variable", program', doneOf')
      PROVE  MembersInv'
  BY <1>4, BelowPassed, MembersNow
<1>5. program' = program /\ \A a \in Agg : doneOf[a] \subseteq doneOf'[a]
  BY DEF Grows
<1>6. CASE ModuleMemberEffect
  BY <1>2, <1>3, <1>4, <1>6 DEF ModuleMemberEffect, Reached, At
<1>7. CASE ModuleMemberDoneEffect
  BY <1>4, <1>7 DEF ModuleMemberDoneEffect, Reached, At
<1>8. CASE RunDeferredAtOnceEffect
  BY <1>2, <1>8 DEF RunDeferredAtOnceEffect, At
<1>9. CASE RunDeferredEnterEffect
  BY <1>2, <1>3, <1>9 DEF RunDeferredEnterEffect, RoundBegun, Retries, At
<1>10. CASE RunDeferredSymbolEffect
  BY <1>4, <1>10 DEF RunDeferredSymbolEffect, Retries, At
<1>11. CASE RunDeferredRoundDoneEffect
  BY <1>2, <1>3, <1>11 DEF RunDeferredRoundDoneEffect, RoundBegun, Retries, At
<1>12. CASE SemanticAtOnceEffect
  BY <1>2, <1>12 DEF SemanticAtOnceEffect, At
<1>13. ASSUME NEW f, f.pc \notin {"members", "fields"} PROVE Passed(f, FALSE, program', doneOf')
  BY <1>13 DEF Passed
<1>14. ASSUME NEW f, f.pc = "members", f.i = 1, f.of \in Agg PROVE Passed(f, FALSE, program', doneOf')
  <2>1. DOMAIN program'.members[f.of] \subseteq Nat \ {0}
    BY <1>5, <1>14, ProgramFacts DEF DataInv, Members
  <2>2. \A j \in DOMAIN program'.members[f.of] : ~(j < f.i)
    BY <1>14, <2>1
  <2> QED BY <1>14, <2>2 DEF Passed
<1>15. ASSUME NEW c, At("semantic", c) PROVE stack # <<>> /\ Top.proc = "semantic" /\ Top.of \in Agg
  BY <1>15, TopAgg DEF At
<1>16. CASE SemanticEnterEffect
  <2> DEFINE f == levels'[Depth]
  <2>1. /\ WentOn(f) /\ f.proc = "semantic" /\ f.of = Top.of /\ f.i = 1
        /\ f.pc \in {"members", "base", "ancestors"}
    BY <1>16 DEF SemanticEnterEffect
  <2>2. stack # <<>> /\ Top.proc = "semantic" /\ Top.of \in Agg
    BY <1>15, <1>16 DEF SemanticEnterEffect
  <2> HIDE DEF f
  <2>3. Passed(f, FALSE, program', doneOf')
    BY <1>13, <1>14, <2>1, <2>2
  <2> QED BY <1>3, <2>1, <2>2, <2>3
<1>17. CASE ClassBaseEffect
  <2>1. stack # <<>> /\ Top.proc = "semantic"
    BY <1>15, <1>17 DEF ClassBaseEffect
  <2>2. \/ \E f : WentOn(f) /\ Now(f, "ancestors")
        \/ \E f, g : Called(f, g) /\ Now(f, "based") /\ g.proc = "semantic" /\ g.pc = "enter"
    BY <1>17 DEF ClassBaseEffect
  <2>3. CASE \E f : WentOn(f) /\ Now(f, "ancestors")
    BY <1>3, <1>13, <2>1, <2>3 DEF Now
  <2>4. CASE \E f, g : Called(f, g) /\ Now(f, "based") /\ g.proc = "semantic" /\ g.pc = "enter"
    BY <1>4, <1>13, <2>1, <2>4 DEF Now
  <2> QED BY <2>2, <2>3, <2>4
<1>18. CASE ClassBasedEffect
  <2>1. stack # <<>> /\ Top.proc = "semantic"
    BY <1>15, <1>18 DEF ClassBasedEffect
  <2> QED BY <1>2, <1>3, <1>13, <1>18, <2>1 DEF ClassBasedEffect, Now
<1>19. CASE ClassAncestorsEffect
  <2>1. stack # <<>> /\ Top.proc = "semantic" /\ Top.of \in Agg
    BY <1>15, <1>19 DEF ClassAncestorsEffect
  <2>2. Popped \/ \E f : WentOn(f) /\ Now(f, "members") /\ f.i = 1
    BY <1>19 DEF ClassAncestorsEffect
  <2>3. CASE \E f : WentOn(f) /\ Now(f, "members") /\ f.i = 1
    BY <1>3, <1>14, <2>1, <2>3 DEF Now
  <2> QED BY <1>2, <2>1, <2>2, <2>3
<1>20. CASE SemanticMemberEffect
  <2>1. stack # <<>> /\ Top.proc = "semantic" /\ Top.of \in Agg
    BY <1>15, <1>20 DEF SemanticMemberEffect
  <2>2. Depth \in 1..Depth /\ Top = levels[Depth] /\ Top.pc = "members" /\ Depth \in Nat
    BY <1>20, <2>1, TopFacts DEF SemanticMemberEffect, At
  <2>3. Passed(Top, FALSE, program, doneOf)
    <3>1. ~(Depth < Depth)
      BY <2>2
    <3> QED BY <2>1, <2>2, <3>1 DEF MembersInv
  <2>4. Top.i \in DOMAIN Members(Top.of) /\ DOMAIN Members(Top.of) \subseteq Nat
    BY <1>20, <2>1, ProgramFacts DEF SemanticMemberEffect, DataInv
  <2>5. \A f : Now(f, "members") /\ f.i = Top.i + 1
               => /\ Passed(f, TRUE, program', doneOf')
                  /\ ~IsVar(Top.of, Top.i) => Passed(f, FALSE, program', doneOf')
    <3> SUFFICES ASSUME NEW f, Now(f, "members"), f.i = Top.i + 1, NEW busy \in BOOLEAN,
                        busy \/ ~IsVar(Top.of, Top.i)
                 PROVE  Passed(f, busy, program', doneOf')
      OBVIOUS
    <3>1. f.of = Top.of /\ f.pc = "members" /\ f.pc # "fields"
      BY DEF Now
    <3>2. program'.members[f.of] = Members(Top.of) /\ program.members[f.of] = Members(Top.of)
      BY <1>5, <3>1 DEF Members
    <3>3. ASSUME NEW j \in DOMAIN Members(Top.of), j < f.i, Members(Top.of)[j].kind # Import
          PROVE  j \in doneOf'[Top.of] \/ (busy /\ f.i = j + 1)
      <4>1. j < Top.i \/ j = Top.i
        BY <2>4, <3>3
      <4>2. CASE j < Top.i
        <5>1. j \in doneOf[Top.of]
          BY <2>2, <2>3, <3>1, <3>2, <3>3, <4>2 DEF Passed
        <5> QED BY <1>5, <2>1, <5>1
      <4>3. CASE j = Top.i
        BY <3>3, <4>3 DEF IsVar
      <4> QED BY <4>1, <4>2, <4>3
    <3> QED BY <3>1, <3>2, <3>3 DEF Passed
  <2>6. \E f : /\ Now(f, "members") /\ f.i = Top.i + 1
               /\ \/ \E g : Called(f, g) /\ g.proc = "variable" /\ g.pc = "enter"
                  \/ ~IsVar(Top.of, Top.i) /\ WentOn(f)
                  \/ ~IsVar(Top.of, Top.i) /\ \E g : Called(f, g) /\ g.proc = "module" /\ g.pc = "enter"
    BY <1>20 DEF SemanticMemberEffect
  <2>7. PICK f : /\ Now(f, "members") /\ f.i = Top.i + 1
                 /\ \/ \E g : Called(f, g) /\ g.proc = "variable" /\ g.pc = "enter"
                    \/ ~IsVar(Top.of, Top.i) /\ WentOn(f)
                    \/ ~IsVar(Top.of, Top.i) /\ \E g : Called(f, g) /\ g.proc = "module" /\ g.pc = "enter"
    BY <2>6
  <2>8. /\ Passed(f, TRUE, program', doneOf') /\ f.proc = Top.proc
        /\ ~IsVar(Top.of, Top.i) => Passed(f, FALSE, program', doneOf')
    BY <2>1, <2>5, <2>7 DEF Now
  <2>9. CASE \E g : Called(f, g) /\ g.proc = "variable" /\ g.pc = "enter"
    BY <1>4, <2>1, <2>8, <2>9
  <2>10. CASE ~IsVar(Top.of, Top.i) /\ WentOn(f)
    BY <1>3, <2>1, <2>8, <2>10
  <2>11. CASE ~IsVar(Top.of, Top.i) /\ \E g : Called(f, g) /\ g.proc = "module" /\ g.pc = "enter"
    <3>1. PICK g : Called(f, g) /\ g.proc = "module" /\ g.pc = "enter"
      BY <2>11
    <3>2. Passed(f, g.proc = "variable", program', doneOf')
      BY <2>8, <2>11, <3>1
    <3> QED BY <1>4, <2>1, <2>8, <3>1, <3>2
  <2> QED BY <2>7, <2>9, <2>10, <2>11
<1>21. CASE SemanticMembersDoneEffect
  <2>1. stack # <<>> /\ Top.proc = "semantic" /\ Top.of \in Agg
    BY <1>15, <1>21 DEF SemanticMembersDoneEffect
  <2>2. Depth \in 1..Depth /\ Top = levels[Depth] /\ Top.pc = "members" /\ Depth \in Nat /\ Top.i \in Nat
    BY <1>21, <2>1, TopFacts DEF SemanticMembersDoneEffect, At, FrameSet
  <2>3. Passed(Top, FALSE, program, doneOf)
    <3>1. ~(Depth < Depth)
      BY <2>2
    <3> QED BY <2>1, <2>2, <3>1 DEF MembersInv
  <2>4. DOMAIN Members(Top.of) = 1..Len(Members(Top.of)) /\ Len(Members(Top.of)) \in Nat
    BY <2>1, ProgramFacts DEF DataInv
  <2>5. \A j \in DOMAIN Members(Top.of) : j < Top.i
    BY <1>21, <2>2, <2>4 DEF SemanticMembersDoneEffect
  <2>6. \A j \in DOMAIN Members(Top.of) : Members(Top.of)[j].kind # Import => j \in doneOf[Top.of]
    BY <2>2, <2>3, <2>5 DEF Passed, Members
  <2>7. \A f, b : Now(f, "fields") => Passed(f, b, program', doneOf')
    <3> SUFFICES ASSUME NEW f, NEW b, Now(f, "fields") PROVE Passed(f, b, program', doneOf')
      OBVIOUS
    <3>1. f.of = Top.of /\ f.pc = "fields" /\ program'.members[f.of] = Members(Top.of)
      BY <1>5 DEF Now, Members
    <3>2. doneOf[Top.of] \subseteq doneOf'[Top.of]
      BY <1>5, <2>1
    <3> QED BY <2>6, <3>1, <3>2 DEF Passed
  <2>8. \E f, g : Called(f, g) /\ Now(f, "fields") /\ g.pc = "enter"
    BY <1>21 DEF SemanticMembersDoneEffect
  <2>9. PICK f, g : Called(f, g) /\ Now(f, "fields") /\ g.pc = "enter"
    BY <2>8
  <2>10. Passed(f, g.proc = "variable", program', doneOf') /\ f.proc = Top.proc
    BY <2>1, <2>7, <2>9 DEF Now
  <2> QED BY <1>4, <2>1, <2>9, <2>10
<1>22. CASE SemanticNoFieldsEffect
  BY <1>2, <1>22 DEF SemanticNoFieldsEffect, At
<1>23. CASE SemanticDeferEffect
  BY <1>2, <1>23 DEF SemanticDeferEffect, At
<1>24. CASE SemanticDoneEffect
  BY <1>2, <1>24 DEF SemanticDoneEffect, At
<1>25. CASE InnerEffect
  <2>1. stack # <<>> /\ Top.proc \in InnerProcs /\ Top.proc # "semantic"
    BY <1>25 DEF InnerEffect, InnerProcs
  <2>2. \/ Popped /\ Answered
        \/ \E f : WentOn(f) /\ f.proc = Top.proc
        \/ \E f, g : Called(f, g) /\ f.proc = Top.proc /\ g.pc = "enter"
    BY <1>25 DEF InnerEffect, InnerMove
  <2>3. CASE Popped /\ Answered
    <3>1. Below
      BY <2>1, <2>3, BelowPassed DEF Answered
    <3> QED BY <2>1, <2>3, <3>1, MembersNow
  <2>4. CASE \E f : WentOn(f) /\ f.proc = Top.proc
    BY <1>3, <2>1, <2>4
  <2>5. CASE \E f, g : Called(f, g) /\ f.proc = Top.proc /\ g.pc = "enter"
    BY <1>4, <2>1, <2>5
  <2> QED BY <2>2, <2>3, <2>4, <2>5
<1>26. CASE LastTryEffect \/ ReportUnresolvedEffect
  BY <1>1, <1>26 DEF LastTryEffect, ReportUnresolvedEffect
<1> QED BY <1>6, <1>7, <1>8, <1>9, <1>10, <1>11, <1>12, <1>16, <1>17, <1>18, <1>19, <1>20, <1>21,
           <1>22, <1>23, <1>24, <1>25, <1>26 DEF StepEffect

\* A call that goes on, or has just been made, does not wait for an answer.
Unasking(f) ==
    /\ f.proc \in {"variable", "finalizeSize"} => f.pc # "sized"
    /\ f.proc = "semantic" => f.pc # "fields"

LEMMA RetNow ==
    ASSUME NEW f, Depth' > 0, levels'[Depth'] = f,
           \/ Unasking(f)
           \/ f.proc = "variable" /\ Members(f.of)'[f.i].of \notin Struct
    PROVE  RetInv'
  BY DEF RetInv, Unasking

LEMMA StepRet ==
    ASSUME DataInv, StackInv, MembersInv, Grows, StepEffect
    PROVE  RetInv'
<1>1. ASSUME stack = <<>> PROVE RetInv'
  <2>1. (Depth' = 1 /\ levels'[1].proc = "runDeferred") \/ Depth' = 0
    BY <1>1, StepShape DEF Shape
  <2> QED BY <2>1, RetNow DEF RetInv, Unasking
<1>2. ASSUME stack # <<>> PROVE Depth \in Nat \ {0} /\ Depth > 0 /\ Depth + 1 > 0
  BY <1>2, TopFacts
<1>3. ASSUME stack # <<>>, NEW f, WentOn(f),
             Unasking(f) \/ (f.proc = "variable" /\ Members(f.of)[f.i].of \in Class)
      PROVE  RetInv'
  <2>1. Depth' > 0 /\ levels'[Depth'] = f /\ Members(f.of)' = Members(f.of)
    BY <1>2, <1>3 DEF WentOn, Grows, Members
  <2>2. Unasking(f) \/ (f.proc = "variable" /\ Members(f.of)'[f.i].of \notin Struct)
    BY <1>3, <2>1, NamesAssumption
  <2> QED BY <2>1, <2>2, RetNow
<1>4. ASSUME stack # <<>>, NEW f, NEW g, Called(f, g), g.pc = "enter"
      PROVE  RetInv'
  <2>1. Depth' > 0 /\ levels'[Depth'] = g
    BY <1>2, <1>4 DEF Called
  <2>2. Unasking(g)
    BY <1>4 DEF Unasking
  <2> QED BY <2>1, <2>2, RetNow
<1>5. ASSUME stack # <<>>, Popped, Depth' > 0
      PROVE  /\ Depth' = Depth - 1 /\ levels'[Depth'] = levels[Depth - 1]
             /\ FrameOK(levels[Depth - 1], program) /\ Waits(levels[Depth - 1], Top, program)
             /\ Depth - 1 \in 1..Depth'
  <2>1. Depth \in Nat \ {0} /\ Depth' = Depth - 1 /\ Depth - 1 \in 1..Depth - 1 /\ Depth - 1 \in 1..Depth
    BY <1>2, <1>5 DEF Popped
  <2> QED BY <1>5, <2>1, TopFacts DEF Popped, StackInv
<1>6. ASSUME stack # <<>>, Popped, Top.proc \in {"module", "runDeferred", "semantic"}
      PROVE  RetInv'
  <2>1. CASE ~(Depth' > 0)
    BY <2>1 DEF RetInv
  <2>2. CASE Depth' > 0
    <3> DEFINE f == levels[Depth - 1]
    <3>1. levels'[Depth'] = f /\ Waits(f, Top, program)
      BY <1>5, <1>6, <2>2
    <3>2. Unasking(f)
      BY <1>6, <3>1 DEF Waits, Unasking
    <3> HIDE DEF f
    <3> QED BY <2>2, <3>1, <3>2, RetNow
  <2> QED BY <2>1, <2>2
<1>7. ASSUME stack # <<>>, Popped, Top.proc \in InnerProcs, Answered
      PROVE  RetInv'
  <2> SUFFICES ASSUME Depth' > 0 PROVE RetInv'
    BY DEF RetInv
  <2> DEFINE f == levels[Depth - 1]
  <2>1. /\ levels'[Depth'] = f /\ Waits(f, Top, program) /\ FrameOK(f, program)
        /\ Depth' \in 1..Depth' /\ Depth' \in Nat
    BY <1>2, <1>5, <1>7
  <2>2. program' = program
    BY DEF Grows
  <2>3. ASSUME f.proc \in {"variable", "finalizeSize"}, f.pc = "sized"
        PROVE  ret' \/ terrorOf'[program'.members[f.of][f.i].of]
    <3>1. Top.proc = "determineSize" /\ Top.of = program.members[f.of][f.i].of
      BY <1>7, <2>1, <2>3 DEF Waits, InnerProcs
    <3>2. program'.members[f.of][f.i].of = Top.of
      BY <2>2, <3>1
    <3>3. ret' \/ terrorOf'[Top.of]
      BY <1>7, <3>1 DEF Answered
    <3> HIDE DEF f
    <3> QED BY <3>2, <3>3
  <2>4. ASSUME f.proc = "semantic", f.pc = "fields"
        PROVE  ret' \/ (f.of \in Struct /\ terrorOf'[f.of])
    <3>1. Top.proc = "determineFields" /\ Top.of = f.of
      BY <1>7, <2>1, <2>4 DEF Waits, InnerProcs
    <3>2. \E b : Passed(f, b, program, doneOf)
      <4>1. Depth - 1 \in 1..Depth
        BY <1>2, <1>5, <1>7 DEF Popped
      <4> QED BY <2>4, <4>1 DEF MembersInv
    <3>3. AllDone(f.of)
      BY <2>4, <3>2 DEF Passed, Members, AllDone
    <3>4. \/ ret' \/ ~AllDone(Top.of)
          \/ Top.of \in Struct /\ terrorOf'[Top.of]
      BY <1>7, <3>1 DEF Answered
    <3> HIDE DEF f
    <3> QED BY <3>1, <3>3, <3>4
  <2> HIDE DEF f
  <2>5. levels[Depth]' = f /\ Depth' > 0
    BY <2>1
  <2> QED BY <2>3, <2>4, <2>5 DEF RetInv, Members
<1>8. CASE ModuleMemberEffect
  BY <1>3, <1>4, <1>6, <1>8 DEF ModuleMemberEffect, Reached, At, Unasking
<1>9. CASE ModuleMemberDoneEffect
  BY <1>4, <1>9 DEF ModuleMemberDoneEffect, At
<1>10. CASE RunDeferredAtOnceEffect
  BY <1>6, <1>10 DEF RunDeferredAtOnceEffect, At
<1>11. CASE RunDeferredEnterEffect
  BY <1>3, <1>6, <1>11 DEF RunDeferredEnterEffect, RoundBegun, Retries, At, Unasking
<1>12. CASE RunDeferredSymbolEffect
  BY <1>4, <1>12 DEF RunDeferredSymbolEffect, At
<1>13. CASE RunDeferredRoundDoneEffect
  BY <1>3, <1>6, <1>13 DEF RunDeferredRoundDoneEffect, RoundBegun, Retries, At, Unasking
<1>14. CASE SemanticAtOnceEffect
  BY <1>6, <1>14 DEF SemanticAtOnceEffect, At
<1>15. CASE SemanticEnterEffect
  <2> DEFINE f == levels'[Depth]
  <2>1. stack # <<>> /\ WentOn(f) /\ f.proc = "semantic" /\ f.pc \in {"members", "base", "ancestors"}
    BY <1>15 DEF SemanticEnterEffect, At
  <2>2. Unasking(f)
    BY <2>1 DEF Unasking
  <2> HIDE DEF f
  <2> QED BY <1>3, <2>1, <2>2
<1>16. CASE ClassBaseEffect
  BY <1>3, <1>4, <1>16 DEF ClassBaseEffect, Now, At, Unasking
<1>17. CASE ClassBasedEffect
  BY <1>3, <1>6, <1>17 DEF ClassBasedEffect, Now, At, Unasking
<1>18. CASE ClassAncestorsEffect
  BY <1>3, <1>6, <1>18 DEF ClassAncestorsEffect, Now, At, Unasking
<1>19. CASE SemanticMemberEffect
  BY <1>3, <1>4, <1>19 DEF SemanticMemberEffect, Now, At, Unasking
<1>20. CASE SemanticMembersDoneEffect
  BY <1>4, <1>20 DEF SemanticMembersDoneEffect, At
<1>21. CASE SemanticNoFieldsEffect
  BY <1>6, <1>21 DEF SemanticNoFieldsEffect, At
<1>22. CASE SemanticDeferEffect
  BY <1>6, <1>22 DEF SemanticDeferEffect, At
<1>23. CASE SemanticDoneEffect
  BY <1>6, <1>23 DEF SemanticDoneEffect, At
<1>24. CASE InnerEffect
  <2>1. stack # <<>> /\ Top.proc \in InnerProcs
    BY <1>24 DEF InnerEffect
  <2>2. \/ Popped /\ Answered
        \/ \E f : /\ WentOn(f) /\ f.proc = Top.proc
                  /\ f.proc = "variable" => Members(f.of)[f.i].of \in Class
                  /\ f.proc = "finalizeSize" => f.pc # "sized"
        \/ \E f, g : Called(f, g) /\ g.pc = "enter"
    BY <1>24 DEF InnerEffect, InnerMove
  <2>3. CASE \E f : /\ WentOn(f) /\ f.proc = Top.proc
                    /\ f.proc = "variable" => Members(f.of)[f.i].of \in Class
                    /\ f.proc = "finalizeSize" => f.pc # "sized"
    BY <1>3, <2>1, <2>3 DEF InnerProcs, Unasking
  <2> QED BY <1>4, <1>7, <2>1, <2>2, <2>3
<1>25. CASE LastTryEffect \/ ReportUnresolvedEffect
  BY <1>1, <1>25 DEF LastTryEffect, ReportUnresolvedEffect
<1> QED BY <1>8, <1>9, <1>10, <1>11, <1>12, <1>13, <1>14, <1>15, <1>16, <1>17, <1>18, <1>19, <1>20,
           <1>21, <1>22, <1>23, <1>24, <1>25 DEF StepEffect

-----------------------------------------------------------------------------
(***************************************************************************)
(* The steps of other calls than those of the visitors of aggregates.      *)
(***************************************************************************)
Aside ==
    /\ RunSame
    /\ \/ stack = <<>> /\ \A k \in 1..Depth' : k = 1 /\ levels'[k].proc = "runDeferred" /\ levels'[k].pc = "enter"
       \/ /\ stack # <<>> /\ Top.proc # "semantic"
          /\ \/ Popped
             \/ \E f : WentOn(f) /\ f.proc = Top.proc
             \/ \E f, g : Called(f, g) /\ f.proc = Top.proc /\ g.pc = "enter"

SemanticEffect ==
    \/ SemanticAtOnceEffect /\ VarSame /\ Others
    \/ SemanticEnterEffect /\ VarSame /\ Others
    \/ ClassBaseEffect \/ ClassBasedEffect \/ ClassAncestorsEffect
    \/ SemanticMemberEffect \/ SemanticMembersDoneEffect
    \/ SemanticNoFieldsEffect \/ SemanticDeferEffect \/ SemanticDoneEffect

LEMMA StepKinds ==
    ASSUME StepEffect
    PROVE  Aside \/ SemanticEffect
<1>1. CASE ModuleMemberEffect
  BY <1>1 DEF ModuleMemberEffect, Reached, At, Quiet, Kept, AggSame, RunSame, Aside
<1>2. CASE ModuleMemberDoneEffect
  BY <1>2 DEF ModuleMemberDoneEffect, Reached, At, Quiet, Kept, AggSame, RunSame, Aside
<1>3. CASE RunDeferredAtOnceEffect
  BY <1>3 DEF RunDeferredAtOnceEffect, At, Quiet, Kept, AggSame, RunSame, Aside
<1>4. CASE RunDeferredEnterEffect
  BY <1>4 DEF RunDeferredEnterEffect, RoundBegun, Retries, At, Quiet, Kept, AggSame, RunSame, Aside
<1>5. CASE RunDeferredSymbolEffect
  BY <1>5 DEF RunDeferredSymbolEffect, Retries, At, Quiet, Kept, AggSame, RunSame, Aside
<1>6. CASE RunDeferredRoundDoneEffect
  BY <1>6 DEF RunDeferredRoundDoneEffect, RoundBegun, Retries, At, Quiet, Kept, AggSame, RunSame, Aside
<1>7. CASE InnerEffect
  BY <1>7 DEF InnerEffect, InnerMove, InnerProcs, Aside
<1>8. CASE LastTryEffect
  <2>1. \A k \in 1..Depth' : k = 1
    BY <1>8 DEF LastTryEffect
  <2> QED BY <1>8, <2>1 DEF LastTryEffect, Kept, AggSame, RunSame, Aside
<1>9. CASE ReportUnresolvedEffect
  <2>1. \A k \in 1..Depth' : FALSE
    BY <1>9 DEF ReportUnresolvedEffect
  <2> QED BY <1>9, <2>1 DEF ReportUnresolvedEffect, Kept, AggSame, RunSame, Aside
<1> QED BY <1>1, <1>2, <1>3, <1>4, <1>5, <1>6, <1>7, <1>8, <1>9 DEF StepEffect, SemanticEffect

\* A step of the analysis of an aggregate.
LEMMA SemanticTop ==
    ASSUME StackInv, NEW pc, At("semantic", pc)
    PROVE  /\ stack # <<>> /\ Top.proc = "semantic" /\ Top.pc = pc /\ Top.of \in Agg
           /\ Depth \in Nat \ {0} /\ Depth \in 1..Depth /\ Top = levels[Depth] /\ Top \in FrameSet
  BY TopAgg, TopFacts DEF At

-----------------------------------------------------------------------------
(***************************************************************************)
(* An aggregate that is being analysed has begun.                          *)
(***************************************************************************)
ActiveInv ==
    \A k \in 1..Depth : levels[k].proc = "semantic" /\ levels[k].pc # "enter" => runOf[levels[k].of] # "init"

\* Every level with a call of an aggregate's visitor under way is one of before,
\* or has just been entered.
LEMMA ActiveLevels ==
    ASSUME StackInv, StepEffect, NEW k \in 1..Depth', levels'[k].proc = "semantic", levels'[k].pc # "enter"
    PROVE  \/ k \in 1..Depth /\ levels[k].proc = "semantic" /\ levels[k].pc # "enter" /\ levels[k].of = levels'[k].of
           \/ SemanticEnterEffect /\ levels'[k].of = Top.of
<1> DEFINE Old == k \in 1..Depth /\ levels[k].proc = "semantic" /\ levels[k].pc # "enter" /\ levels[k].of = levels'[k].of
<1>1. CASE Aside
  <2>1. stack # <<>> /\ Top.proc # "semantic"
    BY <1>1 DEF Aside
  <2>2. levels'[k] = levels[k] /\ k \in 1..Depth
    BY <1>1, <2>1, NextLevels DEF Aside
  <2> QED BY <2>2
<1>2. ASSUME NEW pc, At("semantic", pc), pc # "enter", Popped PROVE Old
  BY <1>2, SemanticTop, NextLevels
<1>3. ASSUME NEW pc, At("semantic", pc), pc # "enter",
             \/ \E f, c : Now(f, c) /\ WentOn(f)
             \/ \E f, c, g : Now(f, c) /\ Called(f, g) /\ g.pc = "enter"
      PROVE Old
  <2>1. /\ stack # <<>> /\ Depth \in 1..Depth /\ levels[Depth].proc = "semantic"
        /\ levels[Depth].of = Top.of /\ levels[Depth].pc # "enter"
    BY <1>3, SemanticTop
  <2> QED BY <1>3, <2>1, NextLevels DEF Now
<1>4. CASE SemanticAtOnceEffect
  <2>1. stack # <<>>
    BY <1>4 DEF SemanticAtOnceEffect, At
  <2> QED BY <1>4, <2>1, NextLevels DEF SemanticAtOnceEffect
<1>5. CASE SemanticEnterEffect
  <2>1. stack # <<>> /\ WentOn(levels'[Depth]) /\ levels'[Depth].of = Top.of
    BY <1>5 DEF SemanticEnterEffect, At
  <2> QED BY <1>5, <2>1, NextLevels
<1>6. CASE ClassBaseEffect
  BY <1>3, <1>6 DEF ClassBaseEffect
<1>7. CASE ClassBasedEffect
  BY <1>2, <1>3, <1>7 DEF ClassBasedEffect
<1>8. CASE ClassAncestorsEffect
  BY <1>2, <1>3, <1>8 DEF ClassAncestorsEffect
<1>9. CASE SemanticMemberEffect
  BY <1>3, <1>9 DEF SemanticMemberEffect
<1>10. CASE SemanticMembersDoneEffect
  BY <1>3, <1>10 DEF SemanticMembersDoneEffect
<1>11. CASE SemanticNoFieldsEffect
  BY <1>2, <1>11 DEF SemanticNoFieldsEffect
<1>12. CASE SemanticDeferEffect
  BY <1>2, <1>12 DEF SemanticDeferEffect
<1>13. CASE SemanticDoneEffect
  BY <1>2, <1>13 DEF SemanticDoneEffect
<1> QED BY <1>1, <1>4, <1>5, <1>6, <1>7, <1>8, <1>9, <1>10, <1>11, <1>12, <1>13, StepKinds DEF SemanticEffect

LEMMA StepActive ==
    ASSUME StackInv, StackInv', ActiveInv, StepEffect, Grows
    PROVE  ActiveInv'
<1> SUFFICES ASSUME NEW k \in 1..Depth', levels'[k].proc = "semantic", levels'[k].pc # "enter"
             PROVE  runOf'[levels'[k].of] # "init"
  BY DEF ActiveInv
<1>1. levels'[k].of \in Agg
  BY DEF StackInv, FrameOK
<1>2. CASE k \in 1..Depth /\ levels[k].proc = "semantic" /\ levels[k].pc # "enter" /\ levels[k].of = levels'[k].of
  BY <1>1, <1>2 DEF ActiveInv, Grows
<1>3. CASE SemanticEnterEffect /\ levels'[k].of = Top.of
  <2>1. runOf' = [runOf EXCEPT ![Top.of] = "semantic"]
    BY <1>3 DEF SemanticEnterEffect
  <2> QED BY <1>1, <1>3, <2>1 DEF runOf
<1> QED BY <1>2, <1>3, ActiveLevels

-----------------------------------------------------------------------------
(***************************************************************************)
(* The chains of base classes.                                             *)
(***************************************************************************)

\* A call that has just begun to wait for the analysis of a base class.
LEMMA BasedLevels ==
    ASSUME StackInv, StepEffect, NEW k \in 1..Depth', levels'[k].proc = "semantic", levels'[k].pc = "based"
    PROVE  \/ k \in 1..Depth /\ levels'[k] = levels[k]
           \/ ClassBaseEffect /\ levels'[k].of = Top.of /\ \E f, g : Called(f, g)
<1>1. CASE Aside
  BY <1>1, NextLevels DEF Aside
<1>2. ASSUME NEW pc, At("semantic", pc),
             \/ Popped
             \/ \E f : WentOn(f) /\ f.pc # "based"
             \/ \E f, g : Called(f, g) /\ f.pc # "based" /\ g.pc = "enter"
      PROVE  k \in 1..Depth /\ levels'[k] = levels[k]
  BY <1>2, SemanticTop, NextLevels
<1>3. CASE SemanticAtOnceEffect
  BY <1>2, <1>3 DEF SemanticAtOnceEffect
<1>4. CASE SemanticEnterEffect
  <2>1. WentOn(levels'[Depth]) /\ levels'[Depth].pc \in {"members", "base", "ancestors"}
    BY <1>4 DEF SemanticEnterEffect
  <2> QED BY <1>2, <1>4, <2>1 DEF SemanticEnterEffect
<1>5. CASE ClassBaseEffect
  <2>1. At("semantic", "base") /\ stack # <<>>
    BY <1>5 DEF ClassBaseEffect, At
  <2>2. \/ \E f : WentOn(f) /\ Now(f, "ancestors")
        \/ \E f, g : Called(f, g) /\ Now(f, "based") /\ g.pc = "enter"
    BY <1>5 DEF ClassBaseEffect
  <2>3. CASE \E f : WentOn(f) /\ Now(f, "ancestors")
    BY <1>2, <2>1, <2>3 DEF Now
  <2>4. CASE \E f, g : Called(f, g) /\ Now(f, "based") /\ g.pc = "enter"
    BY <1>5, <2>1, <2>4, NextLevels DEF Now
  <2> QED BY <2>2, <2>3, <2>4
<1>6. CASE ClassBasedEffect
  BY <1>2, <1>6 DEF ClassBasedEffect, Now
<1>7. CASE ClassAncestorsEffect
  BY <1>2, <1>7 DEF ClassAncestorsEffect, Now
<1>8. CASE SemanticMemberEffect
  BY <1>2, <1>8 DEF SemanticMemberEffect, Now
<1>9. CASE SemanticMembersDoneEffect
  BY <1>2, <1>9 DEF SemanticMembersDoneEffect, Now
<1>10. CASE SemanticNoFieldsEffect
  BY <1>2, <1>10 DEF SemanticNoFieldsEffect
<1>11. CASE SemanticDeferEffect
  BY <1>2, <1>11 DEF SemanticDeferEffect
<1>12. CASE SemanticDoneEffect
  BY <1>2, <1>12 DEF SemanticDoneEffect
<1> QED BY <1>1, <1>3, <1>4, <1>5, <1>6, <1>7, <1>8, <1>9, <1>10, <1>11, <1>12, StepKinds DEF SemanticEffect

LEMMA StepChains ==
    ASSUME DataInv, StackInv, StackInv', ChainInv, StepEffect
    PROVE  ChainInv'
<1>1. /\ baseClassOf \in [Agg -> Class \cup {NoBase}] /\ baseOf \in [Agg -> Class \cup {NoBase}]
      /\ NoBase \notin Class /\ Class \subseteq Agg /\ Struct \cap Class = {}
  BY NamesAssumption DEF DataInv, AggSet, baseClassOf, baseOf, Agg
<1>2. ASSUME NEW k \in 1..Depth', levels'[k].proc = "semantic", levels'[k].pc = "based"
      PROVE  levels'[k].of \in Agg
  BY <1>2 DEF StackInv, FrameOK
<1>3. CASE UNCHANGED <<baseClassOf, baseOf>> /\ ~ClassBaseEffect
  BY <1>3, BasedLevels DEF ChainInv
<1>4. CASE ClassBaseEffect
  <2> DEFINE c == Top.of
             b == baseOf[c]
  <2>1. c \in Class /\ c \in Agg /\ stack # <<>> /\ Depth \in Nat \ {0}
    BY <1>1, <1>4, TopFacts DEF ClassBaseEffect, At
  <2>2. CASE baseClassOf[c] = NoBase /\ baseClassOf' = baseClassOf /\ baseOf' = [baseOf EXCEPT ![c] = NoBase]
             /\ \E f : WentOn(f)
    <3>1. ~\E f, g : Called(f, g)
      BY <2>1, <2>2 DEF WentOn, Called
    <3>2. \A a \in Agg : baseOf'[a] = IF a = c THEN NoBase ELSE baseOf[a]
      BY <1>1, <2>2
    <3>3. \A a \in Agg : baseClassOf'[a] \in {NoBase, baseOf'[a]}
      BY <2>2, <3>2 DEF ChainInv
    <3>4. \A a \in Struct : baseOf'[a] = NoBase
      BY <3>2 DEF ChainInv, Agg
    <3>5. \A k \in 1..Depth' : levels'[k].proc = "semantic" /\ levels'[k].pc = "based"
                               => baseClassOf'[levels'[k].of] # NoBase
      BY <2>2, <3>1, BasedLevels DEF ChainInv
    <3> QED BY <2>2, <3>3, <3>4, <3>5 DEF ChainInv
  <2>3. CASE b \in Class /\ c \notin Chain(baseClassOf, b) /\ baseOf' = baseOf
             /\ baseClassOf' = [baseClassOf EXCEPT ![c] = b]
    <3>1. \A a \in Agg : baseClassOf'[a] = IF a = c THEN b ELSE baseClassOf[a]
      BY <1>1, <2>3
    <3>2. \A a \in Agg : baseClassOf'[a] \in {NoBase, baseOf'[a]}
      BY <2>3, <3>1 DEF ChainInv
    <3>3. \A a \in Struct : baseOf'[a] = NoBase
      BY <2>3 DEF ChainInv
    <3>4. \A k \in 1..Depth' : levels'[k].proc = "semantic" /\ levels'[k].pc = "based"
                               => baseClassOf'[levels'[k].of] # NoBase
      <4> SUFFICES ASSUME NEW k \in 1..Depth', levels'[k].proc = "semantic", levels'[k].pc = "based"
                   PROVE  baseClassOf'[levels'[k].of] # NoBase
        OBVIOUS
      <4>1. levels'[k].of = c \/ baseClassOf[levels'[k].of] # NoBase
        BY BasedLevels DEF ChainInv
      <4> QED BY <1>1, <1>2, <2>3, <3>1, <4>1
    <3>5. \A d \in Class : d \notin Chain(baseClassOf', baseClassOf'[d])
      <4>1. \A d \in Class : d \notin Chain(baseClassOf, baseClassOf[d])
        BY DEF ChainInv
      <4> HIDE DEF c, b
      <4> QED BY <1>1, <2>1, <2>3, <4>1, LongerChains
    <3>6. \A d \in Class : (d \notin Chain(baseClassOf, baseClassOf[d]))'
      <4>1. \A next, d : Chain(next, d)' = Chain(next, d)
        BY DEF Chain, Closed
      <4> QED BY <3>5
    <3> QED BY <3>2, <3>3, <3>4, <3>6 DEF ChainInv
  <2> QED BY <1>4, <2>2, <2>3 DEF ClassBaseEffect
<1>5. ASSUME ~ClassBaseEffect PROVE UNCHANGED <<baseClassOf, baseOf>>
  BY <1>5, StepKinds DEF Aside, RunSame, SemanticEffect, SemanticAtOnceEffect, SemanticEnterEffect,
     ClassBasedEffect, ClassAncestorsEffect, SemanticMemberEffect, Kept, AggSame,
     SemanticMembersDoneEffect, SemanticNoFieldsEffect, SemanticDeferEffect, SemanticDoneEffect
<1> QED BY <1>3, <1>4, <1>5

-----------------------------------------------------------------------------
(***************************************************************************)
(* The retry loop runs once at a time.                                     *)
(***************************************************************************)
IsRound(f) == f.proc = "runDeferred" /\ f.pc = "round"

rounds == {k \in 1..Depth : IsRound(levels[k])}

NestInv ==
    \/ ~nested /\ rounds = {}
    \/ nested /\ \E k \in 1..Depth : rounds = {k}

LEMMA SameRounds ==
    ASSUME StackInv, Shape, stack # <<>> => ~IsRound(Top) /\ (Popped \/ Top.proc # "runDeferred")
    PROVE  rounds' = rounds
<1>1. CASE stack = <<>>
  <2>1. Depth = 0
    BY <1>1, EmptyStack DEF StackInv
  <2>2. \A k \in 1..Depth' : ~IsRound(levels'[k])
    <3>1. (Depth' = 1 /\ levels'[1].pc = "enter") \/ Depth' = 0
      BY <1>1 DEF Shape
    <3>2. \A k \in 1..Depth' : k = 1 /\ Depth' # 0
      BY <3>1
    <3> QED BY <3>1, <3>2 DEF IsRound
  <2>3. \A k : k \notin 1..Depth
    BY <2>1
  <2> QED BY <2>2, <2>3 DEF rounds
<1>2. CASE stack # <<>>
  <2>1. Depth \in Nat \ {0} /\ Depth \in 1..Depth /\ ~IsRound(levels[Depth])
    BY <1>2, TopFacts
  <2>2. \A k \in 1..Depth : k \in 1..Depth - 1 \/ k = Depth
    BY <2>1
  <2>3. \A k \in 1..Depth' : \/ k \in 1..Depth - 1 /\ levels'[k] = levels[k]
                             \/ k \notin 1..Depth - 1 /\ ~IsRound(levels'[k])
    <3>1. CASE Popped
      BY <1>2, <3>1, NextLevels
    <3>2. CASE Top.proc # "runDeferred" /\ \E f : WentOn(f) /\ f.proc = Top.proc
      BY <1>2, <2>1, <3>2, NextLevels DEF IsRound
    <3>3. CASE Top.proc # "runDeferred" /\ \E f, g : Called(f, g) /\ f.proc = Top.proc /\ g.pc = "enter"
      BY <1>2, <2>1, <3>3, NextLevels DEF IsRound
    <3> QED BY <1>2, <3>1, <3>2, <3>3 DEF Shape
  <2>4. \A k \in 1..Depth - 1 : k \in 1..Depth'
    <3>1. Depth' \in {Depth - 1, Depth, Depth + 1}
      BY <1>2 DEF Shape, Popped, WentOn, Called
    <3> QED BY <2>1, <3>1
  <2> QED BY <2>1, <2>2, <2>3, <2>4 DEF rounds
<1> QED BY <1>1, <1>2

LEMMA NestKept ==
    ASSUME NestInv, rounds' = rounds, nested' = nested
    PROVE  NestInv'
<1>1. CASE ~nested /\ rounds = {}
  BY <1>1 DEF NestInv
<1>2. CASE nested /\ \E k \in 1..Depth : rounds = {k}
  <2>1. PICK k \in 1..Depth : rounds = {k}
    BY <1>2
  <2>2. rounds' = {k} /\ k \in 1..Depth'
    BY <2>1 DEF rounds
  <2> QED BY <1>2, <2>2 DEF NestInv
<1> QED BY <1>1, <1>2 DEF NestInv

\* A round that begins when there is no other one.
LEMMA NestBegun ==
    ASSUME StackInv, stack # <<>>, \A k \in 1..Depth - 1 : ~IsRound(levels[k]), RoundBegun
    PROVE  NestInv'
<1>1. Depth \in Nat \ {0}
  BY TopFacts
<1>2. CASE Popped /\ nested' = FALSE
  <2>1. \A k \in 1..Depth' : ~IsRound(levels'[k])
    BY <1>2, NextLevels
  <2> QED BY <1>2, <2>1 DEF NestInv, rounds
<1>3. CASE nested' = TRUE /\ \E f : Retries(f, 1, deferred) /\ WentOn(f)
  <2>1. PICK f : Retries(f, 1, deferred) /\ WentOn(f)
    BY <1>3
  <2>2. Depth \in 1..Depth' /\ levels'[Depth] = f /\ IsRound(f)
    BY <1>1, <2>1 DEF WentOn, Retries, IsRound
  <2>3. \A k \in 1..Depth' : k = Depth \/ ~IsRound(levels'[k])
    BY <2>1, NextLevels
  <2>4. rounds' = {Depth}
    BY <2>2, <2>3 DEF rounds
  <2> QED BY <1>3, <2>2, <2>4 DEF NestInv
<1> QED BY <1>2, <1>3 DEF RoundBegun

LEMMA StepNest ==
    ASSUME StackInv, NestInv, StepEffect
    PROVE  NestInv'
<1>1. Shape
  BY StepShape
<1>2. ASSUME stack # <<>> PROVE Depth \in Nat \ {0} /\ Depth \in 1..Depth /\ Top = levels[Depth]
  BY <1>2, TopFacts
<1>3. CASE RunDeferredAtOnceEffect
  <2>1. rounds' = rounds
    BY <1>1, <1>3, SameRounds DEF RunDeferredAtOnceEffect, At, IsRound
  <2> QED BY <1>3, <2>1, NestKept DEF RunDeferredAtOnceEffect
<1>4. CASE RunDeferredEnterEffect
  <2>1. stack # <<>> /\ RoundBegun /\ rounds = {}
    BY <1>4 DEF RunDeferredEnterEffect, At, NestInv
  <2>2. \A k \in 1..Depth - 1 : ~IsRound(levels[k])
    BY <1>2, <2>1 DEF rounds
  <2> QED BY <2>1, <2>2, NestBegun
<1>5. CASE RunDeferredRoundDoneEffect
  <2>1. stack # <<>> /\ RoundBegun /\ IsRound(Top)
    BY <1>5 DEF RunDeferredRoundDoneEffect, At, IsRound
  <2>2. Depth \in rounds
    BY <1>2, <2>1 DEF rounds
  <2>3. rounds = {Depth}
    BY <2>2 DEF NestInv
  <2>4. \A k \in 1..Depth - 1 : k \in 1..Depth /\ k # Depth
    BY <1>2, <2>1
  <2>5. \A k \in 1..Depth - 1 : ~IsRound(levels[k])
    BY <2>3, <2>4 DEF rounds
  <2> QED BY <2>1, <2>5, NestBegun
<1>6. CASE RunDeferredSymbolEffect
  <2>1. stack # <<>> /\ IsRound(Top) /\ nested' = nested
    BY <1>6 DEF RunDeferredSymbolEffect, At, IsRound
  <2>2. PICK f, g : Retries(f, Top.i + 1, Top.todo) /\ Called(f, g) /\ g.proc = "semantic"
    BY <1>6 DEF RunDeferredSymbolEffect
  <2>3. Depth \in Nat \ {0} /\ Depth \in 1..Depth /\ IsRound(levels[Depth]) /\ IsRound(f) /\ ~IsRound(g)
    BY <1>2, <2>1, <2>2 DEF Retries, IsRound
  <2>4. Depth' = Depth + 1 /\ levels'[Depth] = f /\ levels'[Depth + 1] = g
        /\ \A k \in 1..Depth - 1 : levels'[k] = levels[k]
    BY <2>2 DEF Called
  <2>5. /\ \A k \in 1..Depth' : k \in 1..Depth - 1 \/ k = Depth \/ k = Depth + 1
        /\ \A k \in 1..Depth : k \in 1..Depth - 1 \/ k = Depth
        /\ \A k \in 1..Depth : k \in 1..Depth' /\ k # Depth + 1
    BY <2>3, <2>4
  <2>6. rounds' = rounds
    BY <2>3, <2>4, <2>5 DEF rounds
  <2> QED BY <2>1, <2>6, NestKept
<1>7. ASSUME nested' = nested, stack # <<>> => Top.proc # "runDeferred" PROVE NestInv'
  BY <1>1, <1>7, SameRounds, NestKept DEF IsRound
<1>8. CASE ModuleMemberEffect
  BY <1>7, <1>8 DEF ModuleMemberEffect, At
<1>9. CASE ModuleMemberDoneEffect
  BY <1>7, <1>9 DEF ModuleMemberDoneEffect, At
<1>10. CASE SemanticEffect
  <2>1. Top.proc = "semantic" /\ nested' = nested
    BY <1>10 DEF SemanticEffect, Others, SemanticAtOnceEffect, SemanticEnterEffect, ClassBaseEffect,
       ClassBasedEffect, ClassAncestorsEffect, SemanticMemberEffect,
       SemanticMembersDoneEffect, SemanticNoFieldsEffect, SemanticDeferEffect, SemanticDoneEffect, At
  <2> QED BY <1>7, <2>1
<1>11. CASE InnerEffect
  BY <1>7, <1>11 DEF InnerEffect, InnerProcs
<1>12. CASE LastTryEffect \/ ReportUnresolvedEffect
  BY <1>7, <1>12 DEF LastTryEffect, ReportUnresolvedEffect
<1> QED BY <1>3, <1>4, <1>5, <1>6, <1>8, <1>9, <1>10, <1>11, <1>12 DEF StepEffect, SemanticEffect

-----------------------------------------------------------------------------
(***************************************************************************)
(* Modules: whatever they list has been begun or is ahead.                 *)
(***************************************************************************)
EndInv == phase = "end" => stack = <<>> /\ (errors = 0 => deferred = <<>>)

LEMMA StepEnd ==
    ASSUME EndInv, StepEffect
    PROVE  EndInv'
<1>1. CASE ReportUnresolvedEffect
  BY <1>1 DEF ReportUnresolvedEffect, EndInv
<1>2. CASE LastTryEffect
  BY <1>2 DEF LastTryEffect, EndInv
<1>3. ASSUME stack # <<>>, phase' = phase PROVE EndInv'
  BY <1>3 DEF EndInv
<1>4. CASE ModuleMemberEffect \/ ModuleMemberDoneEffect
  BY <1>3, <1>4 DEF ModuleMemberEffect, ModuleMemberDoneEffect, At, Quiet
<1>5. CASE RunDeferredAtOnceEffect \/ RunDeferredEnterEffect \/ RunDeferredSymbolEffect \/ RunDeferredRoundDoneEffect
  BY <1>3, <1>5 DEF RunDeferredAtOnceEffect, RunDeferredEnterEffect, RunDeferredSymbolEffect,
     RunDeferredRoundDoneEffect, At, Quiet
<1>6. CASE SemanticEffect
  BY <1>3, <1>6 DEF SemanticEffect, Others, SemanticAtOnceEffect, SemanticEnterEffect, ClassBaseEffect,
     ClassBasedEffect, ClassAncestorsEffect, SemanticMemberEffect,
     SemanticMembersDoneEffect, SemanticNoFieldsEffect, SemanticDeferEffect, SemanticDoneEffect, At
<1>7. CASE InnerEffect
  BY <1>3, <1>7 DEF InnerEffect
<1> QED BY <1>1, <1>2, <1>4, <1>5, <1>6, <1>7 DEF StepEffect, SemanticEffect

\* Entry j of the module m has been begun.
Settled(m, j) ==
    IF program.items[m][j] = Import THEN Imported \in started
    ELSE runOf[program.items[m][j]] # "init"

\* The analysis of m that is at level k will begin it.
AheadAt(m, j, k) ==
    /\ levels[k].proc = "module" /\ levels[k].of = m
    /\ \/ levels[k].i < j
       \/ levels[k].i = j /\ levels[k].pc = "enter"
       \/ levels[k].i = j /\ k + 1 = Depth /\ levels[k + 1].proc = "semantic" /\ levels[k + 1].pc = "enter"

ModuleInv ==
    /\ Main \in started
    /\ \A m \in started : \A j \in DOMAIN program.items[m] :
          Settled(m, j) \/ \E k \in 1..Depth : AheadAt(m, j, k)

LEMMA SettledGrows ==
    ASSUME DataInv, Grows, NEW m \in {Main, Imported}, NEW j \in DOMAIN program.items[m], Settled(m, j)
    PROVE  Settled(m, j)'
<1>1. program.items[m][j] \in Agg \cup {Import} /\ program' = program
  BY ProgramFacts DEF DataInv, Grows
<1> QED BY <1>1 DEF Settled, Grows

LEMMA StepModuleOld ==
    ASSUME DataInv, StackInv, Grows, StepEffect, NEW m \in {Main, Imported},
           NEW j \in DOMAIN program.items[m], NEW k \in 1..Depth, AheadAt(m, j, k)
    PROVE  Settled(m, j)' \/ \E l \in 1..Depth' : AheadAt(m, j, l)'
<1> DEFINE items == program.items[m]
<1>0. PICK d : d = Depth
  OBVIOUS
<1>1. /\ stack # <<>> /\ Depth \in Nat \ {0} /\ Depth \in 1..Depth /\ Top = levels[Depth] /\ Top \in FrameSet
      /\ FrameOK(Top, program) /\ (Depth > 1 => Waits(levels[Depth - 1], Top, program))
  <2>1. stack # <<>>
    BY EmptyStack DEF StackInv
  <2> QED BY <2>1, TopFacts
<1>2. /\ items \in Seq(Agg \cup {Import}) /\ DOMAIN items = 1..Len(items) /\ Len(items) \in Nat
      /\ j \in Nat /\ j >= 1 /\ j <= Len(items) /\ Import \notin Agg
  <2>1. items \in Seq(Agg \cup {Import})
    BY ProgramFacts DEF DataInv
  <2> QED BY <2>1, NamesAssumption
<1>3. program' = program
  BY DEF Grows
<1>4. CASE k \in 1..Depth - 1 /\ (levels[k].i < j \/ (levels[k].i = j /\ levels[k].pc = "enter"))
  <2>1. levels'[k] = levels[k] /\ k \in 1..Depth'
    <3>1. Popped \/ (\E f : WentOn(f)) \/ (\E f, g : Called(f, g))
      BY <1>1, StepShape DEF Shape
    <3> QED BY <1>1, <1>4, <3>1 DEF Popped, WentOn, Called
  <2> QED BY <1>4, <2>1 DEF AheadAt
<1>5. CASE levels[k].i = j /\ k + 1 = Depth /\ levels[k + 1].proc = "semantic" /\ levels[k + 1].pc = "enter"
  <2>1. Top.proc = "semantic" /\ Top.pc = "enter" /\ Depth - 1 = k /\ Depth > 1
    BY <1>1, <1>5
  <2>2. Top.of = items[j] /\ Top.of \in Agg
    BY <1>1, <1>5, <2>1, TopAgg DEF Waits, AheadAt
  <2>3. SemanticAtOnceEffect \/ SemanticEnterEffect
    BY <1>1, <2>1, StepKinds DEF Aside, SemanticEffect, ClassBaseEffect,
       ClassBasedEffect, ClassAncestorsEffect, SemanticMemberEffect,
       SemanticMembersDoneEffect, SemanticNoFieldsEffect, SemanticDeferEffect, SemanticDoneEffect, At
  <2>4. runOf'[Top.of] # "init"
    <3>1. \/ runOf[Top.of] = "done" \/ runOf[Top.of] = "semantic"
          \/ runOf' = [runOf EXCEPT ![Top.of] = "semantic"]
      BY <2>3 DEF SemanticAtOnceEffect, SemanticEnterEffect
    <3> QED BY <2>2, <3>1 DEF runOf, Grows
  <2> QED BY <1>2, <1>3, <2>2, <2>4 DEF Settled
<1>6. CASE k = Depth /\ (levels[k].i < j \/ (levels[k].i = j /\ levels[k].pc = "enter"))
  <2>1. Top.proc = "module" /\ Top.of = m /\ Top.i \in Nat \ {0}
    BY <1>1, <1>6 DEF AheadAt, FrameOK
  <2>2. ModuleMemberEffect \/ ModuleMemberDoneEffect
    BY <1>1, <2>1 DEF StepEffect, SemanticAtOnceEffect, SemanticEnterEffect, ClassBaseEffect,
       ClassBasedEffect, ClassAncestorsEffect, SemanticMemberEffect,
       SemanticMembersDoneEffect, SemanticNoFieldsEffect, SemanticDeferEffect, SemanticDoneEffect, At,
       InnerEffect, InnerProcs, RunDeferredAtOnceEffect, RunDeferredEnterEffect, RunDeferredSymbolEffect,
       RunDeferredRoundDoneEffect, LastTryEffect, ReportUnresolvedEffect
  <2>3. \A f : WentOn(f) => Depth \in 1..Depth' /\ levels'[Depth] = f
    BY <1>1 DEF WentOn
  <2>4. \A f, g : Called(f, g) => /\ Depth \in 1..Depth' /\ levels'[Depth] = f
                                  /\ Depth' = Depth + 1 /\ levels'[Depth + 1] = g
    BY <1>1 DEF Called
  <2>5. CASE ModuleMemberEffect
    <3>1. CASE Top.i \notin DOMAIN items
      BY <1>1, <1>2, <1>6, <2>1, <3>1
    <3>2. CASE Top.i < j /\ Top.i \in DOMAIN items
      <4>1. \E f : Reached(f, Top.i, "deferred") /\ (WentOn(f) \/ \E g : Called(f, g))
        BY <2>1, <2>5, <3>2 DEF ModuleMemberEffect
      <4>2. PICK f : Reached(f, Top.i, "deferred") /\ (WentOn(f) \/ \E g : Called(f, g))
        BY <4>1
      <4>3. Depth \in 1..Depth' /\ levels'[Depth] = f
        BY <2>3, <2>4, <4>2
      <4>4. AheadAt(m, j, d)'
        BY <1>0, <2>1, <3>2, <4>2, <4>3 DEF AheadAt, Reached
      <4> QED BY <1>0, <4>3, <4>4
    <3>3. CASE Top.i = j
      <4>1. CASE items[j] = Import
        <5>1. Imported \in started'
          BY <2>1, <2>5, <3>3, <4>1 DEF ModuleMemberEffect
        <5> QED BY <1>3, <4>1, <5>1 DEF Settled
      <4>2. CASE items[j] # Import
        <5>1. \E f, g : /\ Reached(f, j, "deferred") /\ Called(f, g)
                        /\ g.proc = "semantic" /\ g.pc = "enter"
          BY <1>2, <2>1, <2>5, <3>3, <4>2 DEF ModuleMemberEffect
        <5>2. PICK f, g : /\ Reached(f, j, "deferred") /\ Called(f, g)
                          /\ g.proc = "semantic" /\ g.pc = "enter"
          BY <5>1
        <5>3. /\ Depth \in 1..Depth' /\ levels'[Depth] = f
              /\ Depth' = Depth + 1 /\ levels'[Depth + 1] = g
          BY <2>4, <5>2
        <5>4. AheadAt(m, j, d)'
          BY <1>0, <2>1, <5>2, <5>3 DEF AheadAt, Reached
        <5> QED BY <1>0, <5>3, <5>4
      <4> QED BY <4>1, <4>2
    <3> QED BY <1>1, <1>6, <3>1, <3>2, <3>3
  <2>6. CASE ModuleMemberDoneEffect
    <3>1. PICK f, g : Reached(f, Top.i + 1, "enter") /\ Called(f, g)
      BY <2>6 DEF ModuleMemberDoneEffect
    <3>2. Depth \in 1..Depth' /\ levels'[Depth] = f
      BY <2>4, <3>1
    <3>3. Top.i < j
      BY <1>1, <1>6, <2>6 DEF ModuleMemberDoneEffect, At
    <3>4. Top.i + 1 < j \/ Top.i + 1 = j
      BY <1>2, <2>1, <3>3
    <3>5. f.i < j \/ (f.i = j /\ f.pc = "enter")
      BY <3>1, <3>4 DEF Reached
    <3>6. AheadAt(m, j, d)'
      BY <1>0, <2>1, <3>1, <3>2, <3>5 DEF AheadAt, Reached
    <3> QED BY <1>0, <3>2, <3>6
  <2> QED BY <2>2, <2>5, <2>6
<1>7. k \in 1..Depth - 1 \/ k = Depth
  BY <1>1
<1> QED BY <1>4, <1>5, <1>6, <1>7 DEF AheadAt

\* A module that is begun has everything ahead.
LEMMA StepModuleNew ==
    ASSUME DataInv, StackInv, Grows, StepEffect, NEW m \in started', m \notin started,
           NEW j \in DOMAIN program.items[m]
    PROVE  \E l \in 1..Depth' : AheadAt(m, j, l)'
<1>1. CASE UNCHANGED started
  BY <1>1
<1>2. CASE \E f, g : /\ Called(f, g) /\ started' = started \cup {Imported} /\ stack # <<>>
                     /\ g.proc = "module" /\ g.of = Imported /\ g.i = 1 /\ g.pc = "enter"
  <2>1. PICK f, g : /\ Called(f, g) /\ started' = started \cup {Imported} /\ stack # <<>>
                    /\ g.proc = "module" /\ g.of = Imported /\ g.i = 1 /\ g.pc = "enter"
    BY <1>2
  <2>2. m = Imported
    BY <2>1
  <2>3. Depth' = Depth + 1 /\ Depth \in Nat /\ levels'[Depth + 1] = g
    BY <2>1, TopFacts DEF Called
  <2>4. DOMAIN program.items[m] = 1..Len(program.items[m]) /\ Len(program.items[m]) \in Nat
    <3>1. program.items[m] \in Seq(Agg \cup {Import})
      BY <2>2, ProgramFacts DEF DataInv
    <3> QED BY <3>1
  <2>5. g.i < j \/ g.i = j
    BY <2>1, <2>4
  <2>6. PICK d : d = Depth + 1
    OBVIOUS
  <2>7. AheadAt(m, j, d)' /\ d \in 1..Depth'
    BY <2>1, <2>2, <2>3, <2>5, <2>6 DEF AheadAt
  <2> QED BY <2>7
<1>3. CASE ModuleMemberEffect
  BY <1>1, <1>2, <1>3 DEF ModuleMemberEffect, At
<1>4. CASE SemanticMemberEffect
  BY <1>1, <1>2, <1>4 DEF SemanticMemberEffect, At
<1>5. ASSUME ~ModuleMemberEffect, ~SemanticMemberEffect PROVE UNCHANGED started
  BY <1>5 DEF StepEffect, Others, SemanticAtOnceEffect, SemanticEnterEffect, ClassBaseEffect,
       ClassBasedEffect, ClassAncestorsEffect, ModuleMemberDoneEffect,
       SemanticMembersDoneEffect, SemanticNoFieldsEffect, SemanticDeferEffect, SemanticDoneEffect,
       InnerEffect, RunDeferredAtOnceEffect, RunDeferredEnterEffect, RunDeferredSymbolEffect,
       RunDeferredRoundDoneEffect, LastTryEffect, ReportUnresolvedEffect
<1> QED BY <1>1, <1>3, <1>4, <1>5

LEMMA StepModules ==
    ASSUME DataInv, DataInv', StackInv, ModuleInv, Grows, StepEffect
    PROVE  ModuleInv'
<1>1. Main \in started' /\ program' = program
  BY DEF ModuleInv, Grows
<1>2. ASSUME NEW m \in started', NEW j \in DOMAIN program'.items[m]
      PROVE  Settled(m, j)' \/ \E k \in 1..Depth' : AheadAt(m, j, k)'
  <2>1. m \in {Main, Imported} /\ j \in DOMAIN program.items[m]
    BY <1>1, <1>2 DEF DataInv
  <2>2. CASE m \notin started
    BY <1>2, <2>1, <2>2, StepModuleNew
  <2>3. CASE m \in started
    <3>1. CASE Settled(m, j)
      BY <2>1, <3>1, SettledGrows
    <3>2. CASE \E k \in 1..Depth : AheadAt(m, j, k)
      BY <2>1, <3>2, StepModuleOld
    <3> QED BY <2>1, <2>3, <3>1, <3>2 DEF ModuleInv
  <2> QED BY <2>2, <2>3
<1> QED BY <1>1, <1>2 DEF ModuleInv

=============================================================================
