------------------------- MODULE ModuleSearchProofs -------------------------
(***************************************************************************)
(* Proofs about ModuleSearch, for every import graph, cyclic or not, every  *)
(* set of identifiers and every sequence of lookups and changes.            *)
(***************************************************************************)
EXTENDS ModuleSearch, SequenceTheorems, FiniteSetTheorems, TLAPS

Pc == {"enter", "scan", "merge", "found", "leave"}

FrameSet == [mod : Module, ident : Ident, flags : SUBSET Flag, pc : Pc, i : Nat \ {0},
             symbol : SUBSET Module, errors : Nat]

Depth == Len(stack)

(***************************************************************************)
(* The three ways an action changes the stack: the top frame returns, it    *)
(* goes on as f, or it goes on as f and calls g.                            *)
(***************************************************************************)

Popped ==
    /\ stack' \in Seq(FrameSet) /\ Depth \in Nat \ {0} /\ Depth' = Depth - 1
    /\ \A k \in 1..Depth-1 : stack'[k] = stack[k+1]

WentOn(f) ==
    /\ stack' \in Seq(FrameSet) /\ Depth \in Nat \ {0} /\ Depth' = Depth
    /\ f \in FrameSet /\ stack'[1] = f
    /\ \A k \in 2..Depth : stack'[k] = stack[k]

Called(g, f) ==
    /\ stack' \in Seq(FrameSet) /\ Depth \in Nat \ {0} /\ Depth' = Depth + 1
    /\ g \in FrameSet /\ stack'[1] = g
    /\ f \in FrameSet /\ stack'[2] = f
    /\ \A k \in 2..Depth : stack'[k+1] = stack[k]

\* The frame f once it goes on at pc with this symbol.
Going(f, pc, symbol) == [f EXCEPT !.pc = pc, !.symbol = symbol]

\* Going on changes a frame's place and symbol only.
LEMMA GoingFields ==
    ASSUME NEW f \in FrameSet, NEW pc \in Pc, NEW symbol \in SUBSET Module
    PROVE  /\ Going(f, pc, symbol) \in FrameSet
           /\ Going(f, pc, symbol).mod = f.mod /\ Going(f, pc, symbol).ident = f.ident
           /\ Going(f, pc, symbol).flags = f.flags /\ Going(f, pc, symbol).i = f.i
           /\ Going(f, pc, symbol).pc = pc /\ Going(f, pc, symbol).symbol = symbol
           /\ Going(f, pc, symbol).errors = f.errors
<1> DEFINE t == [f EXCEPT !.pc = pc]
<1>1. /\ t \in FrameSet /\ t.mod = f.mod /\ t.ident = f.ident /\ t.flags = f.flags
      /\ t.i = f.i /\ t.pc = pc /\ t.errors = f.errors
  BY DEF FrameSet
<1>2. Going(f, pc, symbol) = [t EXCEPT !.symbol = symbol]
  BY DEF Going
<1> HIDE DEF t
<1> QED BY <1>1, <1>2 DEF FrameSet

\* The top of a stack that is not empty, and the rest of it.
LEMMA StackShape ==
    ASSUME stack \in Seq(FrameSet), stack # <<>>
    PROVE  /\ Depth \in Nat \ {0} /\ DOMAIN stack = 1..Depth /\ 1 \in 1..Depth
           /\ Top = stack[1] /\ Top \in FrameSet
           /\ Tail(stack) \in Seq(FrameSet) /\ Len(Tail(stack)) = Depth - 1
           /\ \A k \in 1..Depth-1 : Tail(stack)[k] = stack[k+1]
<1>1. Depth \in Nat \ {0} /\ DOMAIN stack = 1..Depth
  BY EmptySeq, LenProperties DEF Depth
<1>2. Top = stack[1]
  BY DEF Top
<1>3. Top \in FrameSet
  BY <1>1, <1>2, ElementOfSeq DEF Depth
<1> QED BY <1>1, <1>2, <1>3, HeadTailProperties DEF Depth

\* The call on top returns.
LEMMA PopShape ==
    ASSUME stack \in Seq(FrameSet), stack # <<>>, stack' = Tail(stack)
    PROVE  Popped
<1>1. Depth' = Len(Tail(stack))
  BY DEF Depth
<1> QED BY <1>1, StackShape DEF Popped

\* What GoOn makes of the stack.
LEMMA GoOnShape ==
    ASSUME stack \in Seq(FrameSet), stack # <<>>, NEW f \in FrameSet, NEW pc \in Pc,
           NEW symbol \in SUBSET Module
    PROVE  /\ GoOn(f, pc, symbol) \in Seq(FrameSet) /\ Len(GoOn(f, pc, symbol)) = Depth
           /\ GoOn(f, pc, symbol)[1] = Going(f, pc, symbol)
           /\ Going(f, pc, symbol) \in FrameSet
           /\ \A k \in 2..Depth : GoOn(f, pc, symbol)[k] = stack[k]
<1> DEFINE g == Going(f, pc, symbol)
           t == Tail(stack)
<1>1. GoOn(f, pc, symbol) = <<g>> \o t
  BY DEF GoOn, Going
<1>2. g \in FrameSet
  BY GoingFields
<1> HIDE DEF g
<1>3. <<g>> \in Seq(FrameSet) /\ Len(<<g>>) = 1 /\ <<g>>[1] = g
  BY <1>2
<1>4. /\ t \in Seq(FrameSet) /\ Len(t) = Depth - 1 /\ Depth \in Nat \ {0}
      /\ \A k \in 1..Depth-1 : t[k] = stack[k+1]
  BY StackShape
<1> HIDE DEF t
<1>5. /\ <<g>> \o t \in Seq(FrameSet) /\ Len(<<g>> \o t) = 1 + Len(t)
      /\ \A i \in 1..1 + Len(t) : (<<g>> \o t)[i] = IF i <= 1 THEN <<g>>[i] ELSE t[i - 1]
  BY <1>3, <1>4, ConcatProperties
<1>6. \A k \in 2..Depth : (<<g>> \o t)[k] = stack[k]
  <2> TAKE k \in 2..Depth
  <2>1. k \in 1..1 + Len(t) /\ ~(k <= 1) /\ k - 1 \in 1..Depth-1 /\ (k - 1) + 1 = k
    BY <1>4
  <2> QED BY <1>4, <1>5, <2>1
<1>7. (<<g>> \o t)[1] = g /\ Len(<<g>> \o t) = Depth
  BY <1>3, <1>4, <1>5
<1> QED BY <1>1, <1>2, <1>5, <1>6, <1>7 DEF g

\* The call on top goes on.
LEMMA GoneOn ==
    ASSUME stack \in Seq(FrameSet), stack # <<>>, NEW f \in FrameSet, NEW pc \in Pc,
           NEW symbol \in SUBSET Module, stack' = GoOn(f, pc, symbol)
    PROVE  WentOn(Going(f, pc, symbol))
<1>1. Depth' = Len(GoOn(f, pc, symbol))
  BY DEF Depth
<1> QED BY <1>1, GoOnShape, StackShape DEF WentOn

\* The call on top goes on and calls another search.
LEMMA CallShape ==
    ASSUME stack \in Seq(FrameSet), stack # <<>>, NEW f \in FrameSet, NEW pc \in Pc,
           NEW symbol \in SUBSET Module, NEW g \in FrameSet,
           stack' = <<g>> \o GoOn(f, pc, symbol)
    PROVE  Called(g, Going(f, pc, symbol))
<1> DEFINE t == GoOn(f, pc, symbol)
<1>1. /\ t \in Seq(FrameSet) /\ Len(t) = Depth /\ t[1] = Going(f, pc, symbol)
      /\ Going(f, pc, symbol) \in FrameSet
      /\ \A k \in 2..Depth : t[k] = stack[k]
  BY GoOnShape
<1>2. Depth \in Nat \ {0}
  BY StackShape
<1>3. stack' = <<g>> \o t
  OBVIOUS
<1> HIDE DEF t
<1>4. <<g>> \in Seq(FrameSet) /\ Len(<<g>>) = 1 /\ <<g>>[1] = g
  OBVIOUS
<1>5. /\ stack' \in Seq(FrameSet) /\ Len(stack') = 1 + Depth
      /\ \A i \in 1..1 + Depth : stack'[i] = IF i <= 1 THEN g ELSE t[i - 1]
  <2>1. /\ <<g>> \o t \in Seq(FrameSet) /\ Len(<<g>> \o t) = 1 + Len(t)
        /\ \A i \in 1..1 + Len(t) : (<<g>> \o t)[i] = IF i <= 1 THEN <<g>>[i] ELSE t[i - 1]
    BY <1>1, <1>4, ConcatProperties
  <2>2. stack' \in Seq(FrameSet) /\ Len(stack') = 1 + Depth
    BY <1>1, <1>3, <2>1
  <2>3. ASSUME NEW i \in 1..1 + Depth PROVE stack'[i] = IF i <= 1 THEN g ELSE t[i - 1]
    <3>1. stack'[i] = IF i <= 1 THEN <<g>>[i] ELSE t[i - 1]
      BY <1>1, <1>3, <2>1
    <3>2. i <= 1 => i = 1
      BY <1>2
    <3> QED BY <1>4, <3>1, <3>2
  <2> QED BY <2>2, <2>3
<1>6. stack'[1] = g /\ stack'[2] = t[1]
  BY <1>2, <1>5
<1>7. \A k \in 2..Depth : stack'[k+1] = stack[k]
  BY <1>1, <1>2, <1>5
<1>8. Depth' = Depth + 1
  BY <1>2, <1>5 DEF Depth
<1> QED BY <1>1, <1>2, <1>5, <1>6, <1>7, <1>8 DEF Called

(***************************************************************************)
(* Types, and the searches in progress: only the last search called is not  *)
(* waiting for another, and insearch is set for exactly the modules of the  *)
(* searches that were entered, one for each module.                         *)
(***************************************************************************)

Types ==
    /\ decl \in [Module -> [Ident -> Kind]]
    /\ imports \in [Module -> Seq(Import)]
    /\ cache \in [Module -> [ident : Ident \cup {NoIdent}, flags : SUBSET Flag,
                             symbol : SUBSET Module]]
    /\ insearch \in [Module -> BOOLEAN]
    /\ pending \in [Module -> SUBSET Import]
    /\ ret \in SUBSET Module
    /\ errors \in Nat /\ lookups \in 0..bound.lookups /\ changed \in Seq(Module)
    /\ stale \subseteq {changed[n] : n \in DOMAIN changed}

Searching(k) == stack[k].pc # "enter"

StackInv ==
    /\ stack \in Seq(FrameSet)
    /\ \A k \in 2..Depth : stack[k].pc = "merge"
    /\ \A k, l \in 1..Depth :
          Searching(k) /\ Searching(l) /\ stack[k].mod = stack[l].mod => k = l
    /\ \A m \in Module : insearch[m] <=> \E k \in 1..Depth : Searching(k) /\ stack[k].mod = m

LookupInv ==
    /\ bound.lookups \in Nat /\ bound.changes \in Nat /\ bound.idents \subseteq Ident
    /\ lookup.mod \in Module /\ lookup.ident \in Ident \cup {NoIdent}
    /\ lookup.tries \in Seq(SUBSET Flag) /\ lookup.try \in 0..Len(lookup.tries)
    /\ lookup.try # 0 => lookup.ident \in Ident
    /\ stack # <<>> => lookup.try # 0

TypeInv == Types /\ StackInv /\ LookupInv

\* A search that was entered returns, or one that was not.
LEMMA PopInv ==
    ASSUME Types, StackInv, stack # <<>>, Popped,
           \/ Searching(1) /\ insearch' = [insearch EXCEPT ![Top.mod] = FALSE]
           \/ ~Searching(1) /\ insearch' = insearch
    PROVE  StackInv'
<1>1. /\ Depth \in Nat \ {0} /\ 1 \in 1..Depth /\ Top = stack[1] /\ Top.mod \in Module
  BY StackShape DEF StackInv, FrameSet
<1>2. /\ stack' \in Seq(FrameSet) /\ Depth' = Depth - 1
      /\ \A k \in 1..Depth-1 : stack'[k] = stack[k+1] /\ k+1 \in 2..Depth /\ k+1 \in 1..Depth
  BY <1>1 DEF Popped
<1>3. \A k \in 1..Depth-1 : Searching(k)' <=> Searching(k+1)
  BY <1>2 DEF Searching
<1>4. \A k \in 2..Depth-1 : stack'[k].pc = "merge"
  BY <1>1, <1>2 DEF StackInv
<1>5. ASSUME NEW k \in 1..Depth-1, NEW l \in 1..Depth-1,
             Searching(k)', Searching(l)', stack'[k].mod = stack'[l].mod
      PROVE  k = l
  <2>1. k+1 = l+1
    BY <1>2, <1>3, <1>5 DEF StackInv
  <2> QED BY <2>1
<1>6. ASSUME NEW m \in Module
      PROVE  insearch'[m] <=> \E k \in 1..Depth-1 : Searching(k)' /\ stack'[k].mod = m
  <2>1. (\E k \in 1..Depth-1 : Searching(k)' /\ stack'[k].mod = m)
          <=> \E k \in 2..Depth : Searching(k) /\ stack[k].mod = m
    <3>1. \A k \in 2..Depth : k-1 \in 1..Depth-1 /\ (k-1)+1 = k
      BY <1>1
    <3> QED BY <1>2, <1>3, <3>1
  <2>2. insearch[m] <=> \E k \in 1..Depth : Searching(k) /\ stack[k].mod = m
    BY DEF StackInv
  <2>3. \A k : k \in 1..Depth <=> k = 1 \/ k \in 2..Depth
    BY <1>1
  <2>4. CASE ~Searching(1)
    BY <2>1, <2>2, <2>3, <2>4
  <2>5. CASE Searching(1) /\ m # stack[1].mod
    <3>1. insearch'[m] = insearch[m]
      BY <1>1, <2>5 DEF Types
    <3> QED BY <2>1, <2>2, <2>3, <2>5, <3>1
  <2>6. CASE Searching(1) /\ m = stack[1].mod
    <3>1. ~insearch'[m]
      BY <1>1, <2>6 DEF Types
    <3>2. \A k \in 2..Depth : Searching(k) => stack[k].mod # m
      BY <1>1, <2>3, <2>6 DEF StackInv
    <3> QED BY <2>1, <3>1, <3>2
  <2> QED BY <2>4, <2>5, <2>6
<1> QED BY <1>2, <1>4, <1>5, <1>6 DEF StackInv

\* A search is entered, or goes on.
LEMMA GoOnInv ==
    ASSUME Types, StackInv, stack # <<>>, NEW f, WentOn(f), f.mod = Top.mod, f.pc # "enter",
           \/ Searching(1) /\ insearch' = insearch
           \/ ~insearch[Top.mod] /\ insearch' = [insearch EXCEPT ![Top.mod] = TRUE]
    PROVE  StackInv'
<1>1. /\ Depth \in Nat \ {0} /\ 1 \in 1..Depth /\ Top = stack[1] /\ Top.mod \in Module
  BY StackShape DEF StackInv, FrameSet
<1>2. /\ stack' \in Seq(FrameSet) /\ Depth' = Depth /\ stack'[1] = f
      /\ \A k \in 2..Depth : stack'[k] = stack[k]
  BY DEF WentOn
<1>3. /\ Searching(1)' /\ \A k \in 2..Depth : Searching(k)' <=> Searching(k)
      /\ \A k \in 1..Depth : stack'[k].mod = stack[k].mod
      /\ \A k : k \in 1..Depth <=> k = 1 \/ k \in 2..Depth
  <2>1. \A k : k \in 1..Depth <=> k = 1 \/ k \in 2..Depth
    BY <1>1
  <2> QED BY <1>1, <1>2, <2>1 DEF Searching
<1>4. \A k \in 2..Depth : stack'[k].pc = "merge"
  BY <1>2 DEF StackInv
<1>5. \A k \in 2..Depth : Searching(k) => stack[k].mod # stack[1].mod
  <2>1. CASE Searching(1)
    <3>1. \A k \in 2..Depth : k # 1 /\ k \in 1..Depth
      BY <1>1
    <3> QED BY <1>1, <2>1, <3>1 DEF StackInv
  <2>2. CASE ~insearch[Top.mod]
    BY <1>1, <1>3, <2>2 DEF StackInv
  <2> QED BY <2>1, <2>2
<1>6. ASSUME NEW k \in 1..Depth, NEW l \in 1..Depth,
             Searching(k)', Searching(l)', stack'[k].mod = stack'[l].mod
      PROVE  k = l
  <2>1. CASE k = 1 \/ l = 1
    BY <1>3, <1>5, <1>6, <2>1
  <2>2. CASE k \in 2..Depth /\ l \in 2..Depth
    BY <1>3, <1>6, <2>2 DEF StackInv
  <2> QED BY <1>3, <2>1, <2>2
<1>7. ASSUME NEW m \in Module
      PROVE  insearch'[m] <=> \E k \in 1..Depth : Searching(k)' /\ stack'[k].mod = m
  <2>1. insearch[m] <=> \E k \in 1..Depth : Searching(k) /\ stack[k].mod = m
    BY DEF StackInv
  <2>2. CASE m = stack[1].mod
    <3>1. insearch'[m]
      BY <1>1, <2>1, <2>2 DEF Types
    <3> QED BY <1>1, <1>3, <2>2, <3>1
  <2>3. CASE m # stack[1].mod
    <3>1. insearch'[m] = insearch[m]
      BY <1>1, <2>3 DEF Types
    <3> QED BY <1>3, <2>1, <2>3, <3>1
  <2> QED BY <2>2, <2>3
<1> QED BY <1>2, <1>4, <1>6, <1>7 DEF StackInv

\* A search calls another one, which is not entered yet.
LEMMA CallInv ==
    ASSUME Types, StackInv, stack # <<>>, NEW f, NEW g, Called(g, f),
           f.mod = Top.mod, f.pc = "merge", g.pc = "enter",
           Searching(1), insearch' = insearch
    PROVE  StackInv'
<1>1. /\ Depth \in Nat \ {0} /\ 1 \in 1..Depth /\ Top = stack[1] /\ Top.mod \in Module
  BY StackShape DEF StackInv, FrameSet
<1>2. /\ stack' \in Seq(FrameSet) /\ Depth' = Depth + 1 /\ stack'[1] = g /\ stack'[2] = f
      /\ \A k \in 2..Depth : stack'[k+1] = stack[k]
  BY DEF Called
<1>3. ~Searching(1)'
  BY <1>2 DEF Searching
<1>4. ASSUME NEW k \in 2..Depth+1
      PROVE  /\ k - 1 \in 1..Depth /\ (Searching(k)' <=> Searching(k - 1))
             /\ stack'[k].mod = stack[k-1].mod /\ stack'[k].pc = "merge"
  <2>1. CASE k = 2
    <3>1. k - 1 = 1
      BY <2>1
    <3> QED BY <1>1, <1>2, <2>1, <3>1 DEF Searching
  <2>2. CASE k # 2
    <3>1. k - 1 \in 2..Depth /\ (k - 1) + 1 = k /\ k - 1 \in 1..Depth
      BY <1>1, <2>2
    <3>2. stack'[k] = stack[k-1]
      BY <1>2, <3>1
    <3> QED BY <3>1, <3>2 DEF Searching, StackInv
  <2> QED BY <2>1, <2>2
<1>5. \A k : k \in 1..Depth+1 <=> k = 1 \/ k \in 2..Depth+1
  BY <1>1
<1>6. ASSUME NEW k \in 1..Depth+1, NEW l \in 1..Depth+1,
             Searching(k)', Searching(l)', stack'[k].mod = stack'[l].mod
      PROVE  k = l
  <2>1. k \in 2..Depth+1 /\ l \in 2..Depth+1
    BY <1>3, <1>5, <1>6
  <2>2. k - 1 = l - 1
    BY <1>4, <1>6, <2>1 DEF StackInv
  <2> QED BY <2>1, <2>2
<1>7. ASSUME NEW m \in Module
      PROVE  insearch'[m] <=> \E k \in 1..Depth+1 : Searching(k)' /\ stack'[k].mod = m
  <2>1. insearch[m] <=> \E k \in 1..Depth : Searching(k) /\ stack[k].mod = m
    BY DEF StackInv
  <2>2. (\E k \in 1..Depth+1 : Searching(k)' /\ stack'[k].mod = m)
          <=> \E k \in 2..Depth+1 : Searching(k)' /\ stack'[k].mod = m
    BY <1>3, <1>5
  <2>3. (\E k \in 2..Depth+1 : Searching(k)' /\ stack'[k].mod = m)
          <=> \E k \in 2..Depth+1 : Searching(k - 1) /\ stack[k-1].mod = m
    BY <1>4
  <2>4. \A j \in 1..Depth : j + 1 \in 2..Depth+1 /\ (j + 1) - 1 = j
    BY <1>1
  <2>5. (\E k \in 2..Depth+1 : Searching(k - 1) /\ stack[k-1].mod = m)
          <=> \E j \in 1..Depth : Searching(j) /\ stack[j].mod = m
    <3>1. ASSUME NEW j \in 1..Depth, Searching(j), stack[j].mod = m
          PROVE  \E k \in 2..Depth+1 : Searching(k - 1) /\ stack[k-1].mod = m
      BY <2>4, <3>1
    <3> QED BY <1>4, <3>1
  <2> QED BY <2>1, <2>2, <2>3, <2>5
<1>8. \A k \in 2..Depth+1 : stack'[k].pc = "merge"
  BY <1>4
<1> QED BY <1>2, <1>6, <1>7, <1>8 DEF StackInv

\* The top search is of a module with symbols and imports.
LEMMA TopTypes ==
    ASSUME TypeInv, stack # <<>>
    PROVE  /\ Depth \in Nat \ {0} /\ Top = stack[1] /\ Top \in FrameSet
           /\ Top.mod \in Module /\ Top.ident \in Ident /\ Top.flags \in SUBSET Flag
           /\ Top.i \in Nat \ {0} /\ Top.symbol \in SUBSET Module /\ Top.errors \in Nat
           /\ imports[Top.mod] \in Seq(Import)
           /\ DOMAIN imports[Top.mod] = 1..Len(imports[Top.mod])
           /\ Len(imports[Top.mod]) \in Nat
           /\ \A i \in 1..Len(imports[Top.mod]) : /\ imports[Top.mod][i] \in Import
                                                 /\ imports[Top.mod][i].mod \in Module
<1>1. /\ Depth \in Nat \ {0} /\ Top = stack[1] /\ Top \in FrameSet
  BY StackShape DEF TypeInv, StackInv
<1>2. /\ Top.mod \in Module /\ Top.ident \in Ident /\ Top.flags \in SUBSET Flag
      /\ Top.i \in Nat \ {0} /\ Top.symbol \in SUBSET Module /\ Top.errors \in Nat
  BY <1>1 DEF FrameSet
<1>3. imports[Top.mod] \in Seq(Import)
  BY <1>2 DEF TypeInv, Types
<1>4. \A i \in 1..Len(imports[Top.mod]) : imports[Top.mod][i] \in Import
  BY <1>3, ElementOfSeq
<1>5. /\ DOMAIN imports[Top.mod] = 1..Len(imports[Top.mod])
      /\ Len(imports[Top.mod]) \in Nat
  BY <1>3, LenProperties
<1> QED BY <1>1, <1>2, <1>3, <1>4, <1>5 DEF Import

\* The flags a search is made with are flags.
LEMMA FlagTypes ==
    ASSUME NEW f \in SUBSET Flag
    PROVE  Effective(f) \in SUBSET Flag /\ Inherited(f) \in SUBSET Flag
  BY DEF Effective, Inherited, Flag

\* A new search is a frame.
LEMMA NewFrame ==
    ASSUME NEW m \in Module, NEW x \in Ident, NEW f \in SUBSET Flag
    PROVE  /\ Frame(m, x, f) \in FrameSet /\ Frame(m, x, f).pc = "enter"
           /\ Frame(m, x, f).mod = m /\ Frame(m, x, f).ident = x /\ Frame(m, x, f).flags = f
  BY DEF Frame, FrameSet, Pc

\* The frame of a search that was entered.
Begun(f, flags, e) == [f EXCEPT !.flags = flags, !.errors = e]

\* Entering a search sets its flags and remembers the errors.
LEMMA BegunFields ==
    ASSUME NEW f \in FrameSet, NEW flags \in SUBSET Flag, NEW e \in Nat
    PROVE  /\ Begun(f, flags, e) \in FrameSet
           /\ Begun(f, flags, e).mod = f.mod /\ Begun(f, flags, e).ident = f.ident
           /\ Begun(f, flags, e).flags = flags /\ Begun(f, flags, e).errors = e
           /\ Begun(f, flags, e).i = f.i
<1> DEFINE t == [f EXCEPT !.flags = flags]
<1>1. /\ t \in FrameSet /\ t.mod = f.mod /\ t.ident = f.ident /\ t.flags = flags
      /\ t.i = f.i
  BY DEF FrameSet
<1>2. Begun(f, flags, e) = [t EXCEPT !.errors = e]
  BY DEF Begun
<1> HIDE DEF t
<1> QED BY <1>1, <1>2 DEF FrameSet

\* The frame of a search that has gone past one import.
Next1(f) == [f EXCEPT !.i = @ + 1]

\* Going past an import changes the place in the list only.
LEMMA NextFields ==
    ASSUME NEW f \in FrameSet
    PROVE  /\ Next1(f) \in FrameSet /\ Next1(f).mod = f.mod /\ Next1(f).ident = f.ident
           /\ Next1(f).flags = f.flags /\ Next1(f).i = f.i + 1 /\ Next1(f).symbol = f.symbol
           /\ Next1(f).errors = f.errors
           /\ f.i \in Nat \ {0}
  BY DEF Next1, FrameSet

\* What SearchEnter does to the stack.
LEMMA EnterShape ==
    ASSUME TypeInv, SearchEnter
    PROVE  \E f \in FrameSet :
              /\ WentOn(f) /\ f.mod = Top.mod /\ f.ident = Top.ident
              /\ f.flags = Effective(Top.flags) /\ f.i = Top.i /\ f.errors = errors
              /\ LET here == /\ "SearchImportsOnly" \notin f.flags
                             /\ decl[f.mod][f.ident] # "none"
                 IN \/ here /\ f.pc = "leave" /\ f.symbol = {f.mod}
                    \/ ~here /\ f.pc = "scan" /\ f.symbol = {}
<1>1. /\ stack # <<>> /\ stack \in Seq(FrameSet) /\ Top \in FrameSet
      /\ Top.mod \in Module /\ Effective(Top.flags) \in SUBSET Flag /\ errors \in Nat
  BY TopTypes, FlagTypes DEF SearchEnter, At, TypeInv, StackInv, Types
<1> DEFINE b == Begun(Top, Effective(Top.flags), errors)
           here == "SearchImportsOnly" \notin Effective(Top.flags) /\ decl[Top.mod][Top.ident] # "none"
<1>2. /\ b \in FrameSet /\ b.mod = Top.mod /\ b.ident = Top.ident
      /\ b.flags = Effective(Top.flags) /\ b.i = Top.i /\ b.errors = errors
  BY <1>1, BegunFields
<1>3. \/ here /\ stack' = GoOn(b, "leave", {Top.mod})
      \/ ~here /\ stack' = GoOn(b, "scan", {})
  BY DEF SearchEnter, Begun
<1> HIDE DEF b
<1>4. ASSUME NEW pc \in Pc, NEW symbol \in SUBSET Module, stack' = GoOn(b, pc, symbol)
      PROVE  \E f \in FrameSet :
                /\ WentOn(f) /\ f.mod = Top.mod /\ f.ident = Top.ident
                /\ f.flags = Effective(Top.flags) /\ f.pc = pc /\ f.symbol = symbol
                /\ f.i = Top.i /\ f.errors = errors
  BY <1>1, <1>2, <1>4, GoneOn, GoingFields
<1>5. "leave" \in Pc /\ "scan" \in Pc /\ {Top.mod} \in SUBSET Module /\ {} \in SUBSET Module
  BY <1>1 DEF Pc
<1>6. CASE here /\ stack' = GoOn(b, "leave", {Top.mod})
  BY <1>4, <1>5, <1>6
<1>7. CASE ~here /\ stack' = GoOn(b, "scan", {})
  BY <1>4, <1>5, <1>7
<1> QED BY <1>3, <1>6, <1>7

\* What SearchImport does to the stack.
LEMMA ImportShape ==
    ASSUME TypeInv, SearchImport
    PROVE  LET entry == imports[Top.mod][Top.i] IN
           \E f \in FrameSet :
              /\ f.mod = Top.mod /\ f.ident = Top.ident /\ f.flags = Top.flags
              /\ f.i = Top.i + 1 /\ f.symbol = Top.symbol /\ f.errors = Top.errors
              /\ \/ Skipped(entry, Top.flags) /\ f.pc = "scan" /\ WentOn(f)
                 \/ /\ ~Skipped(entry, Top.flags) /\ f.pc = "merge"
                    /\ Called(Frame(entry.mod, Top.ident, Inherited(Top.flags)), f)
<1> DEFINE entry == imports[Top.mod][Top.i]
           called == Frame(entry.mod, Top.ident, Inherited(Top.flags))
           next == Next1(Top)
<1>1. stack # <<>> /\ stack \in Seq(FrameSet)
  BY DEF SearchImport, At, TypeInv, StackInv
<1>2. /\ Top \in FrameSet /\ Top.ident \in Ident /\ Inherited(Top.flags) \in SUBSET Flag
      /\ Top.symbol \in SUBSET Module /\ entry.mod \in Module
  BY <1>1, TopTypes, FlagTypes DEF SearchImport
<1>3. called \in FrameSet
  BY <1>2, NewFrame
<1>4. /\ next \in FrameSet /\ next.mod = Top.mod /\ next.ident = Top.ident
      /\ next.flags = Top.flags /\ next.i = Top.i + 1 /\ next.errors = Top.errors
  BY <1>2, NextFields
<1>5. \/ Skipped(entry, Top.flags) /\ stack' = GoOn(next, "scan", Top.symbol)
      \/ ~Skipped(entry, Top.flags) /\ stack' = <<called>> \o GoOn(next, "merge", Top.symbol)
  BY DEF SearchImport, Next1
<1> HIDE DEF next, called
<1>6. "scan" \in Pc /\ "merge" \in Pc
  BY DEF Pc
<1>7. CASE Skipped(entry, Top.flags) /\ stack' = GoOn(next, "scan", Top.symbol)
  <2> DEFINE f == Going(next, "scan", Top.symbol)
  <2>1. /\ f \in FrameSet /\ f.mod = Top.mod /\ f.ident = Top.ident /\ f.flags = Top.flags
        /\ f.i = Top.i + 1 /\ f.symbol = Top.symbol /\ f.pc = "scan"
        /\ f.errors = Top.errors
    BY <1>2, <1>4, <1>6, GoingFields
  <2>2. WentOn(f)
    BY <1>1, <1>2, <1>4, <1>6, <1>7, GoneOn
  <2> HIDE DEF f
  <2> QED BY <1>7, <2>1, <2>2
<1>8. CASE ~Skipped(entry, Top.flags) /\ stack' = <<called>> \o GoOn(next, "merge", Top.symbol)
  <2> DEFINE f == Going(next, "merge", Top.symbol)
  <2>1. /\ f \in FrameSet /\ f.mod = Top.mod /\ f.ident = Top.ident /\ f.flags = Top.flags
        /\ f.i = Top.i + 1 /\ f.symbol = Top.symbol /\ f.pc = "merge"
        /\ f.errors = Top.errors
    BY <1>2, <1>4, <1>6, GoingFields
  <2>2. Called(called, f)
    BY <1>1, <1>2, <1>3, <1>4, <1>6, <1>8, CallShape
  <2> HIDE DEF f
  <2> QED BY <1>8, <2>1, <2>2 DEF called
<1> QED BY <1>5, <1>7, <1>8

\* The call that returned to f brought something that f may see, and f can take it.
Brought(f) == ret # {} /\ Visible(ret, f.ident, f.flags) /\ ret # f.symbol
Agrees(f) == f.symbol = {} \/ Overloadable(ret \cup f.symbol, f.ident)

\* What SearchMerge does to the stack, and what it takes from the import.
LEMMA MergeShape ==
    ASSUME TypeInv, SearchMerge
    PROVE  \E f \in FrameSet :
              /\ WentOn(f) /\ f.mod = Top.mod /\ f.ident = Top.ident /\ f.flags = Top.flags
              /\ f.i = Top.i /\ f.errors = Top.errors
              /\ f.pc = IF Brought(Top) /\ ~Agrees(Top) THEN "found" ELSE "scan"
              /\ f.symbol = IF Brought(Top) /\ Agrees(Top) THEN Top.symbol \cup ret
                                                           ELSE Top.symbol
<1> DEFINE pc == IF Brought(Top) /\ ~Agrees(Top) THEN "found" ELSE "scan"
           symbol == IF Brought(Top) /\ Agrees(Top) THEN Top.symbol \cup ret ELSE Top.symbol
           f == Going(Top, pc, symbol)
<1>1. stack # <<>> /\ stack \in Seq(FrameSet)
  BY DEF SearchMerge, At, TypeInv, StackInv
<1>2. /\ Top \in FrameSet /\ Top.symbol \in SUBSET Module /\ ret \in SUBSET Module
  BY <1>1, TopTypes DEF TypeInv, Types
<1>3. pc \in Pc /\ symbol \in SUBSET Module
  BY <1>2 DEF Pc
<1>4. stack' = GoOn(Top, pc, symbol)
  BY DEF SearchMerge, Brought, Agrees
<1>5. pc = (IF Brought(Top) /\ ~Agrees(Top) THEN "found" ELSE "scan")
  OBVIOUS
<1>6. symbol = (IF Brought(Top) /\ Agrees(Top) THEN Top.symbol \cup ret ELSE Top.symbol)
  OBVIOUS
<1> HIDE DEF pc, symbol
<1>7. WentOn(f)
  BY <1>1, <1>2, <1>3, <1>4, GoneOn
<1>8. /\ f \in FrameSet /\ f.mod = Top.mod /\ f.ident = Top.ident /\ f.flags = Top.flags
      /\ f.i = Top.i /\ f.errors = Top.errors /\ f.pc = pc /\ f.symbol = symbol
  BY <1>2, <1>3, GoingFields
<1> HIDE DEF f
<1> QED BY <1>5, <1>6, <1>7, <1>8

\* What SearchFound does to the stack.
LEMMA FoundShape ==
    ASSUME TypeInv, SearchFound
    PROVE  \E f \in FrameSet :
              /\ WentOn(f) /\ f.mod = Top.mod /\ f.ident = Top.ident /\ f.flags = Top.flags
              /\ f.pc = "leave" /\ f.symbol = Top.symbol
              /\ f.i = Top.i /\ f.errors = Top.errors
<1>1. stack # <<>> /\ stack \in Seq(FrameSet)
  BY DEF SearchFound, At, TypeInv, StackInv
<1>2. /\ Top \in FrameSet /\ Top.symbol \in SUBSET Module /\ "leave" \in Pc
  BY <1>1, TopTypes DEF Pc
<1> DEFINE f == Going(Top, "leave", Top.symbol)
<1>3. stack' = GoOn(Top, "leave", Top.symbol)
  BY DEF SearchFound
<1>4. WentOn(f)
  BY <1>1, <1>2, <1>3, GoneOn
<1>5. /\ f \in FrameSet /\ f.mod = Top.mod /\ f.ident = Top.ident /\ f.flags = Top.flags
      /\ f.pc = "leave" /\ f.symbol = Top.symbol
      /\ f.i = Top.i /\ f.errors = Top.errors
  BY <1>2, GoingFields
<1> HIDE DEF f
<1> QED BY <1>4, <1>5

(***************************************************************************)
(* Every step keeps the types and the searches in progress.                 *)
(***************************************************************************)

\* A stack with one search that is not entered yet, or with none.
LEMMA FreshStack ==
    ASSUME StackInv, stack = <<>>, insearch' = insearch,
           \/ stack' = <<>>
           \/ \E g \in FrameSet : g.pc = "enter" /\ stack' = <<g>>
    PROVE  StackInv'
<1>1. \A m \in Module : ~insearch[m]
  <2>1. Depth = 0
    BY EmptySeq DEF Depth
  <2> QED BY <2>1 DEF StackInv
<1>2. CASE stack' = <<>>
  <2>1. stack' \in Seq(FrameSet) /\ Depth' = 0
    BY <1>2, EmptySeq DEF Depth
  <2> QED BY <1>1, <2>1 DEF StackInv
<1>3. CASE \E g \in FrameSet : g.pc = "enter" /\ stack' = <<g>>
  <2>1. PICK g \in FrameSet : g.pc = "enter" /\ stack' = <<g>>
    BY <1>3
  <2>2. stack' \in Seq(FrameSet) /\ Depth' = 1 /\ stack'[1] = g
    BY <2>1 DEF Depth
  <2>3. \A k \in 1..1 : ~Searching(k)'
    BY <2>1, <2>2 DEF Searching
  <2> QED BY <1>1, <2>2, <2>3 DEF StackInv
<1> QED BY <1>2, <1>3

\* A function on 1..n is a sequence.
LEMMA FunctionSeq ==
    ASSUME NEW S, NEW n \in Nat, NEW f \in [1..n -> S]
    PROVE  f \in Seq(S)
  BY SeqDef

\* The tries of a lookup are sets of flags.
LEMMA TriesTypes ==
    ASSUME NEW more \in {{}, {"IgnoreErrors"}}, NEW m, NEW k
    PROVE  /\ Unqualified(more) \in Seq(SUBSET Flag) /\ Len(Unqualified(more)) > 0
           /\ Qualified(m, k) \in Seq(SUBSET Flag) /\ Len(Qualified(m, k)) > 0
<1>1. Unqualified(more) \in Seq(SUBSET Flag) /\ Len(Unqualified(more)) = 4
  <2> DEFINE four == <<{"SearchLocalsOnly"}, {"SearchImportsOnly"},
                       {"SearchLocalsOnly", "IgnoreSymbolVisibility"},
                       {"SearchImportsOnly", "IgnoreSymbolVisibility"}>>
  <2>1. \A t \in 1..4 : four[t] \subseteq Flag
    BY DEF Flag
  <2> HIDE DEF four
  <2>2. \A t \in 1..4 : more \cup {"SearchUnqualifiedModule"} \cup four[t] \in SUBSET Flag
    BY <2>1 DEF Flag
  <2>3. Unqualified(more) = [t \in 1..4 |-> more \cup {"SearchUnqualifiedModule"} \cup four[t]]
    BY DEF Unqualified, four
  <2>4. Unqualified(more) \in [1..4 -> SUBSET Flag]
    BY <2>2, <2>3
  <2>5. Unqualified(more) \in Seq(SUBSET Flag)
    BY <2>4, FunctionSeq
  <2>6. DOMAIN Unqualified(more) = 1..4
    BY <2>4
  <2>7. /\ Len(Unqualified(more)) \in Nat
        /\ DOMAIN Unqualified(more) = 1..Len(Unqualified(more))
    BY <2>5, LenProperties
  <2> QED BY <2>5, <2>6, <2>7
<1>2. Qualified(m, k) \in Seq(SUBSET Flag) /\ Len(Qualified(m, k)) = 1
  BY DEF Qualified, Flag
<1> QED BY <1>1, <1>2

\* Beginning a lookup keeps the types if the caches keep theirs.
LEMMA StartTypes ==
    ASSUME Types, LookupInv, NEW m, NEW x, NEW tries, Start(m, x, tries),
           cache' \in [Module -> [ident : Ident \cup {NoIdent}, flags : SUBSET Flag,
                                 symbol : SUBSET Module]],
           stale' \subseteq stale
    PROVE  Types'
<1>1. /\ UNCHANGED <<decl, imports, pending, insearch, ret, errors, bound, changed>>
      /\ lookups' = lookups + 1 /\ lookups < bound.lookups
  BY DEF Start
<1>2. lookups' \in 0..bound'.lookups
  BY <1>1 DEF Types, LookupInv
<1> QED BY <1>1, <1>2 DEF Types

\* Adding an import to a list of imports gives a list of imports.
LEMMA ImportedTypes ==
    ASSUME NEW list \in Seq(Import), NEW new \in Import
    PROVE  Imported(list, new) \in Seq(Import)
<1> DEFINE old == {i \in DOMAIN list : list[i].mod = new.mod}
           more == [i \in DOMAIN list |->
                      IF i \in old THEN [list[i] EXCEPT !.public = @ \/ new.public] ELSE list[i]]
<1>1. Len(list) \in Nat /\ DOMAIN list = 1..Len(list)
  BY LenProperties
<1>2. \A i \in DOMAIN list : list[i] \in Import
  BY <1>1, ElementOfSeq
<1>3. \A i \in DOMAIN list : [list[i] EXCEPT !.public = @ \/ new.public] \in Import
  BY <1>2 DEF Import
<1>4. more \in [1..Len(list) -> Import]
  BY <1>1, <1>2, <1>3
<1>5. more \in Seq(Import)
  BY <1>1, <1>4, SeqDef
<1>6. Append(list, new) \in Seq(Import)
  OBVIOUS
<1>7. Imported(list, new) = IF old = {} THEN Append(list, new) ELSE more
  BY DEF Imported
<1> HIDE DEF more, old
<1> QED BY <1>5, <1>6, <1>7

\* A lookup begins with a search that is not entered yet.
LEMMA StartKeepsTypes ==
    ASSUME TypeInv, NEW m \in Module, NEW x \in bound.idents, NEW tries \in Seq(SUBSET Flag),
           Len(tries) > 0, Start(m, x, tries), Types'
    PROVE  TypeInv'
<1>1. x \in Ident /\ 1 \in 1..Len(tries) /\ Len(tries) \in Nat
  BY LenProperties DEF TypeInv, LookupInv
<1>2. tries[1] \in SUBSET Flag
  BY <1>1, ElementOfSeq
<1>3. stack = <<>> /\ insearch' = insearch /\ bound' = bound /\ stack' = <<Frame(m, x, tries[1])>>
  BY DEF Start, Idle
<1>4. StackInv'
  BY <1>1, <1>2, <1>3, NewFrame, FreshStack DEF TypeInv
<1>5. lookup' = [mod |-> m, ident |-> x, tries |-> tries, try |-> 1, errors |-> errors,
                 changes |-> Len(changed)]
  BY DEF Start
<1>6. LookupInv'
  BY <1>1, <1>3, <1>5 DEF TypeInv, LookupInv
<1> QED BY <1>4, <1>6 DEF TypeInv

\* A change more is recorded after those before.
LEMMA ChangedMore ==
    ASSUME changed \in Seq(Module), NEW m \in Module, changed' = Append(changed, m)
    PROVE  /\ Len(changed) \in Nat /\ Len(changed') = Len(changed) + 1
           /\ \A n \in DOMAIN changed : n \in DOMAIN changed' /\ changed'[n] = changed[n]
           /\ \E n \in DOMAIN changed' : changed'[n] = m
<1>1. /\ Len(changed) \in Nat /\ DOMAIN changed = 1..Len(changed)
      /\ Len(changed') = Len(changed) + 1 /\ DOMAIN changed' = 1..Len(changed)+1
      /\ \A n \in 1..Len(changed) : changed'[n] = changed[n]
      /\ changed'[Len(changed)+1] = m
  BY AppendProperties, LenProperties
<1> QED BY <1>1

\* Every step keeps the types.
LEMMA TypeInvInductive == TypeInv /\ [Next]_vars => TypeInv'
<1> SUFFICES ASSUME TypeInv, [Next]_vars PROVE TypeInv'
  OBVIOUS
<1>0. /\ Types /\ StackInv /\ LookupInv /\ stack \in Seq(FrameSet) /\ errors \in Nat
  BY DEF TypeInv, StackInv, Types
<1>1. CASE SearchAtOnce
  <2>1. /\ stack # <<>> /\ stack' = Tail(stack) /\ Top.pc = "enter" /\ insearch' = insearch
        /\ \/ ret' = {}
           \/ ret' = cache[Top.mod].symbol
        /\ UNCHANGED <<decl, imports, pending, cache, insearch, errors, lookup, lookups, bound, changed,
                       stale>>
    BY <1>1 DEF SearchAtOnce, At
  <2>2. Top = stack[1] /\ Top.mod \in Module
    BY <2>1, TopTypes
  <2>3. ret' \in SUBSET Module
    BY <1>0, <2>1, <2>2 DEF Types
  <2>4. StackInv'
    BY <1>0, <2>1, <2>2, PopShape, PopInv DEF Searching
  <2> QED BY <1>0, <2>1, <2>3, <2>4 DEF TypeInv, Types, LookupInv
<1>2. CASE SearchEnter
  <2>1. /\ stack # <<>> /\ ~insearch[Top.mod] /\ insearch' = [insearch EXCEPT ![Top.mod] = TRUE]
        /\ UNCHANGED <<decl, imports, pending, cache, ret, errors, lookup, lookups, bound, changed,
                       stale>>
    BY <1>2 DEF SearchEnter, At, InSearch
  <2>2. PICK f \in FrameSet : WentOn(f) /\ f.mod = Top.mod /\ f.pc # "enter"
    BY <1>2, EnterShape
  <2>3. StackInv'
    BY <1>0, <2>1, <2>2, GoOnInv
  <2>4. insearch' \in [Module -> BOOLEAN]
    BY <1>0, <2>1 DEF Types
  <2> QED BY <1>0, <2>1, <2>3, <2>4 DEF TypeInv, Types, LookupInv
<1>3. CASE SearchImport
  <2>1. /\ stack # <<>> /\ Top.pc = "scan" /\ Top = stack[1] /\ Top.mod \in Module /\ Top.ident \in Ident
        /\ Top.flags \in SUBSET Flag
        /\ UNCHANGED <<decl, imports, pending, cache, insearch, ret, errors, lookup, lookups, bound, changed,
                       stale>>
    BY <1>3, TopTypes DEF SearchImport, At
  <2> DEFINE entry == imports[Top.mod][Top.i]
             called == Frame(entry.mod, Top.ident, Inherited(Top.flags))
  <2>2. PICK f \in FrameSet : /\ f.mod = Top.mod
                              /\ \/ f.pc = "scan" /\ WentOn(f)
                                 \/ f.pc = "merge" /\ Called(called, f)
    BY <1>3, ImportShape
  <2>3. entry.mod \in Module
    BY <1>3, <2>1, TopTypes DEF SearchImport
  <2>4. called.pc = "enter"
    BY DEF Frame
  <2>5. StackInv'
    <3>1. CASE f.pc = "scan" /\ WentOn(f)
      BY <1>0, <2>1, <2>2, <3>1, GoOnInv DEF Searching
    <3>2. CASE f.pc = "merge" /\ Called(called, f)
      BY <1>0, <2>1, <2>2, <2>4, <3>2, CallInv DEF Searching
    <3> QED BY <2>2, <3>1, <3>2
  <2> QED BY <1>0, <2>1, <2>5 DEF TypeInv, Types, LookupInv
<1>4. CASE SearchMerge
  <2>1. /\ stack # <<>> /\ Top.pc = "merge" /\ Top = stack[1]
        /\ errors' \in Nat
        /\ UNCHANGED <<decl, imports, pending, cache, insearch, ret, lookup, lookups, bound, changed,
                       stale>>
    BY <1>0, <1>4, TopTypes DEF SearchMerge, At
  <2>2. PICK f \in FrameSet :
            /\ WentOn(f) /\ f.mod = Top.mod
            /\ f.pc = IF Brought(Top) /\ ~Agrees(Top) THEN "found" ELSE "scan"
    BY <1>4, MergeShape
  <2>3. StackInv'
    BY <1>0, <2>1, <2>2, GoOnInv DEF Searching
  <2> QED BY <1>0, <2>1, <2>3 DEF TypeInv, Types, LookupInv
<1>5. CASE SearchFound
  <2>1. /\ stack # <<>> /\ Top.pc # "enter" /\ Top = stack[1]
        /\ errors' \in Nat
        /\ UNCHANGED <<decl, imports, pending, cache, insearch, ret, lookup, lookups, bound, changed,
                       stale>>
    BY <1>0, <1>5, TopTypes DEF SearchFound, At
  <2>2. PICK f \in FrameSet : WentOn(f) /\ f.mod = Top.mod /\ f.pc # "enter"
    BY <1>5, FoundShape
  <2>3. StackInv'
    BY <1>0, <2>1, <2>2, GoOnInv DEF Searching
  <2> QED BY <1>0, <2>1, <2>3 DEF TypeInv, Types, LookupInv
<1>6. CASE SearchLeave
  <2>1. /\ stack # <<>> /\ Top.pc = "leave" /\ Top = stack[1] /\ Top.mod \in Module
        /\ Top.ident \in Ident /\ Top.flags \in SUBSET Flag /\ Top.symbol \in SUBSET Module
        /\ insearch' = [insearch EXCEPT ![Top.mod] = FALSE]
        /\ ret' = Top.symbol /\ stack' = Tail(stack)
        /\ \/ cache' = cache
           \/ cache' = [cache EXCEPT ![Top.mod] = [ident |-> Top.ident, flags |-> Top.flags,
                                                   symbol |-> Top.symbol]]
        /\ stale' \subseteq stale
        /\ UNCHANGED <<decl, imports, pending, errors, lookup, lookups, bound, changed>>
    BY <1>6, TopTypes DEF SearchLeave, At, Cache
  <2>2. StackInv'
    BY <1>0, <2>1, PopShape, PopInv DEF Searching
  <2>3. Types'
    <3> DEFINE new == [ident |-> Top.ident, flags |-> Top.flags, symbol |-> Top.symbol]
    <3>1. new \in [ident : Ident \cup {NoIdent}, flags : SUBSET Flag, symbol : SUBSET Module]
      BY <2>1
    <3>2. cache' = cache \/ cache' = [cache EXCEPT ![Top.mod] = new]
      BY <2>1
    <3> HIDE DEF new
    <3>3. cache' \in [Module -> [ident : Ident \cup {NoIdent}, flags : SUBSET Flag,
                                 symbol : SUBSET Module]]
      BY <1>0, <2>1, <3>1, <3>2 DEF Types
    <3>4. insearch' \in [Module -> BOOLEAN]
      BY <1>0, <2>1 DEF Types
    <3> QED BY <1>0, <2>1, <3>3, <3>4 DEF Types
  <2> QED BY <1>0, <2>1, <2>2, <2>3 DEF TypeInv, LookupInv
<1>7. CASE LookupNext
  <2> DEFINE t == lookup.try + 1
             again == ret = {} /\ t <= Len(lookup.tries)
  <2>1. /\ stack = <<>> /\ lookup.try # 0
        /\ lookup' = [lookup EXCEPT !.try = IF again THEN t ELSE 0]
        /\ stack' = IF again THEN <<Frame(lookup.mod, lookup.ident, lookup.tries[t])>> ELSE <<>>
        /\ UNCHANGED <<decl, imports, pending, cache, insearch, ret, errors, lookups, bound, changed,
                       stale>>
    BY <1>7 DEF LookupNext
  <2>2. /\ lookup.mod \in Module /\ lookup.ident \in Ident /\ Len(lookup.tries) \in Nat
        /\ lookup.tries \in Seq(SUBSET Flag) /\ lookup.try \in 0..Len(lookup.tries)
    BY <1>0, <2>1, LenProperties DEF LookupInv
  <2>3. again => /\ t \in 1..Len(lookup.tries) /\ lookup.tries[t] \in SUBSET Flag
    BY <2>1, <2>2, ElementOfSeq
  <2>4. StackInv'
    <3>1. CASE again
      BY <1>0, <2>1, <2>2, <2>3, <3>1, NewFrame, FreshStack
    <3>2. CASE ~again
      BY <1>0, <2>1, <3>2, FreshStack
    <3> QED BY <3>1, <3>2
  <2>5. LookupInv'
    <3>1. /\ lookup'.mod = lookup.mod /\ lookup'.ident = lookup.ident
          /\ lookup'.tries = lookup.tries /\ lookup'.try = IF again THEN t ELSE 0
      BY <2>1
    <3> HIDE DEF t, again
    <3>2. again => t \in 0..Len(lookup.tries) /\ t # 0
      BY <2>2, <2>3
    <3> QED BY <1>0, <2>1, <2>2, <3>1, <3>2 DEF LookupInv
  <2> QED BY <1>0, <2>1, <2>4, <2>5 DEF TypeInv, Types
<1>8. CASE \E m \in Module, x \in bound.idents : LookupUnqualified(m, x)
  <2>1. PICK m \in Module, x \in bound.idents : LookupUnqualified(m, x)
    BY <1>8
  <2>2. {} \in SUBSET Flag /\ Start(m, x, Unqualified({}))
        /\ cache' = cache /\ stale' = stale
    BY <2>1 DEF LookupUnqualified
  <2>3. Unqualified({}) \in Seq(SUBSET Flag) /\ Len(Unqualified({})) > 0
    BY TriesTypes
  <2>4. Types'
    BY <1>0, <2>2, StartTypes DEF Types
  <2> QED BY <2>2, <2>3, <2>4, StartKeepsTypes
<1>9. CASE \E m, k \in Module, x \in bound.idents : LookupQualified(m, k, x)
  <2>1. PICK m \in Module, k \in Module, x \in bound.idents : LookupQualified(m, k, x)
    BY <1>9
  <2>2. Start(m, x, Qualified(m, k)) /\ cache' = cache /\ stale' = stale
    BY <2>1 DEF LookupQualified
  <2>3. Qualified(m, k) \in Seq(SUBSET Flag) /\ Len(Qualified(m, k)) > 0
    BY TriesTypes
  <2>4. Types'
    BY <1>0, <2>2, StartTypes DEF Types
  <2> QED BY <2>2, <2>3, <2>4, StartKeepsTypes
<1>10. CASE \E x \in bound.idents : Suggest(x)
  <2>1. PICK x \in bound.idents : Suggest(x)
    BY <1>10
  <2>2. /\ {"IgnoreErrors"} \in SUBSET Flag /\ Start(lookup.mod, x, Unqualified({"IgnoreErrors"}))
        /\ cache' = [m \in Module |-> [cache[m] EXCEPT !.ident = NoIdent]]
        /\ lookup.mod \in Module /\ stale' = {}
    BY <1>0, <2>1 DEF Suggest, Flag, LookupInv
  <2>3. Unqualified({"IgnoreErrors"}) \in Seq(SUBSET Flag) /\ Len(Unqualified({"IgnoreErrors"})) > 0
    BY TriesTypes
  <2>4. Types'
    <3>1. cache' \in [Module -> [ident : Ident \cup {NoIdent}, flags : SUBSET Flag,
                                 symbol : SUBSET Module]]
      BY <1>0, <2>2 DEF Types
    <3> QED BY <1>0, <2>2, <3>1, StartTypes
  <2> QED BY <2>2, <2>3, <2>4, StartKeepsTypes
<1>11. ASSUME NEW m \in Module, Change(m),
              decl' \in [Module -> [Ident -> Kind]], imports' \in [Module -> Seq(Import)],
              pending' \in [Module -> SUBSET Import],
              \/ Invalidate(m)
              \/ cache' = cache /\ stale' \subseteq stale \cup {m}
       PROVE  TypeInv'
  <2>1. /\ stack = <<>> /\ changed' = Append(changed, m)
        /\ UNCHANGED <<insearch, stack, ret, errors, lookup, lookups, bound>>
        /\ cache' = [cache EXCEPT ![m].ident = NoIdent] \/ cache' = cache
        /\ stale' \subseteq stale \cup {m}
    BY <1>11 DEF Change, Idle, Invalidate
  <2>2. cache' \in [Module -> [ident : Ident \cup {NoIdent}, flags : SUBSET Flag,
                               symbol : SUBSET Module]]
    <3>1. cache[m] \in [ident : Ident \cup {NoIdent}, flags : SUBSET Flag, symbol : SUBSET Module]
      BY <1>0 DEF Types
    <3>2. [cache[m] EXCEPT !.ident = NoIdent]
             \in [ident : Ident \cup {NoIdent}, flags : SUBSET Flag, symbol : SUBSET Module]
      BY <3>1
    <3> QED BY <1>0, <2>1, <3>2 DEF Types
  <2>3. /\ changed' \in Seq(Module)
        /\ stale' \subseteq {changed'[n] : n \in DOMAIN changed'}
    <3>1. changed' \in Seq(Module)
      BY <1>0, <2>1 DEF Types
    <3>2. \A k \in {changed[n] : n \in DOMAIN changed} \cup {m} :
             k \in {changed'[n] : n \in DOMAIN changed'}
      BY <1>0, <2>1, ChangedMore DEF Types
    <3> QED BY <1>0, <2>1, <3>1, <3>2 DEF Types
  <2>4. StackInv'
    BY <1>0, <2>1, FreshStack
  <2> QED BY <1>0, <1>11, <2>1, <2>2, <2>3, <2>4 DEF TypeInv, Types, LookupInv
<1>12. CASE \E m \in Module, x \in bound.idents, kind \in {"variable", "function"} :
               SymtabInsert(m, x, kind)
  <2>1. PICK m \in Module, x \in bound.idents, kind \in {"variable", "function"} :
                SymtabInsert(m, x, kind)
    BY <1>12
  <2>2. /\ Change(m) /\ Invalidate(m) /\ imports' = imports /\ pending' = pending
        /\ decl' = [decl EXCEPT ![m][x] = kind] /\ kind \in Kind /\ x \in Ident
    BY <1>0, <2>1 DEF SymtabInsert, Kind, LookupInv
  <2>3. decl' \in [Module -> [Ident -> Kind]]
    BY <1>0, <2>2 DEF Types
  <2> QED BY <1>0, <1>11, <2>2, <2>3 DEF Types
<1>13. CASE \E m \in Module, new \in Import : ImportMember(m, new)
  <2>1. PICK m \in Module, new \in Import : ImportMember(m, new)
    BY <1>13
  <2>2. /\ Change(m) /\ Invalidate(m) /\ decl' = decl /\ imports' = imports
        /\ pending' = [pending EXCEPT ![m] = @ \cup {new}]
    BY <2>1 DEF ImportMember
  <2>3. pending' \in [Module -> SUBSET Import]
    BY <1>0, <2>2 DEF Types
  <2> QED BY <1>0, <1>11, <2>2, <2>3 DEF Types
<1>15. CASE \E m \in Module, new \in Import : ImportScope(m, new)
  <2>1. PICK m \in Module, new \in Import : ImportScope(m, new)
    BY <1>15
  <2>2. /\ Change(m) /\ decl' = decl /\ cache' = cache /\ stale' \subseteq stale \cup {m}
        /\ imports' = [imports EXCEPT ![m] = Imported(imports[m], new)]
        /\ pending' = [pending EXCEPT ![m] = @ \ {new}]
    BY <2>1 DEF ImportScope
  <2>3. imports' \in [Module -> Seq(Import)]
    BY <1>0, <2>2, ImportedTypes DEF Types
  <2>4. pending' \in [Module -> SUBSET Import]
    BY <1>0, <2>2 DEF Types
  <2> QED BY <1>0, <1>11, <2>2, <2>3, <2>4 DEF Types
<1>14. CASE UNCHANGED vars
  <2>1. stack' = stack /\ insearch' = insearch /\ Depth' = Depth
    BY <1>14 DEF vars, Depth
  <2>2. StackInv'
    BY <1>0, <2>1 DEF StackInv, Searching
  <2> QED BY <1>0, <1>14, <2>2 DEF TypeInv, Types, LookupInv, vars
<1> QED
  BY <1>1, <1>2, <1>3, <1>4, <1>5, <1>6, <1>7, <1>8, <1>9, <1>10, <1>12, <1>13, <1>14, <1>15
     DEF Next, Search, Finished

\* At the start nothing is looked up.
LEMMA TypeInvInit == Init => TypeInv
<1> SUFFICES ASSUME Init PROVE TypeInv
  OBVIOUS
<1>1. PICK p \in Programs : decl = p.decl /\ imports = p.imports /\ bound = p.bound
  BY DEF Init
<1>2. /\ decl \in [Module -> [Ident -> Kind]] /\ imports \in [Module -> Seq(Import)]
      /\ bound.lookups \in Nat /\ bound.changes \in Nat /\ bound.idents \subseteq Ident
  BY <1>1, ProgramsAssumption
<1>3. /\ cache = [m \in Module |-> NoCache] /\ insearch = [m \in Module |-> FALSE]
      /\ stack = <<>> /\ ret = {} /\ errors = 0 /\ lookups = 0 /\ changed = <<>>
      /\ stale = {} /\ pending = [m \in Module |-> {}]
      /\ lookup = [mod |-> CHOOSE m \in Module : TRUE, ident |-> NoIdent,
                   tries |-> <<>>, try |-> 0, errors |-> 0, changes |-> 0]
  BY DEF Init
<1>4. NoCache \in [ident : Ident \cup {NoIdent}, flags : SUBSET Flag, symbol : SUBSET Module]
  BY DEF NoCache
<1>5. Types
  <2>1. changed \in Seq(Module) /\ lookups \in 0..bound.lookups
    BY <1>2, <1>3, EmptySeq
  <2> QED BY <1>2, <1>3, <1>4, <2>1 DEF Types
<1>6. StackInv
  <2>1. stack \in Seq(FrameSet) /\ Depth = 0
    BY <1>3, EmptySeq DEF Depth
  <2> QED BY <1>3, <2>1 DEF StackInv
<1>7. LookupInv
  <2>1. (CHOOSE m \in Module : TRUE) \in Module
    BY ModuleAssumption
  <2>2. lookup.tries \in Seq(SUBSET Flag) /\ Len(lookup.tries) = 0
    BY <1>3, EmptySeq
  <2> QED BY <1>2, <1>3, <2>1, <2>2 DEF LookupInv
<1> QED BY <1>5, <1>6, <1>7 DEF TypeInv

\* Of the searches of a module one at most was entered, as insearch says.
LEMMA OneSearchEach ==
    ASSUME TypeInv, NEW m \in Module
    PROVE  Cardinality({n \in DOMAIN stack : stack[n].mod = m /\ stack[n].pc # "enter"})
             = IF insearch[m] THEN 1 ELSE 0
<1> DEFINE open == {n \in DOMAIN stack : stack[n].mod = m /\ stack[n].pc # "enter"}
<1>1. DOMAIN stack = 1..Depth
  BY LenProperties DEF TypeInv, StackInv, Depth
<1>2. insearch[m] <=> \E k \in 1..Depth : Searching(k) /\ stack[k].mod = m
  BY DEF TypeInv, StackInv
<1>3. CASE insearch[m]
  <2>1. PICK k \in 1..Depth : Searching(k) /\ stack[k].mod = m
    BY <1>2, <1>3
  <2>2. open = {k}
    BY <1>1, <2>1 DEF TypeInv, StackInv, Searching
  <2> QED BY <1>3, <2>2, FS_Singleton
<1>4. CASE ~insearch[m]
  <2>1. open = {}
    BY <1>1, <1>2, <1>4 DEF Searching
  <2> QED BY <1>4, <2>1, FS_EmptySet
<1> QED BY <1>3, <1>4

\* The searches in progress are those insearch says (dmodule.d:1038, 1054), one
\* for each module however the modules import each other.
THEOREM TypeCorrect == Spec => []TypeOK
<1>1. TypeInv => TypeOK
  BY OneSearchEach DEF TypeInv, Types, TypeOK
<1> QED BY <1>1, TypeInvInit, TypeInvInductive, PTL DEF Spec

(***************************************************************************)
(* What is cached is meant.  The searches in progress form a chain: each    *)
(* waits for what its current import contributes, so what a search returns, *)
(* complete or cut off by a cycle, is part of what the one below it may     *)
(* take.                                                                    *)
(***************************************************************************)

\* The search of m goes through its imports.
FromImports(m, x, flags) == "SearchImportsOnly" \in flags \/ decl[m][x] = "none"

FrameMeant(f) ==
    /\ f.pc # "enter" => f.symbol \subseteq Meant(f.mod, f.ident, f.flags)
    /\ f.pc \in {"scan", "merge"} => FromImports(f.mod, f.ident, f.flags)
    /\ f.pc = "merge" => /\ f.i - 1 \in DOMAIN imports[f.mod]
                         /\ ~Skipped(imports[f.mod][f.i - 1], f.flags)

\* The import that a waiting search has called.
Awaited(f) == imports[f.mod][f.i - 1].mod

\* g is the search called by f.
CalledBy(g, f) ==
    g.mod = Awaited(f) /\ g.ident = f.ident /\ g.flags = Inherited(f.flags)

\* What f may take from the search it called.
Offer(f) == Meant(Awaited(f), f.ident, Inherited(f.flags))

StackMeant ==
    /\ \A k \in 1..Depth : FrameMeant(stack[k])
    /\ \A k \in 2..Depth : CalledBy(stack[k-1], stack[k])
    /\ At("merge") => ret \subseteq Offer(Top)

CacheMeant == \A m \in Module : cache[m].ident # NoIdent =>
                  cache[m].symbol \subseteq Meant(m, cache[m].ident, cache[m].flags)

MeantInv == changed = <<>> => CacheMeant /\ StackMeant

\* Some module that declares x is meant, or none is.
LEMMA MeantDeclared ==
    ASSUME NEW m, NEW x, NEW flags, NEW k \in Meant(m, x, flags)
    PROVE  decl[k][x] # "none"
<1>1. CASE "SearchImportsOnly" \notin flags /\ decl[m][x] # "none"
  BY <1>1 DEF Meant
<1>2. CASE ~("SearchImportsOnly" \notin flags /\ decl[m][x] # "none")
  BY <1>2 DEF Meant
<1> QED BY <1>1, <1>2

\* What a search means to find in an import, and may see, it means to find.
LEMMA MeantThroughImport ==
    ASSUME Types, NEW m \in Module, NEW x \in Ident, NEW flags \in SUBSET Flag,
           FromImports(m, x, flags),
           NEW i \in DOMAIN imports[m], ~Skipped(imports[m][i], flags),
           NEW k \in Meant(imports[m][i].mod, x, Inherited(flags)), Visible({k}, x, flags)
    PROVE  k \in Meant(m, x, flags)
<1> DEFINE n == imports[m][i].mod
           inh == Inherited(flags)
<1>1. n \in Module /\ n \in Scanned(m, flags)
  <2>1. imports[m] \in Seq(Import) /\ i \in 1..Len(imports[m])
    BY LenProperties DEF Types
  <2>2. imports[m][i] \in Import
    BY <2>1, ElementOfSeq
  <2> QED BY <2>2 DEF Import, Scanned
<1>2. /\ "SearchImportsOnly" \notin inh /\ "SearchLocalsOnly" \notin inh
      /\ "IgnorePrivateImports" \in inh
  BY DEF Inherited
<1>3. decl[k][x] # "none"
  BY MeantDeclared
<1>4. k \in LeadsTo(Scanned(m, flags), x)
  <2>1. CASE decl[n][x] # "none"
    <3>1. k = n
      BY <1>2, <2>1 DEF Meant
    <3> QED BY <1>1, <3>1 DEF LeadsTo
  <2>2. CASE decl[n][x] = "none"
    <3>1. k \in LeadsTo(Scanned(n, inh), x)
      BY <1>2, <2>2 DEF Meant
    <3>2. ASSUME NEW R \in SUBSET Module, Scanned(m, flags) \subseteq R, ClosedUnderImport(R, x)
          PROVE  k \in R
      <4>1. n \in R
        BY <1>1, <3>2
      <4>2. Scanned(n, inh) \subseteq R
        BY <1>2, <2>2, <3>2, <4>1 DEF Scanned, Skipped, ClosedUnderImport
      <4> QED BY <3>1, <3>2, <4>2 DEF LeadsTo
    <3> QED BY <3>1, <3>2 DEF LeadsTo
  <2> QED BY <2>1, <2>2
<1>5. ~("SearchImportsOnly" \notin flags /\ decl[m][x] # "none")
  BY DEF FromImports
<1> QED BY <1>3, <1>4, <1>5 DEF Meant

\* What is visible as a set is visible one by one.
LEMMA VisibleEach ==
    ASSUME NEW S, NEW x, NEW flags, Visible(S, x, flags), NEW k \in S
    PROVE  Visible({k}, x, flags)
  BY DEF Visible

\* What is meant depends on the declarations and imports only.
LEMMA MeantSame ==
    ASSUME UNCHANGED <<decl, imports>>
    PROVE  /\ \A m, x, flags : Meant(m, x, flags)' = Meant(m, x, flags)
           /\ \A f : /\ FrameMeant(f)' <=> FrameMeant(f)
                    /\ Awaited(f)' = Awaited(f) /\ Offer(f)' = Offer(f)
           /\ \A g, f : CalledBy(g, f)' <=> CalledBy(g, f)
<1>1. ASSUME NEW m, NEW x, NEW flags PROVE Meant(m, x, flags)' = Meant(m, x, flags)
  BY DEF Meant, LeadsTo, ClosedUnderImport, Scanned, Skipped, Visible
<1>2. ASSUME NEW f PROVE Awaited(f)' = Awaited(f)
  BY DEF Awaited
<1>3. ASSUME NEW f PROVE Offer(f)' = Offer(f)
  BY <1>1, <1>2 DEF Offer, Inherited
<1>4. ASSUME NEW f PROVE FrameMeant(f)' <=> FrameMeant(f)
  BY <1>1 DEF FrameMeant, FromImports, Skipped
<1>5. ASSUME NEW g, NEW f PROVE CalledBy(g, f)' <=> CalledBy(g, f)
  BY <1>2 DEF CalledBy, Inherited
<1> QED BY <1>1, <1>2, <1>3, <1>4, <1>5

\* A search called by another one has the flags it was entered with.
LEMMA InheritedEffective ==
    ASSUME NEW flags
    PROVE  Effective(Inherited(flags)) = Inherited(flags)
  BY DEF Effective, Inherited

\* A search returns no more than it means to find.
LEMMA PopMeant ==
    ASSUME TypeInv, stack # <<>>, Popped, StackMeant, UNCHANGED <<decl, imports>>,
           Depth > 1 => ret' \subseteq Meant(Top.mod, Top.ident, Top.flags)
    PROVE  StackMeant'
<1>1. /\ Depth \in Nat \ {0} /\ Depth' = Depth - 1 /\ Top = stack[1] /\ stack' \in Seq(FrameSet)
      /\ \A k \in 1..Depth-1 : stack'[k] = stack[k+1] /\ k+1 \in 2..Depth /\ k+1 \in 1..Depth
      /\ 1 \in 1..Depth
  BY TopTypes DEF Popped
<1>2. \A k \in 1..Depth-1 : FrameMeant(stack[k])'
  BY <1>1, MeantSame DEF StackMeant
<1>3. \A k \in 2..Depth-1 : CalledBy(stack[k-1], stack[k])'
  <2> TAKE k \in 2..Depth-1
  <2>1. /\ k - 1 \in 1..Depth-1 /\ (k - 1) + 1 = k /\ k \in 1..Depth-1
        /\ k + 1 \in 2..Depth /\ (k + 1) - 1 = k
    BY <1>1
  <2>2. stack'[k-1] = stack[k] /\ stack'[k] = stack[k+1]
    BY <1>1, <2>1
  <2>3. CalledBy(stack[(k+1)-1], stack[k+1])
    BY <2>1 DEF StackMeant
  <2>4. CalledBy(stack[k], stack[k+1])
    BY <2>1, <2>3
  <2> QED BY <2>2, <2>4, MeantSame
<1>4. ASSUME At("merge")' PROVE ret' \subseteq Offer(Top)'
  <2>1. stack' # <<>>
    BY <1>4 DEF At
  <2>2. Depth - 1 \in Nat \ {0}
    BY <1>1, <2>1, EmptySeq DEF Depth
  <2>3. Top' = stack[2] /\ 2 \in 2..Depth /\ 2 - 1 = 1 /\ Depth > 1
    <3>1. Top' = stack'[1]
      BY DEF Top
    <3>2. 1 \in 1..Depth-1 /\ 1 + 1 = 2 /\ 2 \in 2..Depth /\ 2 - 1 = 1 /\ Depth > 1
      BY <1>1, <2>2
    <3> QED BY <1>1, <3>1, <3>2
  <2>4. CalledBy(stack[2-1], stack[2])
    BY <2>3 DEF StackMeant
  <2>5. CalledBy(Top, stack[2])
    BY <1>1, <2>3, <2>4
  <2>6. Offer(stack[2]) = Meant(Top.mod, Top.ident, Top.flags)
    BY <2>5 DEF CalledBy, Offer
  <2> QED BY <2>3, <2>6, MeantSame
<1> QED BY <1>1, <1>2, <1>3, <1>4 DEF StackMeant

\* A search goes on with symbols that it means to find.
LEMMA GoOnMeant ==
    ASSUME TypeInv, stack # <<>>, StackMeant, UNCHANGED <<decl, imports>>,
           NEW f, WentOn(f), FrameMeant(f), f.pc # "merge",
           f.mod = Top.mod, f.ident = Top.ident, Depth > 1 => f.flags = Top.flags
    PROVE  StackMeant'
<1>1. /\ Depth \in Nat \ {0} /\ Depth' = Depth /\ Top = stack[1] /\ stack'[1] = f
      /\ \A k \in 2..Depth : stack'[k] = stack[k] /\ k \in 1..Depth
      /\ \A k \in 1..Depth : k = 1 \/ k \in 2..Depth
  BY TopTypes DEF WentOn
<1>2. \A k \in 1..Depth : FrameMeant(stack[k])'
  BY <1>1, MeantSame DEF StackMeant
<1>3. \A k \in 2..Depth : CalledBy(stack[k-1], stack[k])'
  <2> TAKE k \in 2..Depth
  <2>1. CalledBy(stack[k-1], stack[k])
    BY DEF StackMeant
  <2>2. CASE k = 2
    <3>1. stack'[k-1] = f /\ stack[k-1] = Top /\ Depth > 1
      BY <1>1, <2>2
    <3>2. CalledBy(f, stack[k])
      BY <2>1, <3>1 DEF CalledBy
    <3> QED BY <1>1, <3>1, <3>2, MeantSame
  <2>3. CASE k # 2
    <3>1. stack'[k-1] = stack[k-1]
      BY <1>1, <2>3
    <3> QED BY <1>1, <2>1, <3>1, MeantSame
  <2> QED BY <2>2, <2>3
<1>4. ~At("merge")'
  BY <1>1 DEF At, Top
<1> QED BY <1>1, <1>2, <1>3, <1>4 DEF StackMeant

\* A search calls another one for the import it came to.
LEMMA CallMeant ==
    ASSUME TypeInv, stack # <<>>, StackMeant, UNCHANGED <<decl, imports>>,
           NEW f, NEW g, Called(g, f), FrameMeant(f), CalledBy(g, f), g.pc = "enter",
           f.mod = Top.mod, f.ident = Top.ident, f.flags = Top.flags
    PROVE  StackMeant'
<1>1. /\ Depth \in Nat \ {0} /\ Depth' = Depth + 1 /\ Top = stack[1]
      /\ stack'[1] = g /\ stack'[2] = f
      /\ \A k \in 2..Depth : stack'[k+1] = stack[k]
  BY TopTypes DEF Called
<1>2. FrameMeant(g)
  BY DEF FrameMeant
<1>3. ASSUME NEW k \in 3..Depth+1
      PROVE  /\ FrameMeant(stack'[k]) /\ CalledBy(stack'[k-1], stack'[k])
  <2>1. /\ k - 1 \in 2..Depth /\ k - 1 \in 1..Depth /\ (k - 1) + 1 = k
    BY <1>1
  <2>2. stack'[k] = stack[k-1]
    BY <1>1, <2>1
  <2>3. FrameMeant(stack[k-1]) /\ CalledBy(stack[(k-1)-1], stack[k-1])
    BY <2>1 DEF StackMeant
  <2>4. CASE k = 3
    <3>1. stack'[k-1] = f /\ stack[(k-1)-1] = Top
      BY <1>1, <2>4
    <3> QED BY <2>2, <2>3, <3>1 DEF CalledBy
  <2>5. CASE k # 3
    <3>1. (k - 1) - 1 \in 2..Depth /\ ((k - 1) - 1) + 1 = k - 1
      BY <1>1, <2>5
    <3>2. stack'[k-1] = stack[(k-1)-1]
      BY <1>1, <3>1
    <3> QED BY <2>2, <2>3, <3>2
  <2> QED BY <2>4, <2>5
<1>4. ASSUME NEW k \in 1..Depth+1 PROVE FrameMeant(stack[k])'
  <2>1. k = 1 \/ k = 2 \/ k \in 3..Depth+1
    BY <1>1
  <2>2. FrameMeant(stack'[k])
    BY <1>1, <1>2, <1>3, <2>1
  <2> QED BY <2>2, MeantSame
<1>5. ASSUME NEW k \in 2..Depth+1 PROVE CalledBy(stack[k-1], stack[k])'
  <2>1. (k = 2 /\ k - 1 = 1) \/ k \in 3..Depth+1
    BY <1>1
  <2>2. CalledBy(stack'[k-1], stack'[k])
    BY <1>1, <1>3, <2>1
  <2> QED BY <2>2, MeantSame
<1>6. ~At("merge")'
  BY <1>1 DEF At, Top
<1> QED BY <1>1, <1>4, <1>5, <1>6 DEF StackMeant

\* Every step keeps to what is meant.
LEMMA MeantInvInductive == TypeInv /\ MeantInv /\ [Next]_vars => MeantInv'
<1> SUFFICES ASSUME TypeInv, MeantInv, [Next]_vars PROVE MeantInv'
  OBVIOUS
<1>1. CASE changed' # <<>>
  BY <1>1 DEF MeantInv
<1>2. CASE changed' = <<>>
  <2>1. changed = <<>> /\ decl' = decl /\ imports' = imports
    <3>1. \A m \in Module : changed' # Append(changed, m)
      <4>1. changed \in Seq(Module)
        BY DEF TypeInv, Types
      <4> TAKE m \in Module
      <4>2. Len(Append(changed, m)) = Len(changed) + 1 /\ Len(changed) \in Nat
        BY <4>1, AppendProperties, LenProperties
      <4>3. Len(changed') = 0
        BY <1>2, EmptySeq
      <4> QED BY <4>2, <4>3
    <3> QED
      BY <1>2, <3>1
         DEF Next, Search, SearchAtOnce, SearchEnter, SearchImport, SearchMerge, SearchFound,
             SearchLeave, LookupNext, LookupUnqualified, LookupQualified, Suggest, Start,
             SymtabInsert, ImportMember, ImportScope, Change, Finished, vars
  <2>2. CacheMeant /\ StackMeant
    BY <2>1 DEF MeantInv
  <2>3. ASSUME cache' = cache PROVE CacheMeant'
    BY <2>1, <2>2, <2>3, MeantSame DEF CacheMeant
  <2>4. ASSUME stack' = <<>> PROVE StackMeant'
    <3>1. Depth' = 0 /\ ~At("merge")'
      BY <2>4, EmptySeq DEF Depth, At
    <3> QED BY <3>1 DEF StackMeant
  <2>5. ASSUME NEW g, g.pc = "enter", stack' = <<g>> PROVE StackMeant'
    <3>1. Depth' = 1 /\ stack'[1] = g /\ ~At("merge")'
      BY <2>5 DEF Depth, At, Top
    <3>2. FrameMeant(stack[1])'
      BY <2>5, <3>1 DEF FrameMeant
    <3> QED BY <3>1, <3>2 DEF StackMeant
  <2>6. stack # <<>> => /\ Depth \in Nat \ {0} /\ 1 \in 1..Depth /\ Top = stack[1]
                        /\ FrameMeant(Top)
                        /\ Depth > 1 => Effective(Top.flags) = Top.flags
    <3> SUFFICES ASSUME stack # <<>>
                 PROVE  /\ Depth \in Nat \ {0} /\ 1 \in 1..Depth /\ Top = stack[1]
                        /\ FrameMeant(Top)
                        /\ Depth > 1 => Effective(Top.flags) = Top.flags
      OBVIOUS
    <3>1. Depth \in Nat \ {0} /\ 1 \in 1..Depth /\ Top = stack[1]
      BY TopTypes
    <3>2. ASSUME Depth > 1 PROVE Effective(Top.flags) = Top.flags
      <4>1. 2 \in 2..Depth /\ 2 - 1 = 1
        BY <3>1, <3>2
      <4>2. CalledBy(stack[2-1], stack[2])
        BY <2>2, <4>1 DEF StackMeant
      <4>3. Top.flags = Inherited(stack[2].flags)
        BY <3>1, <4>1, <4>2 DEF CalledBy
      <4> QED BY <4>3, InheritedEffective
    <3> QED BY <2>2, <3>1, <3>2 DEF StackMeant
  <2>7. CASE SearchAtOnce
    <3>1. /\ stack # <<>> /\ stack' = Tail(stack) /\ cache' = cache
          /\ \/ ret' = {}
             \/ /\ cache[Top.mod].ident = Top.ident /\ cache[Top.mod].flags = Effective(Top.flags)
                /\ ret' = cache[Top.mod].symbol
      BY <2>7 DEF SearchAtOnce, At, Cached
    <3>2. Popped /\ Top.mod \in Module /\ Top.ident # NoIdent
      BY <3>1, PopShape, TopTypes, ModuleAssumption DEF TypeInv, StackInv
    <3>3. Depth > 1 => ret' \subseteq Meant(Top.mod, Top.ident, Top.flags)
      BY <2>2, <2>6, <3>1, <3>2 DEF CacheMeant
    <3> QED BY <2>1, <2>2, <2>3, <3>1, <3>2, <3>3, PopMeant DEF MeantInv
  <2>8. CASE SearchEnter
    <3>1. stack # <<>> /\ cache' = cache
      BY <2>8 DEF SearchEnter, At
    <3>2. PICK f \in FrameSet :
              /\ WentOn(f) /\ f.mod = Top.mod /\ f.ident = Top.ident
              /\ f.flags = Effective(Top.flags)
              /\ LET here == /\ "SearchImportsOnly" \notin f.flags
                             /\ decl[f.mod][f.ident] # "none"
                 IN \/ here /\ f.pc = "leave" /\ f.symbol = {f.mod}
                    \/ ~here /\ f.pc = "scan" /\ f.symbol = {}
      BY <2>8, EnterShape
    <3>3. FrameMeant(f) /\ f.pc # "merge"
      BY <3>2 DEF FrameMeant, FromImports, Meant
    <3>4. StackMeant'
      BY <2>1, <2>2, <2>6, <3>1, <3>2, <3>3, GoOnMeant
    <3> QED BY <2>3, <3>1, <3>4 DEF MeantInv
  <2>9. CASE SearchImport
    <3>1. stack # <<>> /\ cache' = cache /\ Top.pc = "scan" /\ Top.i <= Len(imports[Top.mod])
      BY <2>9 DEF SearchImport, At
    <3> DEFINE entry == imports[Top.mod][Top.i]
               called == Frame(entry.mod, Top.ident, Inherited(Top.flags))
    <3>2. PICK f \in FrameSet :
              /\ f.mod = Top.mod /\ f.ident = Top.ident /\ f.flags = Top.flags
              /\ f.i = Top.i + 1 /\ f.symbol = Top.symbol
              /\ \/ Skipped(entry, Top.flags) /\ f.pc = "scan" /\ WentOn(f)
                 \/ /\ ~Skipped(entry, Top.flags) /\ f.pc = "merge"
                    /\ Called(called, f)
      BY <2>9, ImportShape
    <3>3. /\ f.symbol \subseteq Meant(f.mod, f.ident, f.flags)
          /\ FromImports(f.mod, f.ident, f.flags)
      BY <2>6, <3>1, <3>2 DEF FrameMeant
    <3>4. f.i - 1 = Top.i /\ Top.i \in DOMAIN imports[Top.mod]
      BY <3>1, <3>2, TopTypes
    <3>5. StackMeant'
      <4>1. CASE f.pc = "scan" /\ WentOn(f)
        <5>1. FrameMeant(f)
          BY <3>3, <4>1 DEF FrameMeant
        <5> QED BY <2>1, <2>2, <3>1, <3>2, <4>1, <5>1, GoOnMeant
      <4>2. CASE ~Skipped(entry, Top.flags) /\ f.pc = "merge" /\ Called(called, f)
        <5>1. FrameMeant(f)
          BY <3>2, <3>3, <3>4, <4>2 DEF FrameMeant
        <5>2. CalledBy(called, f) /\ called.pc = "enter"
          BY <3>2, <3>4 DEF CalledBy, Awaited, Frame
        <5> QED BY <2>1, <2>2, <3>1, <3>2, <4>2, <5>1, <5>2, CallMeant
      <4> QED BY <3>2, <4>1, <4>2
    <3> QED BY <2>3, <3>1, <3>5 DEF MeantInv
  <2>10. CASE SearchMerge
    <3>1. stack # <<>> /\ cache' = cache /\ Top.pc = "merge" /\ At("merge")
      BY <2>10 DEF SearchMerge, At
    <3>2. PICK f \in FrameSet :
              /\ WentOn(f) /\ f.mod = Top.mod /\ f.ident = Top.ident /\ f.flags = Top.flags
              /\ f.pc = IF Brought(Top) /\ ~Agrees(Top) THEN "found" ELSE "scan"
              /\ f.symbol = IF Brought(Top) /\ Agrees(Top) THEN Top.symbol \cup ret
                                                           ELSE Top.symbol
      BY <2>10, MergeShape
    <3>3. /\ Top.symbol \subseteq Meant(Top.mod, Top.ident, Top.flags)
          /\ FromImports(Top.mod, Top.ident, Top.flags)
          /\ Top.i - 1 \in DOMAIN imports[Top.mod]
          /\ ~Skipped(imports[Top.mod][Top.i - 1], Top.flags)
      BY <2>6, <3>1 DEF FrameMeant
    <3>4. ASSUME Visible(ret, Top.ident, Top.flags), NEW k \in ret
          PROVE  k \in Meant(Top.mod, Top.ident, Top.flags)
      <4>1. k \in Meant(imports[Top.mod][Top.i - 1].mod, Top.ident, Inherited(Top.flags))
        BY <2>2, <3>1, <3>4 DEF StackMeant, Offer, Awaited
      <4>2. Visible({k}, Top.ident, Top.flags)
        BY <3>4, VisibleEach
      <4>3. Top.mod \in Module /\ Top.ident \in Ident /\ Top.flags \in SUBSET Flag /\ Types
        BY <3>1, TopTypes DEF TypeInv
      <4> QED BY <3>3, <4>1, <4>2, <4>3, MeantThroughImport
    <3>5. FrameMeant(f) /\ f.pc # "merge"
      BY <3>2, <3>3, <3>4 DEF FrameMeant, Brought
    <3>6. StackMeant'
      BY <2>1, <2>2, <3>1, <3>2, <3>5, GoOnMeant
    <3> QED BY <2>3, <3>1, <3>6 DEF MeantInv
  <2>11. CASE SearchFound
    <3>1. stack # <<>> /\ cache' = cache /\ Top.pc # "enter"
      BY <2>11 DEF SearchFound, At
    <3>2. PICK f \in FrameSet :
              /\ WentOn(f) /\ f.mod = Top.mod /\ f.ident = Top.ident /\ f.flags = Top.flags
              /\ f.pc = "leave" /\ f.symbol = Top.symbol
      BY <2>11, FoundShape
    <3>3. FrameMeant(f)
      BY <2>6, <3>1, <3>2 DEF FrameMeant
    <3>4. StackMeant'
      BY <2>1, <2>2, <3>1, <3>2, <3>3, GoOnMeant
    <3> QED BY <2>3, <3>1, <3>4 DEF MeantInv
  <2>12. CASE SearchLeave
    <3> DEFINE new == [ident |-> Top.ident, flags |-> Top.flags, symbol |-> Top.symbol]
    <3>1. /\ stack # <<>> /\ Top.pc = "leave" /\ ret' = Top.symbol /\ stack' = Tail(stack)
          /\ cache' = cache \/ cache' = [cache EXCEPT ![Top.mod] = new]
      BY <2>12 DEF SearchLeave, At, Cache
    <3>2. Top.symbol \subseteq Meant(Top.mod, Top.ident, Top.flags)
      BY <2>6, <3>1 DEF FrameMeant
    <3>3. Popped
      BY <3>1, PopShape DEF TypeInv, StackInv
    <3>4. StackMeant'
      BY <2>1, <2>2, <3>1, <3>2, <3>3, PopMeant
    <3>5. ASSUME cache' = [cache EXCEPT ![Top.mod] = new] PROVE CacheMeant'
      <4>1. new.ident = Top.ident /\ new.flags = Top.flags /\ new.symbol = Top.symbol
        OBVIOUS
      <4> HIDE DEF new
      <4>2. \A m \in Module : cache'[m] = IF m = Top.mod THEN new ELSE cache[m]
        BY <3>5 DEF TypeInv, Types
      <4>3. ASSUME NEW m \in Module, cache'[m].ident # NoIdent
            PROVE  cache'[m].symbol \subseteq Meant(m, cache'[m].ident, cache'[m].flags)
        <5>1. CASE m = Top.mod
          BY <3>2, <4>1, <4>2, <5>1
        <5>2. CASE m # Top.mod
          BY <2>2, <4>2, <4>3, <5>2 DEF CacheMeant
        <5> QED BY <5>1, <5>2
      <4> QED BY <2>1, <4>3, MeantSame DEF CacheMeant
    <3> QED BY <2>3, <3>1, <3>4, <3>5 DEF MeantInv
  <2>13. ASSUME NEW m, NEW x, NEW tries, Start(m, x, tries) PROVE StackMeant'
    <3>1. stack' = <<Frame(m, x, tries[1])>> /\ Frame(m, x, tries[1]).pc = "enter"
      BY <2>13 DEF Start, Frame
    <3> QED BY <2>5, <3>1
  <2>14. CASE LookupNext
    <3> DEFINE g == Frame(lookup.mod, lookup.ident, lookup.tries[lookup.try + 1])
    <3>1. cache' = cache /\ (stack' = <<>> \/ stack' = <<g>>)
      BY <2>14 DEF LookupNext
    <3>2. g.pc = "enter"
      BY DEF Frame
    <3> QED BY <2>3, <2>4, <2>5, <3>1, <3>2 DEF MeantInv
  <2>15. CASE \E m \in Module, x \in bound.idents : LookupUnqualified(m, x)
    BY <2>3, <2>13, <2>15 DEF LookupUnqualified, MeantInv
  <2>16. CASE \E m, k \in Module, x \in bound.idents : LookupQualified(m, k, x)
    BY <2>3, <2>13, <2>16 DEF LookupQualified, MeantInv
  <2>17. CASE \E x \in bound.idents : Suggest(x)
    <3>1. PICK x \in bound.idents : Suggest(x)
      BY <2>17
    <3>2. cache' = [m \in Module |-> [cache[m] EXCEPT !.ident = NoIdent]]
      BY <3>1 DEF Suggest
    <3>3. \A m \in Module : cache'[m].ident = NoIdent
      BY <3>2 DEF TypeInv, Types
    <3>4. CacheMeant' /\ StackMeant'
      BY <2>13, <3>1, <3>3 DEF CacheMeant, Suggest
    <3> QED BY <3>4 DEF MeantInv
  <2>18. CASE UNCHANGED vars
    <3>1. stack' = stack /\ cache' = cache /\ ret' = ret /\ Depth' = Depth /\ Top' = Top
          /\ At("merge")' = At("merge")
      BY <2>18 DEF vars, Depth, Top, At
    <3>2. StackMeant'
      BY <2>1, <2>2, <3>1, MeantSame DEF StackMeant
    <3> QED BY <2>3, <3>1, <3>2 DEF MeantInv
  <2>19. ~(\E m \in Module : Change(m))
    <3>1. ASSUME NEW m \in Module PROVE <<>> # Append(changed, m)
      BY <2>1
    <3> QED BY <1>2, <3>1 DEF Change
  <2> QED
    BY <2>7, <2>8, <2>9, <2>10, <2>11, <2>12, <2>14, <2>15, <2>16, <2>17, <2>18, <2>19
       DEF Next, Search, Finished, SymtabInsert, ImportMember, ImportScope
<1> QED BY <1>1, <1>2

\* At the start nothing is cached.
LEMMA MeantInvInit == Init => MeantInv
<1> SUFFICES ASSUME Init PROVE MeantInv
  OBVIOUS
<1>1. \A m \in Module : cache[m].ident = NoIdent
  BY DEF Init, NoCache
<1>2. Depth = 0 /\ ~At("merge")
  BY EmptySeq DEF Init, Depth, At
<1> QED BY <1>1, <1>2 DEF MeantInv, CacheMeant, StackMeant

\* What a module caches (dmodule.d:1066) is meant by the search it was cached for,
\* in every import graph and whatever cycles cut the searches off: no private
\* import and no private symbol gets from one search into another.
THEOREM CacheHoldsMeant == Spec => []CacheSound
<1>1. MeantInv => CacheSound
  BY DEF MeantInv, CacheMeant, CacheSound
<1> QED BY <1>1, TypeInvInit, TypeInvInductive, MeantInvInit, MeantInvInductive, PTL DEF Spec

(***************************************************************************)
(* Every answer is right where no module imports itself, and where what     *)
(* was declared or imported later is out of reach of the imports of the     *)
(* module that is asked.  The searches in progress then never come back to  *)
(* a module, and each has seen all that its imports so far can give.        *)
(***************************************************************************)

\* What a search that failed, or did not, may make of the symbols in S: all of
\* them, or in a conflict some of them and an error.
Right(S, symbol, x, flags, failed) ==
    /\ symbol \subseteq S
    /\ Conflict(S, x) => symbol # {} /\ (failed \/ "IgnoreErrors" \in flags)
    /\ ~Conflict(S, x) => symbol = S

\* What a search of m can take from its import i, and from the first n.
Gives(m, x, flags, i) ==
    {k \in Meant(imports[m][i].mod, x, Inherited(flags)) : Visible({k}, x, flags)}

Upto(m, x, flags, n) ==
    {k \in Module : \E i \in 1..n : ~Skipped(imports[m][i], flags) /\ k \in Gives(m, x, flags, i)}

\* A conflict is between two modules, and one that declares no function.
LEMMA ConflictMeans ==
    ASSUME NEW S \in SUBSET Module, NEW x
    PROVE  Conflict(S, x) <=> /\ \E j, k \in S : j # k
                              /\ \E l \in S : decl[l][x] # "function"
<1>1. IsFiniteSet(S)
  BY ModuleAssumption, FS_Subset
<1>2. Cardinality(S) \in Nat
  BY <1>1, FS_CardinalityType
<1>3. Cardinality(S) = 0 <=> S = {}
  BY <1>1, FS_EmptySet
<1>4. Cardinality(S) = 1 <=> \E k : S = {k}
  BY <1>1, FS_Singleton
<1>5. Cardinality(S) > 1 <=> \E j, k \in S : j # k
  <2>1. Cardinality(S) > 1 <=> ~(S = {}) /\ ~(\E k : S = {k})
    BY <1>2, <1>3, <1>4
  <2>2. (~(S = {}) /\ ~(\E k : S = {k})) <=> \E j, k \in S : j # k
    OBVIOUS
  <2> QED BY <2>1, <2>2
<1>6. Overloadable(S, x) <=> ~ \E l \in S : decl[l][x] # "function"
  BY DEF Overloadable
<1> QED BY <1>5, <1>6 DEF Conflict

\* What conflicts, conflicts with more.
LEMMA ConflictGrows ==
    ASSUME NEW S \in SUBSET Module, NEW T \in SUBSET Module, S \subseteq T, NEW x, Conflict(S, x)
    PROVE  Conflict(T, x)
<1>1. (\E j, k \in S : j # k) /\ \E l \in S : decl[l][x] # "function"
  BY ConflictMeans
<1>2. (\E j, k \in T : j # k) /\ \E l \in T : decl[l][x] # "function"
  BY <1>1
<1> QED BY <1>2, ConflictMeans

\* No conflict with one symbol or none.
LEMMA NoConflict ==
    ASSUME NEW x
    PROVE  /\ ~Conflict({}, x)
           /\ \A m \in Module : ~Conflict({m}, x)
<1>1. ~Conflict({}, x)
  BY ConflictMeans
<1>2. ASSUME NEW m \in Module PROVE ~Conflict({m}, x)
  <2>1. {m} \in SUBSET Module /\ ~(\E j, k \in {m} : j # k)
    OBVIOUS
  <2> QED BY <2>1, ConflictMeans
<1> QED BY <1>1, <1>2

\* An error more does not make a result wrong.
LEMMA RightStays ==
    ASSUME NEW S, NEW symbol, NEW x, NEW flags, NEW failed \in BOOLEAN, NEW failed2 \in BOOLEAN,
           Right(S, symbol, x, flags, failed), failed => failed2
    PROVE  Right(S, symbol, x, flags, failed2)
  BY DEF Right

\* Nor do flags that agree on whether errors are ignored.
LEMMA RightFlags ==
    ASSUME NEW S, NEW symbol, NEW x, NEW flags, NEW flags2, NEW failed \in BOOLEAN,
           Right(S, symbol, x, flags, failed),
           "IgnoreErrors" \in flags <=> "IgnoreErrors" \in flags2
    PROVE  Right(S, symbol, x, flags2, failed)
  BY DEF Right

\* Whether errors are ignored is passed on.
LEMMA IgnoreErrorsKept ==
    ASSUME NEW flags
    PROVE  /\ "IgnoreErrors" \in Effective(flags) <=> "IgnoreErrors" \in flags
           /\ "IgnoreErrors" \in Inherited(flags) <=> "IgnoreErrors" \in flags
  BY DEF Effective, Inherited

\* What an import is asked for is a single symbol of its own that may be hidden,
\* or all of it is visible.
LEMMA OfferVisible ==
    ASSUME NEW n, NEW x, NEW flags
    PROVE  \/ Meant(n, x, Inherited(flags)) = {n} /\ ~Visible({n}, x, flags)
           \/ \A k \in Meant(n, x, Inherited(flags)) : Visible({k}, x, flags)
<1> DEFINE inh == Inherited(flags)
<1>1. /\ "SearchImportsOnly" \notin inh
      /\ "IgnoreSymbolVisibility" \in inh <=> "IgnoreSymbolVisibility" \in flags
  BY DEF Inherited
<1>2. ASSUME NEW k, Visible({k}, x, inh) PROVE Visible({k}, x, flags)
  BY <1>1, <1>2 DEF Visible
<1> HIDE DEF inh
<1>3. CASE decl[n][x] # "none"
  <2>1. Meant(n, x, inh) = {n}
    BY <1>1, <1>3 DEF Meant
  <2> QED BY <2>1 DEF inh
<1>4. CASE decl[n][x] = "none"
  <2>1. \A k \in Meant(n, x, inh) : Visible({k}, x, inh)
    BY <1>4 DEF Meant
  <2> QED BY <1>2, <2>1 DEF inh
<1> QED BY <1>3, <1>4

\* The symbols that are meant belong to modules.
LEMMA MeantModules ==
    ASSUME NEW m \in Module, NEW x, NEW flags
    PROVE  Meant(m, x, flags) \in SUBSET Module
  BY DEF Meant, LeadsTo

\* The imports of a module are of modules.
LEMMA ImportTypes ==
    ASSUME Types, NEW m \in Module
    PROVE  /\ Len(imports[m]) \in Nat /\ DOMAIN imports[m] = 1..Len(imports[m])
           /\ \A i \in DOMAIN imports[m] : imports[m][i].mod \in Module
<1>1. imports[m] \in Seq(Import)
  BY DEF Types
<1>2. Len(imports[m]) \in Nat /\ DOMAIN imports[m] = 1..Len(imports[m])
  BY <1>1, LenProperties
<1>3. \A i \in 1..Len(imports[m]) : imports[m][i] \in Import
  BY <1>1, ElementOfSeq
<1> QED BY <1>2, <1>3 DEF Import

\* What a set of modules leads to is closed under public import.
LEMMA LeadsToClosed ==
    ASSUME Types, NEW S \in SUBSET Module, NEW x
    PROVE  /\ LeadsTo(S, x) \in SUBSET Module /\ S \subseteq LeadsTo(S, x)
           /\ ClosedUnderImport(LeadsTo(S, x), x)
<1>1. LeadsTo(S, x) \in SUBSET Module /\ S \subseteq LeadsTo(S, x)
  BY DEF LeadsTo
<1>2. ASSUME NEW n \in LeadsTo(S, x), decl[n][x] = "none",
             NEW i \in DOMAIN imports[n], imports[n][i].public
      PROVE  imports[n][i].mod \in LeadsTo(S, x)
  <2>1. imports[n][i].mod \in Module
    BY <1>1, ImportTypes
  <2>2. ASSUME NEW R \in SUBSET Module, S \subseteq R, ClosedUnderImport(R, x)
        PROVE  imports[n][i].mod \in R
    <3>1. n \in R
      BY <2>2 DEF LeadsTo
    <3> QED BY <1>2, <2>2, <3>1 DEF ClosedUnderImport
  <2> QED BY <2>1, <2>2 DEF LeadsTo
<1> QED BY <1>1, <1>2 DEF ClosedUnderImport

\* The scanned imports are modules; an import asks on at the public ones.
LEMMA ScannedTypes ==
    ASSUME Types, NEW m \in Module, NEW flags
    PROVE  /\ Scanned(m, flags) \in SUBSET Module
           /\ \A i \in DOMAIN imports[m] :
                 imports[m][i].public => imports[m][i].mod \in Scanned(m, Inherited(flags))
<1>1. \A i \in DOMAIN imports[m] : imports[m][i].mod \in Module
  BY ImportTypes
<1>2. \A i \in DOMAIN imports[m] :
         imports[m][i].public => ~Skipped(imports[m][i], Inherited(flags))
  BY DEF Skipped, Inherited
<1> QED BY <1>1, <1>2 DEF Scanned

\* What a search of m means to find in its imports, it means to find by one of them.
LEMMA MeantByImport ==
    ASSUME Types, NEW m \in Module, NEW x, NEW flags, FromImports(m, x, flags),
           NEW k \in Meant(m, x, flags)
    PROVE  \E i \in DOMAIN imports[m] : ~Skipped(imports[m][i], flags) /\ k \in Gives(m, x, flags, i)
<1> DEFINE inh == Inherited(flags)
           S == Scanned(m, flags)
           On(j) == IF decl[j][x] = "none" THEN LeadsTo(Scanned(j, inh), x) ELSE {}
           R == {n \in Module : \E j \in S : n = j \/ n \in On(j)}
<1>1. k \in LeadsTo(S, x) /\ decl[k][x] # "none" /\ Visible({k}, x, flags)
  BY DEF FromImports, Meant
<1>2. S \in SUBSET Module /\ R \in SUBSET Module /\ S \subseteq R
  BY ScannedTypes
<1>3. ASSUME NEW j \in S, decl[j][x] = "none"
      PROVE  /\ On(j) \in SUBSET Module /\ Scanned(j, inh) \subseteq On(j)
             /\ ClosedUnderImport(On(j), x)
  <2>1. j \in Module /\ Scanned(j, inh) \in SUBSET Module
    BY <1>2, ScannedTypes
  <2>2. On(j) = LeadsTo(Scanned(j, inh), x)
    BY <1>3
  <2> QED BY <2>1, <2>2, LeadsToClosed
<1>4. \A j \in S : decl[j][x] # "none" => On(j) = {}
  OBVIOUS
<1>5. ClosedUnderImport(R, x)
  <2> SUFFICES ASSUME NEW n \in R, decl[n][x] = "none",
                      NEW i \in DOMAIN imports[n], imports[n][i].public
               PROVE  imports[n][i].mod \in R
    BY DEF ClosedUnderImport
  <2> HIDE DEF On
  <2>1. PICK j \in S : n = j \/ n \in On(j)
    OBVIOUS
  <2>2. CASE n = j
    <3>1. imports[n][i].mod \in Scanned(n, inh)
      BY <1>2, ScannedTypes
    <3>2. imports[n][i].mod \in On(j) /\ On(j) \in SUBSET Module
      BY <1>3, <2>2, <3>1
    <3> QED BY <3>2
  <2>3. CASE n \in On(j)
    <3>1. decl[j][x] = "none"
      BY <1>4, <2>3
    <3>2. imports[n][i].mod \in On(j) /\ On(j) \in SUBSET Module
      BY <1>3, <2>3, <3>1 DEF ClosedUnderImport
    <3> QED BY <3>2
  <2> QED BY <2>1, <2>2, <2>3
<1>6. k \in R
  <2> HIDE DEF R
  <2> QED BY <1>1, <1>2, <1>5 DEF LeadsTo
<1>7. PICK j \in S : k = j \/ k \in On(j)
  BY <1>6
<1>8. k \in Meant(j, x, inh)
  <2>1. "SearchImportsOnly" \notin inh
    BY DEF Inherited
  <2>2. CASE decl[j][x] # "none"
    <3>1. k = j
      BY <1>7, <2>2
    <3>2. Meant(j, x, inh) = {j}
      BY <2>1, <2>2 DEF Meant
    <3> QED BY <3>1, <3>2
  <2>3. CASE decl[j][x] = "none"
    <3>1. k \in LeadsTo(Scanned(j, inh), x)
      BY <1>1, <1>7, <2>3
    <3>2. Visible({k}, x, inh)
      BY <1>1 DEF Visible, Inherited
    <3> HIDE DEF inh
    <3> QED BY <1>1, <2>3, <3>1, <3>2 DEF Meant
  <2> QED BY <2>2, <2>3
<1>9. PICK i \in DOMAIN imports[m] : ~Skipped(imports[m][i], flags) /\ imports[m][i].mod = j
  BY DEF Scanned
<1>10. k \in Gives(m, x, flags, i)
  BY <1>1, <1>8, <1>9 DEF Gives
<1> QED BY <1>9, <1>10

\* Up to the last import, that is all that is meant.
LEMMA UptoAll ==
    ASSUME Types, NEW m \in Module, NEW x \in Ident, NEW flags \in SUBSET Flag,
           FromImports(m, x, flags)
    PROVE  Upto(m, x, flags, Len(imports[m])) = Meant(m, x, flags)
<1>1. DOMAIN imports[m] = 1..Len(imports[m])
  BY ImportTypes
<1>2. ASSUME NEW k \in Meant(m, x, flags) PROVE k \in Upto(m, x, flags, Len(imports[m]))
  <2>1. k \in Module
    BY MeantModules
  <2>2. \E i \in DOMAIN imports[m] : ~Skipped(imports[m][i], flags) /\ k \in Gives(m, x, flags, i)
    BY MeantByImport
  <2> QED BY <1>1, <2>1, <2>2 DEF Upto
<1>3. ASSUME NEW k \in Upto(m, x, flags, Len(imports[m])) PROVE k \in Meant(m, x, flags)
  <2>1. PICK i \in DOMAIN imports[m] : ~Skipped(imports[m][i], flags) /\ k \in Gives(m, x, flags, i)
    BY <1>1 DEF Upto
  <2>2. k \in Meant(imports[m][i].mod, x, Inherited(flags)) /\ Visible({k}, x, flags)
    BY <2>1 DEF Gives
  <2> QED BY <2>1, <2>2, MeantThroughImport
<1> QED BY <1>2, <1>3

\* Part of it before: nothing up to no import, no more past a skipped one, and
\* past another one what it gives.
LEMMA UptoSteps ==
    ASSUME Types, NEW m \in Module, NEW x \in Ident, NEW flags \in SUBSET Flag,
           FromImports(m, x, flags)
    PROVE  /\ Upto(m, x, flags, 0) = {}
           /\ \A n \in Nat : Upto(m, x, flags, n) \in SUBSET Module
           /\ \A n \in 1..Len(imports[m]) :
                 /\ Skipped(imports[m][n], flags) =>
                       Upto(m, x, flags, n) = Upto(m, x, flags, n - 1)
                 /\ ~Skipped(imports[m][n], flags) =>
                       Upto(m, x, flags, n) = Upto(m, x, flags, n - 1) \cup Gives(m, x, flags, n)
                 /\ Upto(m, x, flags, n) \subseteq Meant(m, x, flags)
<1> DEFINE Up(n) == Upto(m, x, flags, n)
           G(i) == Gives(m, x, flags, i)
           Sk(i) == Skipped(imports[m][i], flags)
<1>1. \A n : Up(n) = {k \in Module : \E i \in 1..n : ~Sk(i) /\ k \in G(i)}
  BY DEF Upto
<1>2. Len(imports[m]) \in Nat /\ \A i \in 1..Len(imports[m]) : G(i) \in SUBSET Module
  <2>1. /\ Len(imports[m]) \in Nat
        /\ \A i \in 1..Len(imports[m]) : imports[m][i].mod \in Module
    BY ImportTypes
  <2>2. ASSUME NEW i \in 1..Len(imports[m]) PROVE G(i) \in SUBSET Module
    BY <2>1, MeantModules DEF Gives
  <2> QED BY <2>1, <2>2
<1>3. Up(Len(imports[m])) = Meant(m, x, flags)
  BY UptoAll
<1> HIDE DEF Up, G, Sk
<1>4. ASSUME NEW n \in 1..Len(imports[m])
      PROVE  /\ \A i : i \in 1..n <=> i = n \/ i \in 1..n-1
             /\ \A i \in 1..n : i \in 1..Len(imports[m])
  BY <1>2
<1>5. ASSUME NEW n \in 1..Len(imports[m])
      PROVE  /\ Sk(n) => Up(n) = Up(n - 1)
             /\ ~Sk(n) => Up(n) = Up(n - 1) \cup G(n)
             /\ Up(n) \subseteq Up(Len(imports[m]))
  <2>1. Up(n) = {k \in Module : \E i \in 1..n : ~Sk(i) /\ k \in G(i)}
    BY <1>1
  <2>2. Up(n - 1) = {k \in Module : \E i \in 1..n-1 : ~Sk(i) /\ k \in G(i)}
    BY <1>1
  <2>3. Sk(n) => Up(n) = Up(n - 1)
    BY <1>4, <2>1, <2>2
  <2>4. ~Sk(n) => Up(n) = Up(n - 1) \cup G(n)
    BY <1>2, <1>4, <2>1, <2>2
  <2>5. Up(n) \subseteq Up(Len(imports[m]))
    BY <1>1, <1>4
  <2> QED BY <2>3, <2>4, <2>5
<1>6. Up(0) = {}
  BY <1>1
<1>7. \A n \in Nat : Up(n) \in SUBSET Module
  BY <1>1
<1> QED BY <1>3, <1>5, <1>6, <1>7 DEF Up, G, Sk

\* Merging: what f had of S and what came of O make what f should have of both; or
\* they conflict, and then what f had is right for all it could have found.
LEMMA MergeRight ==
    ASSUME NEW f, NEW S \in SUBSET Module, NEW O \in SUBSET Module, NEW M \in SUBSET Module,
           NEW n \in Module, NEW failed \in BOOLEAN,
           Right(S, f.symbol, f.ident, f.flags, failed),
           Right(O, ret, f.ident, f.flags, failed),
           \/ O = {n} /\ ~Visible({n}, f.ident, f.flags)
           \/ \A k \in O : Visible({k}, f.ident, f.flags),
           S \cup {k \in O : Visible({k}, f.ident, f.flags)} \subseteq M
    PROVE  IF Brought(f) /\ ~Agrees(f)
           THEN \A now \in BOOLEAN : now \/ "IgnoreErrors" \in f.flags
                   => Right(M, f.symbol, f.ident, f.flags, now)
           ELSE Right(S \cup {k \in O : Visible({k}, f.ident, f.flags)},
                      IF Brought(f) /\ Agrees(f) THEN f.symbol \cup ret ELSE f.symbol,
                      f.ident, f.flags, failed)
<1> DEFINE x == f.ident
           s == f.symbol
           V == {k \in O : Visible({k}, x, f.flags)}
           T == S \cup V
           excused == failed \/ "IgnoreErrors" \in f.flags
<1>1. /\ s \subseteq S /\ ret \subseteq O /\ V \subseteq O /\ T \in SUBSET Module
      /\ Conflict(S, x) => s # {} /\ excused
      /\ ~Conflict(S, x) => s = S
      /\ Conflict(O, x) => ret # {} /\ excused
      /\ ~Conflict(O, x) => ret = O
  BY DEF Right
<1>2. ~Conflict({}, x) /\ ~Conflict({n}, x)
  BY NoConflict
<1>3. CASE O = {n} /\ ~Visible({n}, x, f.flags)
  <2>1. V = {} /\ ret = {n} /\ T = S
    BY <1>1, <1>2, <1>3
  <2>2. ~Brought(f)
    BY <1>3, <2>1 DEF Brought
  <2> QED BY <2>1, <2>2
<1>4. CASE \A k \in O : Visible({k}, x, f.flags)
  <2>1. V = O /\ T = S \cup O
    BY <1>4
  <2>2. Visible(ret, x, f.flags)
    BY <1>1, <1>4 DEF Visible
  <2>3. /\ Conflict(S, x) => Conflict(T, x)
        /\ Conflict(O, x) => Conflict(T, x)
    <3>1. S \subseteq T /\ O \subseteq T
      BY <2>1
    <3> QED BY <1>1, <3>1, ConflictGrows
  <2>4. Brought(f) <=> ret # {} /\ ret # s
    BY <2>2 DEF Brought
  <2> HIDE DEF V, T, excused
  <2>5. CASE ret = {}
    <3>1. O = {} /\ T = S
      BY <1>1, <2>1, <2>5
    <3>2. ~Brought(f)
      BY <2>4, <2>5
    <3> QED BY <3>1, <3>2 DEF T, V
  <2>6. CASE ret # {} /\ ret = s
    <3>1. Conflict(T, x) => s # {} /\ excused
      <4>1. ~Conflict(S, x) /\ ~Conflict(O, x) => T = S
        BY <1>1, <2>1, <2>6
      <4> QED BY <1>1, <2>6, <4>1
    <3>2. ~Conflict(T, x) => s = T
      BY <1>1, <2>1, <2>3, <2>6
    <3>3. s \subseteq T /\ ~Brought(f)
      BY <1>1, <2>1, <2>4, <2>6
    <3>4. Right(T, s, x, f.flags, failed)
      BY <3>1, <3>2, <3>3 DEF Right, excused
    <3> QED BY <3>3, <3>4 DEF T, V
  <2>7. CASE Brought(f) /\ Agrees(f)
    <3>1. ASSUME Conflict(T, x) PROVE s \cup ret # {} /\ excused
      <4>1. CASE Conflict(S, x) \/ Conflict(O, x)
        BY <1>1, <4>1
      <4>2. CASE ~Conflict(S, x) /\ ~Conflict(O, x)
        <5>1. s = S /\ ret = O
          BY <1>1, <4>2
        <5>2. s # {}
          BY <2>1, <3>1, <4>2, <5>1
        <5>3. Overloadable(T, x)
          <6>1. T = ret \cup s
            BY <2>1, <5>1
          <6> QED BY <2>7, <5>2, <6>1 DEF Agrees
        <5> QED BY <3>1, <5>3 DEF Conflict
      <4> QED BY <4>1, <4>2
    <3>2. ~Conflict(T, x) => s \cup ret = T
      BY <1>1, <2>1, <2>3
    <3>3. s \cup ret \subseteq T
      BY <1>1, <2>1
    <3>4. Right(T, s \cup ret, x, f.flags, failed)
      BY <3>1, <3>2, <3>3 DEF Right, excused
    <3> QED BY <2>7, <3>4 DEF T, V
  <2>8. CASE Brought(f) /\ ~Agrees(f)
    <3>1. s # {} /\ ret # {} /\ ret # s /\ ~Overloadable(ret \cup s, x)
      BY <2>4, <2>8 DEF Agrees
    <3>2. s \cup ret \subseteq M /\ s \cup ret \in SUBSET Module /\ s \subseteq M
      BY <1>1, <2>1 DEF V, T
    <3>3. Conflict(s \cup ret, x)
      <4>1. \E j, k \in s \cup ret : j # k
        BY <3>1
      <4>2. \E l \in s \cup ret : decl[l][x] # "function"
        BY <3>1 DEF Overloadable
      <4> QED BY <3>2, <4>1, <4>2, ConflictMeans
    <3>4. Conflict(M, x)
      BY <3>2, <3>3, ConflictGrows
    <3>5. \A now \in BOOLEAN : now \/ "IgnoreErrors" \in f.flags
             => Right(M, s, x, f.flags, now)
      BY <3>1, <3>2, <3>4 DEF Right
    <3> QED BY <2>8, <3>5
  <2> QED BY <2>4, <2>5, <2>6, <2>7, <2>8
<1> QED BY <1>3, <1>4

\* The ranks that show that no module imports itself.
Ranks == {rank \in [Module -> 1..Cardinality(Module)] :
             \A m \in Module : \A i \in DOMAIN imports[m] : rank[imports[m][i].mod] < rank[m]}

\* All that the imports of m reach is as it was at the start.
Settled(m) ==
    \E T \in SUBSET Module :
       /\ \A i \in DOMAIN imports[m] : imports[m][i].mod \in T
       /\ \A n \in T : \A i \in DOMAIN imports[n] : imports[n][i].mod \in T
       /\ \A n \in DOMAIN changed : changed[n] \notin T

\* f is where its place says, in the list of its imports.
Placed(f) ==
    /\ f.pc = "enter" => f.i = 1
    /\ f.pc # "enter" => f.errors <= errors
    /\ f.pc \in {"scan", "merge"} =>
          FromImports(f.mod, f.ident, f.flags) /\ f.i - 1 \in 0..Len(imports[f.mod])
    /\ f.pc = "merge" => f.i > 1 /\ ~Skipped(imports[f.mod][f.i - 1], f.flags)

\* f has seen all that S has for it.
Seen(f, S) == Right(S, f.symbol, f.ident, f.flags, errors > f.errors)

FrameSeen(f) ==
    /\ f.pc = "scan" => Seen(f, Upto(f.mod, f.ident, f.flags, f.i - 1))
    /\ f.pc = "merge" => Seen(f, Upto(f.mod, f.ident, f.flags, f.i - 2))
    /\ f.pc \in {"found", "leave"} => Seen(f, Meant(f.mod, f.ident, f.flags))

FrameRight(f) == Placed(f) /\ (Settled(f.mod) => FrameSeen(f))

\* The search g was called by f, and after f was entered.
CalledFrom(g, f) == CalledBy(g, f) /\ (g.pc # "enter" => f.errors <= g.errors)

Descending ==
    \A rank \in Ranks : \A k, l \in 1..Depth : k < l => rank[stack[k].mod] < rank[stack[l].mod]

\* The first search of a try.
Try == lookup.tries[lookup.try]

FirstOf(f) ==
    /\ f.mod = lookup.mod /\ f.ident = lookup.ident
    /\ f.flags = IF f.pc = "enter" THEN Try ELSE Effective(Try)
    /\ lookup.errors <= IF f.pc = "enter" THEN errors ELSE f.errors

Delivered ==
    At("merge") /\ Settled(Top.mod)
      => Right(Offer(Top), ret, Top.ident, Top.flags, errors > Top.errors)

StackRight ==
    /\ \A k \in 1..Depth : FrameRight(stack[k])
    /\ \A k \in 2..Depth : CalledFrom(stack[k-1], stack[k])
    /\ Descending
    /\ stack # <<>> => FirstOf(stack[Depth])
    /\ Delivered

CacheRight ==
    \A m \in Module \ stale : cache[m].ident # NoIdent /\ Settled(m) =>
        Right(Meant(m, cache[m].ident, cache[m].flags), cache[m].symbol,
              cache[m].ident, cache[m].flags, FALSE)

MeantBy(t) == Meant(lookup.mod, lookup.ident, Effective(lookup.tries[t]))

\* The try going on came to its end.
TryRight == Right(MeantBy(lookup.try), ret, lookup.ident, Try, errors > lookup.errors)

LookupTimes ==
    /\ lookup.errors \in Nat /\ lookup.errors <= errors
    /\ lookup.changes \in 0..Len(changed)
    /\ lookup.ident # NoIdent => \A t \in DOMAIN lookup.tries :
          "IgnoreErrors" \in lookup.tries[t] <=> "IgnoreErrors" \in lookup.tries[1]

LookupRight ==
    lookup.try # 0 /\ Settled(lookup.mod) /\ lookup.mod \notin stale =>
       /\ \A t \in 1..lookup.try - 1 : MeantBy(t) = {}
       /\ stack = <<>> => TryRight

AnswerOK == Answered /\ Settled(lookup.mod) /\ lookup.mod \notin stale => AnswerRight

\* Only the first try meets a result that is older than an import.
FreshTries == lookup.try > 1 => lookup.mod \notin stale

\* An import is added, and the cache of m kept.
CacheLeft(m) ==
    /\ UNCHANGED <<decl, cache>>
    /\ stale' = IF ImportsCached(m) THEN stale \cup {m} ELSE stale
    /\ \A i \in DOMAIN imports[m] :
          i \in DOMAIN imports'[m] /\ imports'[m][i].mod = imports[m][i].mod

AnswerInv ==
    Acyclic => CacheRight /\ StackRight /\ LookupTimes /\ LookupRight /\ AnswerOK

\* There is a rank where no module imports itself.
LEMMA AcyclicRanks == Acyclic <=> Ranks # {}
  BY DEF Acyclic, Ranks

\* What the imports of a settled module reach is settled too.
LEMMA SettledImports ==
    ASSUME NEW m \in Module, Settled(m), NEW i \in DOMAIN imports[m]
    PROVE  Settled(imports[m][i].mod)
<1>1. PICK T \in SUBSET Module :
         /\ \A j \in DOMAIN imports[m] : imports[m][j].mod \in T
         /\ \A n \in T : \A j \in DOMAIN imports[n] : imports[n][j].mod \in T
         /\ \A n \in DOMAIN changed : changed[n] \notin T
  BY DEF Settled
<1>2. imports[m][i].mod \in T
  BY <1>1
<1>3. \A j \in DOMAIN imports[imports[m][i].mod] : imports[imports[m][i].mod][j].mod \in T
  BY <1>1, <1>2
<1> QED BY <1>1, <1>3 DEF Settled

\* While no declaration and no import is added, what is right stays right.
LEMMA RightSame ==
    ASSUME UNCHANGED <<decl, imports, changed>>
    PROVE  /\ \A m : Settled(m)' <=> Settled(m)
           /\ Ranks' = Ranks
           /\ \A S, symbol, x, flags, failed :
                Right(S, symbol, x, flags, failed)' <=> Right(S, symbol, x, flags, failed)
           /\ \A m, x, flags : Meant(m, x, flags)' = Meant(m, x, flags)
           /\ \A m, x, flags, n : Upto(m, x, flags, n)' = Upto(m, x, flags, n)
           /\ \A f : Offer(f)' = Offer(f)
           /\ \A f, g : CalledFrom(g, f)' <=> CalledFrom(g, f)
<1>1. /\ \A m, x, flags : Meant(m, x, flags)' = Meant(m, x, flags)
      /\ \A f : Offer(f)' = Offer(f)
      /\ \A g, f : CalledBy(g, f)' <=> CalledBy(g, f)
  BY MeantSame
<1>2. \A m : Settled(m)' <=> Settled(m)
  BY DEF Settled
<1>3. Ranks' = Ranks
  BY DEF Ranks
<1>4. ASSUME NEW S, NEW symbol, NEW x, NEW flags, NEW failed
      PROVE  Right(S, symbol, x, flags, failed)' <=> Right(S, symbol, x, flags, failed)
  <2>1. Conflict(S, x)' <=> Conflict(S, x)
    BY DEF Conflict, Overloadable
  <2> QED BY <2>1 DEF Right
<1>5. ASSUME NEW m, NEW x, NEW flags, NEW n
      PROVE  Upto(m, x, flags, n)' = Upto(m, x, flags, n)
  <2>1. ASSUME NEW i PROVE Gives(m, x, flags, i)' = Gives(m, x, flags, i)
    <3>1. Meant(imports[m][i].mod, x, Inherited(flags))' = Meant(imports[m][i].mod, x, Inherited(flags))
      BY <1>1 DEF Inherited
    <3> QED BY <3>1 DEF Gives, Visible
  <2> QED BY <2>1 DEF Upto, Skipped
<1>6. ASSUME NEW f, NEW g PROVE CalledFrom(g, f)' <=> CalledFrom(g, f)
  BY <1>1 DEF CalledFrom
<1> QED BY <1>1, <1>2, <1>3, <1>4, <1>5, <1>6

\* Nor does an error more make the result of a search in progress wrong.
LEMMA FrameKept ==
    ASSUME UNCHANGED <<decl, imports, changed>>, errors \in Nat, errors' \in Nat, errors <= errors',
           NEW f \in FrameSet
    PROVE  /\ \A S : Seen(f, S) => Seen(f, S)'
           /\ FrameRight(f) => FrameRight(f)'
<1>0. f.errors \in Nat
  BY DEF FrameSet
<1>1. ASSUME NEW S, Seen(f, S) PROVE Seen(f, S)'
  <2>1. Right(S, f.symbol, f.ident, f.flags, errors > f.errors)
    BY <1>1 DEF Seen
  <2>2. Right(S, f.symbol, f.ident, f.flags, errors' > f.errors)
    BY <1>0, <2>1 DEF Right
  <2> QED BY <2>2, RightSame DEF Seen
<1>2. Placed(f) => Placed(f)'
  BY <1>0 DEF Placed, FromImports, Skipped
<1>3. FrameSeen(f) => FrameSeen(f)'
  <2>1. /\ \A n : Upto(f.mod, f.ident, f.flags, n)' = Upto(f.mod, f.ident, f.flags, n)
        /\ Meant(f.mod, f.ident, f.flags)' = Meant(f.mod, f.ident, f.flags)
    BY RightSame
  <2>2. ASSUME NEW n, Seen(f, Upto(f.mod, f.ident, f.flags, n))
        PROVE  Seen(f, Upto(f.mod, f.ident, f.flags, n))'
    BY <1>1, <2>1, <2>2 DEF Seen
  <2>3. ASSUME Seen(f, Meant(f.mod, f.ident, f.flags))
        PROVE  Seen(f, Meant(f.mod, f.ident, f.flags))'
    BY <1>1, <2>1, <2>3 DEF Seen
  <2> QED BY <2>2, <2>3 DEF FrameSeen
<1>4. Settled(f.mod)' <=> Settled(f.mod)
  BY RightSame
<1>5. FrameRight(f) => FrameRight(f)'
  BY <1>2, <1>3, <1>4 DEF FrameRight
<1> QED BY <1>1, <1>5

\* The searches in progress are frames, and those below the top wait.
LEMMA Frames ==
    ASSUME TypeInv, stack # <<>>
    PROVE  /\ Depth \in Nat \ {0} /\ 1 \in 1..Depth /\ Depth \in 1..Depth /\ Top = stack[1]
           /\ Depth > 1 => 2 \in 2..Depth /\ 2 - 1 = 1
           /\ \A k \in 1..Depth : stack[k] \in FrameSet
           /\ \A k \in 2..Depth : k \in 1..Depth /\ stack[k].pc = "merge"
<1>1. Depth \in Nat \ {0} /\ Top = stack[1] /\ stack \in Seq(FrameSet)
  BY TopTypes DEF TypeInv, StackInv
<1>2. \A k \in 1..Depth : stack[k] \in FrameSet
  BY <1>1, ElementOfSeq DEF Depth
<1>3. \A k \in 2..Depth : k \in 1..Depth /\ stack[k].pc = "merge"
  BY <1>1 DEF TypeInv, StackInv
<1> QED BY <1>1, <1>2, <1>3

\* An entered search has the flags it goes by.
LEMMA EffectiveTwice ==
    ASSUME NEW flags
    PROVE  Effective(Effective(flags)) = Effective(flags)
  BY DEF Effective

\* A frame waits for one of its imports.
LEMMA AwaitedImport ==
    ASSUME Types, NEW f \in FrameSet, Placed(f), f.pc = "merge"
    PROVE  /\ f.i - 1 \in DOMAIN imports[f.mod] /\ f.i - 1 \in 1..Len(imports[f.mod])
           /\ Awaited(f) \in Module
           /\ Settled(f.mod) => Settled(Awaited(f))
           /\ \A rank \in Ranks : rank[Awaited(f)] < rank[f.mod]
<1>1. f.mod \in Module /\ f.i \in Nat
  BY DEF FrameSet
<1>2. Len(imports[f.mod]) \in Nat /\ DOMAIN imports[f.mod] = 1..Len(imports[f.mod])
  BY <1>1, ImportTypes
<1>3. f.i - 1 \in DOMAIN imports[f.mod]
  BY <1>1, <1>2 DEF Placed
<1>4. Awaited(f) \in Module
  BY <1>1, <1>3, ImportTypes DEF Awaited
<1>5. Settled(f.mod) => Settled(Awaited(f))
  BY <1>1, <1>3, SettledImports DEF Awaited
<1>6. \A rank \in Ranks : rank[Awaited(f)] < rank[f.mod]
  BY <1>1, <1>3 DEF Awaited, Ranks
<1> QED BY <1>2, <1>3, <1>4, <1>5, <1>6

\* A search returns what is right for it: so the one that called it, or the try,
\* gets what is right for it.
LEMMA PopRight ==
    ASSUME TypeInv, StackRight, stack # <<>>, Popped,
           UNCHANGED <<decl, imports, changed, lookup, errors>>, lookup.errors \in Nat, NEW failed \in BOOLEAN,
           NEW good \in BOOLEAN, Depth > 1 /\ Settled(stack[2].mod) => good,
           Settled(Top.mod) /\ good => Right(Meant(Top.mod, Top.ident, Effective(Top.flags)), ret',
                                     Top.ident, Top.flags, failed),
           failed => Top.pc # "enter" /\ errors > Top.errors
    PROVE  /\ StackRight'
           /\ stack' = <<>> /\ Settled(lookup.mod) /\ good => TryRight'
<1>1. /\ Depth \in Nat \ {0} /\ 1 \in 1..Depth /\ Depth \in 1..Depth /\ Top = stack[1]
      /\ Depth > 1 => 2 \in 2..Depth /\ 2 - 1 = 1
      /\ \A k \in 1..Depth : stack[k] \in FrameSet
      /\ \A k \in 2..Depth : k \in 1..Depth /\ stack[k].pc = "merge"
  BY Frames
<1>2. /\ stack' \in Seq(FrameSet) /\ Depth' = Depth - 1
      /\ \A k \in 1..Depth-1 : stack'[k] = stack[k+1] /\ k+1 \in 1..Depth /\ k+1 \in 2..Depth
  BY <1>1 DEF Popped
<1>3. errors \in Nat /\ errors' \in Nat /\ errors <= errors' /\ Types
  BY DEF TypeInv, Types
<1>4. \A f \in FrameSet : FrameRight(f) => FrameRight(f)'
  BY <1>3, FrameKept
<1>5. /\ \A f, g : CalledFrom(g, f)' <=> CalledFrom(g, f)
      /\ Ranks' = Ranks
      /\ \A m : Settled(m)' <=> Settled(m)
      /\ \A S, symbol, x, flags, fl :
                Right(S, symbol, x, flags, fl)' <=> Right(S, symbol, x, flags, fl)
      /\ \A m, x, flags : Meant(m, x, flags)' = Meant(m, x, flags)
      /\ \A f : Offer(f)' = Offer(f)
  BY RightSame
<1>6. \A k \in 1..Depth-1 : FrameRight(stack[k])'
  BY <1>1, <1>2, <1>4 DEF StackRight
<1>7. ASSUME NEW k \in 2..Depth-1 PROVE CalledFrom(stack[k-1], stack[k])'
  <2>1. k \in 1..Depth-1 /\ k-1 \in 1..Depth-1 /\ (k-1)+1 = k /\ (k+1)-1 = k /\ k+1 \in 2..Depth
    BY <1>1
  <2>2. stack'[k] = stack[k+1] /\ stack'[k-1] = stack[k]
    BY <1>2, <2>1
  <2>3. CalledFrom(stack[k], stack[k+1])
    BY <2>1 DEF StackRight
  <2> QED BY <1>5, <2>2, <2>3
<1>8. Descending'
  <2> SUFFICES ASSUME NEW rank \in Ranks, NEW k \in 1..Depth-1, NEW l \in 1..Depth-1, k < l
               PROVE  rank[stack'[k].mod] < rank[stack'[l].mod]
    BY <1>2, <1>5 DEF Descending
  <2>1. k+1 < l+1 /\ k+1 \in 1..Depth /\ l+1 \in 1..Depth
    BY <1>1
  <2> QED BY <1>2, <2>1 DEF StackRight, Descending
<1>9. stack' # <<>> => Depth > 1 /\ Top' = stack[2]
  <2> SUFFICES ASSUME stack' # <<>> PROVE Depth > 1 /\ Top' = stack[2]
    OBVIOUS
  <2>1. Depth' \in Nat \ {0}
    BY <1>2, EmptySeq DEF Depth
  <2>2. Depth > 1 /\ 1 \in 1..Depth-1 /\ 1 + 1 = 2
    BY <1>1, <1>2, <2>1
  <2>3. Top' = stack'[1]
    BY DEF Top
  <2> QED BY <1>2, <2>2, <2>3
<1>10. stack' # <<>> => FirstOf(stack[Depth])'
  <2> SUFFICES ASSUME stack' # <<>> PROVE FirstOf(stack[Depth])'
    OBVIOUS
  <2>1. Depth-1 \in 1..Depth-1 /\ (Depth-1)+1 = Depth
    BY <1>1, <1>9
  <2>2. stack'[Depth'] = stack[Depth]
    BY <1>2, <2>1
  <2>3. \A f : FirstOf(f) => FirstOf(f)'
    BY DEF FirstOf, Try, Effective
  <2>4. FirstOf(stack[Depth])
    BY DEF StackRight
  <2> QED BY <2>2, <2>3, <2>4
<1>11. Delivered'
  <2> SUFFICES ASSUME stack' # <<>>, Settled(stack[2].mod)
               PROVE  Right(Offer(stack[2]), ret', stack[2].ident, stack[2].flags,
                            errors > stack[2].errors)
    BY <1>5, <1>9 DEF Delivered, At
  <2> DEFINE f == stack[2]
  <2>1. f \in FrameSet /\ f.pc = "merge" /\ FrameRight(f) /\ CalledFrom(Top, f) /\ Top \in FrameSet
    <3>1. 2 \in 2..Depth /\ 2 - 1 = 1
      BY <1>1, <1>9
    <3>2. CalledFrom(stack[2-1], stack[2])
      BY <3>1 DEF StackRight
    <3> QED BY <1>1, <3>1, <3>2 DEF StackRight
  <2> HIDE DEF f
  <2>2. Placed(f)
    BY <2>1 DEF FrameRight
  <2>3. Top.mod = Awaited(f) /\ Top.ident = f.ident /\ Top.flags = Inherited(f.flags)
    BY <2>1 DEF CalledFrom, CalledBy
  <2>4. Settled(Top.mod)
    BY <1>3, <2>1, <2>2, <2>3, AwaitedImport DEF f
  <2>5. Effective(Top.flags) = Top.flags
    BY <2>3, InheritedEffective
  <2>10. good
    BY <1>9
  <2>6. Right(Offer(f), ret', f.ident, Inherited(f.flags), failed)
    BY <2>3, <2>4, <2>5, <2>10 DEF Offer
  <2>7. Right(Offer(f), ret', f.ident, f.flags, failed)
    BY <2>6, IgnoreErrorsKept, RightFlags
  <2>8. failed => errors > f.errors
    BY <1>3, <2>1 DEF CalledFrom, FrameSet
  <2>9. Right(Offer(f), ret', f.ident, f.flags, errors > f.errors)
    BY <2>7, <2>8 DEF Right
  <2> QED BY <2>9 DEF f
<1>12. ASSUME stack' = <<>>, Settled(lookup.mod), good PROVE TryRight'
  <2>1. Depth = 1
    <3>1. Depth' = 0
      BY <1>12, EmptySeq DEF Depth
    <3> QED BY <1>1, <1>2, <3>1
  <2>2. FirstOf(Top) /\ Top \in FrameSet
    BY <1>1, <2>1 DEF StackRight
  <2>3. Top.mod = lookup.mod /\ Top.ident = lookup.ident /\ Effective(Top.flags) = Effective(Try)
    BY <2>2, EffectiveTwice DEF FirstOf
  <2>4. Right(MeantBy(lookup.try), ret', lookup.ident, Top.flags, failed)
    BY <1>12, <2>3 DEF MeantBy, Try
  <2>5. "IgnoreErrors" \in Top.flags <=> "IgnoreErrors" \in Try
    BY <2>3, IgnoreErrorsKept
  <2>6. Right(MeantBy(lookup.try), ret', lookup.ident, Try, failed)
    BY <2>4, <2>5, RightFlags
  <2>7. failed => Top.pc # "enter" /\ lookup.errors <= Top.errors
    BY <2>2 DEF FirstOf
  <2>8. Top.errors \in Nat
    BY <2>2 DEF FrameSet
  <2>9. ASSUME failed PROVE lookup.errors < errors
    <3>1. errors > Top.errors /\ lookup.errors <= Top.errors
      BY <2>7, <2>9
    <3>2. lookup.errors \in Nat
      OBVIOUS
    <3> QED BY <1>3, <2>8, <3>1, <3>2
  <2>10. Right(MeantBy(lookup.try), ret', lookup.ident, Try, errors > lookup.errors)
    BY <2>6, <2>9 DEF Right
  <2>11. MeantBy(lookup.try)' = MeantBy(lookup.try)
    <3>1. \A m, x, flags : Meant(m, x, flags)' = Meant(m, x, flags)
      BY <1>5
    <3> QED BY <3>1 DEF MeantBy, Effective
  <2> QED BY <1>5, <2>10, <2>11 DEF TryRight, Try
<1> QED BY <1>2, <1>6, <1>7, <1>8, <1>10, <1>11, <1>12 DEF StackRight

\* A search is entered or goes on, and has seen what it should have.
LEMMA GoOnRight ==
    ASSUME TypeInv, StackRight, stack # <<>>, UNCHANGED <<decl, imports, changed, lookup>>,
           errors' \in Nat, errors <= errors', lookup.errors \in Nat, lookup.errors <= errors,
           NEW f \in FrameSet, WentOn(f), FrameRight(f)', f.pc # "merge", f.pc # "enter",
           f.mod = Top.mod, f.ident = Top.ident,
           f.flags = IF Top.pc = "enter" THEN Effective(Top.flags) ELSE Top.flags,
           f.errors = IF Top.pc = "enter" THEN errors ELSE Top.errors
    PROVE  StackRight' /\ stack' # <<>>
<1>1. /\ Depth \in Nat \ {0} /\ 1 \in 1..Depth /\ Depth \in 1..Depth /\ Top = stack[1]
      /\ Depth > 1 => 2 \in 2..Depth /\ 2 - 1 = 1
      /\ \A k \in 1..Depth : stack[k] \in FrameSet
      /\ \A k \in 2..Depth : k \in 1..Depth /\ stack[k].pc = "merge"
  BY Frames
<1>2. /\ stack' \in Seq(FrameSet) /\ Depth' = Depth /\ stack'[1] = f
      /\ \A k \in 2..Depth : stack'[k] = stack[k]
      /\ \A k \in 1..Depth : k = 1 \/ k \in 2..Depth
  BY <1>1 DEF WentOn
<1>3. errors \in Nat /\ Types
  BY DEF TypeInv, Types
<1>4. \A g \in FrameSet : FrameRight(g) => FrameRight(g)'
  BY <1>3, FrameKept
<1>5. /\ \A g, h : CalledFrom(g, h)' <=> CalledFrom(g, h)
      /\ Ranks' = Ranks
  BY RightSame
<1>6. \A k \in 1..Depth : FrameRight(stack[k])'
  BY <1>1, <1>2, <1>4 DEF StackRight
<1>7. ASSUME NEW k \in 2..Depth PROVE CalledFrom(stack[k-1], stack[k])'
  <2>1. CalledFrom(stack[k-1], stack[k]) /\ stack[k] \in FrameSet /\ Placed(stack[k])
    BY <1>1 DEF StackRight, FrameRight
  <2>2. CASE k = 2
    <3>1. stack'[k-1] = f /\ stack[k-1] = Top /\ Depth > 1
      BY <1>1, <1>2, <2>2
    <3>2. CalledBy(f, stack[k])
      <4>1. Top.flags = Inherited(stack[k].flags)
        BY <2>1, <3>1 DEF CalledFrom, CalledBy
      <4>2. Effective(Top.flags) = Top.flags
        BY <4>1, InheritedEffective
      <4> QED BY <2>1, <3>1, <4>2 DEF CalledFrom, CalledBy
    <3>3. stack[k].errors <= f.errors
      <4>1. stack[k].errors <= errors
        BY <1>1, <2>1 DEF Placed
      <4> QED BY <2>1, <3>1, <4>1 DEF CalledFrom
    <3>4. CalledFrom(f, stack[k])
      BY <3>2, <3>3 DEF CalledFrom
    <3> QED BY <1>2, <1>5, <3>1, <3>4
  <2>3. CASE k # 2
    <3>1. stack'[k-1] = stack[k-1]
      BY <1>1, <1>2, <2>3
    <3> QED BY <1>2, <1>5, <2>1, <3>1
  <2> QED BY <2>2, <2>3
<1>8. Descending'
  <2>1. \A k \in 1..Depth : stack'[k].mod = stack[k].mod
    BY <1>1, <1>2
  <2> QED BY <1>2, <1>5, <2>1 DEF StackRight, Descending
<1>9. FirstOf(stack[Depth])'
  <2>1. FirstOf(stack[Depth])
    BY DEF StackRight
  <2>2. CASE Depth = 1
    <3>1. stack'[Depth'] = f /\ FirstOf(Top) /\ Top \in FrameSet
      BY <1>1, <1>2, <2>1, <2>2
    <3>2. f.mod = lookup.mod /\ f.ident = lookup.ident /\ f.flags = Effective(Try)
      BY <3>1 DEF FirstOf
    <3>3. lookup.errors <= f.errors
      BY <3>1 DEF FirstOf
    <3>4. FirstOf(f)'
      BY <3>2, <3>3 DEF FirstOf, Try, Effective
    <3> QED BY <3>1, <3>4
  <2>3. CASE Depth # 1
    <3>1. Depth \in 2..Depth
      BY <1>1, <2>3
    <3>2. stack'[Depth'] = stack[Depth] /\ stack[Depth].pc = "merge"
      BY <1>1, <1>2, <3>1
    <3>3. \A g : g.pc = "merge" /\ FirstOf(g) => FirstOf(g)'
      BY DEF FirstOf, Try, Effective
    <3> QED BY <2>1, <3>2, <3>3
  <2> QED BY <2>2, <2>3
<1>10. ~At("merge")' /\ stack' # <<>>
  <2>1. stack' # <<>>
    BY <1>1, <1>2, EmptySeq DEF Depth
  <2> QED BY <1>2, <2>1 DEF At, Top
<1> QED BY <1>2, <1>6, <1>7, <1>8, <1>9, <1>10 DEF StackRight, Delivered

\* A search calls another one for the import it came to.
LEMMA CallRight ==
    ASSUME TypeInv, StackRight, stack # <<>>,
           UNCHANGED <<decl, imports, changed, lookup, errors>>,
           NEW f \in FrameSet, NEW g \in FrameSet, Called(g, f), FrameRight(f), CalledBy(g, f),
           g.pc = "enter", g.i = 1, f.pc = "merge", Top.pc # "enter",
           f.mod = Top.mod, f.ident = Top.ident, f.flags = Top.flags, f.errors = Top.errors
    PROVE  StackRight' /\ stack' # <<>>
<1>1. /\ Depth \in Nat \ {0} /\ 1 \in 1..Depth /\ Depth \in 1..Depth /\ Top = stack[1]
      /\ Depth > 1 => 2 \in 2..Depth /\ 2 - 1 = 1
      /\ \A k \in 1..Depth : stack[k] \in FrameSet
      /\ \A k \in 2..Depth : k \in 1..Depth /\ stack[k].pc = "merge"
  BY Frames
<1>2. /\ Depth' = Depth + 1 /\ stack'[1] = g /\ stack'[2] = f
      /\ \A k \in 2..Depth : stack'[k+1] = stack[k]
  BY <1>1 DEF Called
<1>3. errors \in Nat /\ errors' \in Nat /\ errors <= errors' /\ Types
  BY DEF TypeInv, Types
<1>4. \A h \in FrameSet : FrameRight(h) => FrameRight(h)'
  BY <1>3, FrameKept
<1>5. /\ \A h, j : CalledFrom(h, j)' <=> CalledFrom(h, j)
      /\ Ranks' = Ranks
  BY RightSame
<1>6. ASSUME NEW k \in 3..Depth+1
      PROVE  /\ k - 1 \in 2..Depth /\ k - 1 \in 1..Depth /\ stack'[k] = stack[k-1]
  <2>1. k - 1 \in 2..Depth /\ (k - 1) + 1 = k /\ k - 1 \in 1..Depth
    BY <1>1
  <2> QED BY <1>2, <2>1
<1>7. \A k \in 1..Depth+1 : k = 1 \/ k = 2 \/ k \in 3..Depth+1
  BY <1>1
<1>8. FrameRight(g)
  BY DEF FrameRight, Placed, FrameSeen
<1>9. ASSUME NEW k \in 1..Depth+1 PROVE FrameRight(stack[k])'
  <2>1. stack'[k] \in FrameSet /\ FrameRight(stack'[k])
    BY <1>1, <1>2, <1>6, <1>7, <1>8 DEF StackRight
  <2> QED BY <1>4, <2>1
<1>10. ASSUME NEW k \in 2..Depth+1 PROVE CalledFrom(stack[k-1], stack[k])'
  <2>1. CASE k = 2
    <3>1. CalledFrom(g, f)
      BY DEF CalledFrom
    <3>2. k - 1 = 1
      BY <2>1
    <3> QED BY <1>2, <1>5, <2>1, <3>1, <3>2
  <2>2. CASE k \in 3..Depth+1
    <3>1. stack'[k] = stack[k-1] /\ CalledFrom(stack[(k-1)-1], stack[k-1])
      BY <1>6, <2>2 DEF StackRight
    <3>2. CASE k = 3
      <4>1. stack'[k-1] = f /\ stack[(k-1)-1] = Top
        BY <1>1, <1>2, <3>2
      <4>2. CalledFrom(f, stack[k-1])
        BY <3>1, <4>1 DEF CalledFrom, CalledBy
      <4> QED BY <1>5, <3>1, <4>1, <4>2
    <3>3. CASE k # 3
      <4>1. k - 1 \in 3..Depth+1
        BY <1>1, <2>2, <3>3
      <4>2. stack'[k-1] = stack[(k-1)-1]
        BY <1>6, <4>1
      <4> QED BY <1>5, <3>1, <4>2
    <3> QED BY <3>2, <3>3
  <2>3. k = 2 \/ k \in 3..Depth+1
    BY <1>1
  <2> QED BY <2>1, <2>2, <2>3
<1>11. Descending'
  <2> SUFFICES ASSUME NEW rank \in Ranks, NEW k \in 1..Depth+1, NEW l \in 1..Depth+1, k < l
               PROVE  rank[stack'[k].mod] < rank[stack'[l].mod]
    BY <1>2, <1>5 DEF Descending
  <2>1. \A m \in Module : rank[m] \in Int
    <3>1. rank \in [Module -> 1..Cardinality(Module)]
      BY DEF Ranks
    <3> QED BY <3>1
  <2>2. rank[g.mod] < rank[Top.mod]
    BY <1>3, AwaitedImport DEF FrameRight, CalledBy
  <2>3. \A j \in 2..Depth+1 : j-1 \in 1..Depth /\ stack'[j].mod = stack[j-1].mod
    <3> TAKE j \in 2..Depth+1
    <3>1. j = 2 \/ j \in 3..Depth+1
      BY <1>1
    <3>2. j = 2 => j - 1 = 1
      OBVIOUS
    <3> QED BY <1>1, <1>2, <1>6, <3>1, <3>2
  <2>4. \A i, j \in 1..Depth : i < j => rank[stack[i].mod] < rank[stack[j].mod]
    BY DEF StackRight, Descending
  <2>5. \A j \in 1..Depth : stack[j].mod \in Module
    BY <1>1 DEF FrameSet
  <2>6. l \in 2..Depth+1
    BY <1>1
  <2>7. CASE k = 1
    <3>1. l - 1 = 1 \/ 1 < l - 1
      BY <1>1, <2>6
    <3>2. rank[Top.mod] <= rank[stack[l-1].mod]
      BY <1>1, <2>1, <2>3, <2>4, <2>5, <2>6, <3>1
    <3>3. g.mod \in Module /\ stack'[k].mod = g.mod /\ stack'[l].mod = stack[l-1].mod
      BY <1>2, <2>3, <2>6, <2>7 DEF FrameSet
    <3>4. rank[g.mod] \in Int /\ rank[Top.mod] \in Int /\ rank[stack[l-1].mod] \in Int
      BY <1>1, <2>1, <2>3, <2>5, <2>6, <3>3
    <3> QED BY <2>2, <3>2, <3>3, <3>4
  <2>8. CASE k # 1
    <3>1. k \in 2..Depth+1 /\ k - 1 < l - 1
      BY <1>1, <2>8
    <3> QED BY <2>3, <2>4, <2>6, <3>1
  <2> QED BY <2>7, <2>8
<1>12. FirstOf(stack[Depth])'
  <2>1. FirstOf(stack[Depth])
    BY DEF StackRight
  <2>2. \A h : FirstOf(h) => FirstOf(h)'
    BY DEF FirstOf, Try, Effective
  <2>3. CASE Depth = 1
    <3>1. stack'[Depth'] = f
      BY <1>2, <2>3
    <3>2. FirstOf(f)
      BY <1>1, <2>1, <2>3 DEF FirstOf
    <3> QED BY <2>2, <3>1, <3>2
  <2>4. CASE Depth # 1
    <3>1. Depth \in 2..Depth
      BY <1>1, <2>4
    <3>2. stack'[Depth'] = stack[Depth]
      BY <1>2, <3>1
    <3> QED BY <2>1, <2>2, <3>2
  <2> QED BY <2>3, <2>4
<1>13. ~At("merge")' /\ stack' # <<>>
  <2>1. stack' # <<>>
    <3>1. Depth' # 0
      BY <1>1, <1>2
    <3> QED BY <3>1, EmptySeq DEF Depth
  <2> QED BY <1>2, <2>1 DEF At, Top
<1> QED BY <1>2, <1>9, <1>10, <1>11, <1>12, <1>13 DEF StackRight, Delivered

\* What the top search is worth.
LEMMA TopRight ==
    ASSUME TypeInv, StackRight, stack # <<>>
    PROVE  /\ Top \in FrameSet /\ FrameRight(Top) /\ Placed(Top)
           /\ Top.mod \in Module /\ Top.ident \in Ident /\ Top.flags \in SUBSET Flag
           /\ Top.symbol \in SUBSET Module /\ Top.errors \in Nat /\ Top.i \in Nat \ {0}
           /\ Types /\ errors \in Nat
           /\ Top.pc # "enter" => Effective(Top.flags) = Top.flags
<1>1. /\ Depth \in Nat \ {0} /\ 1 \in 1..Depth /\ Depth \in 1..Depth /\ Top = stack[1]
      /\ Depth > 1 => 2 \in 2..Depth /\ 2 - 1 = 1
      /\ \A k \in 1..Depth : stack[k] \in FrameSet
  BY Frames
<1>2. Top \in FrameSet /\ FrameRight(Top) /\ Placed(Top)
  BY <1>1 DEF StackRight, FrameRight
<1>3. ASSUME Top.pc # "enter" PROVE Effective(Top.flags) = Top.flags
  <2>1. CASE Depth = 1
    <3>1. FirstOf(Top)
      BY <1>1, <2>1 DEF StackRight
    <3>2. Top.flags = Effective(Try)
      BY <1>3, <3>1 DEF FirstOf
    <3> QED BY <3>2, EffectiveTwice
  <2>2. CASE Depth > 1
    <3>1. CalledFrom(stack[2-1], stack[2])
      BY <1>1, <2>2 DEF StackRight
    <3>2. Top.flags = Inherited(stack[2].flags)
      BY <1>1, <2>2, <3>1 DEF CalledFrom, CalledBy
    <3> QED BY <3>2, InheritedEffective
  <2> QED BY <1>1, <2>1, <2>2
<1> QED BY <1>2, <1>3 DEF FrameSet, TypeInv, Types

\* Where no module imports itself, no search comes back to a module.
LEMMA NeverBack ==
    ASSUME TypeInv, StackRight, Ranks # {}, At("enter")
    PROVE  ~InSearch(Top.mod)
<1>1. /\ Depth \in Nat \ {0} /\ 1 \in 1..Depth /\ Top = stack[1] /\ Top.mod \in Module
      /\ ~Searching(1)
  BY Frames, TopRight DEF At, Searching
<1>2. PICK rank \in Ranks : TRUE
  OBVIOUS
<1>3. rank[Top.mod] \in Int
  BY <1>1 DEF Ranks
<1>4. \A k \in 1..Depth : 1 < k => rank[Top.mod] < rank[stack[k].mod]
  BY <1>1 DEF StackRight, Descending
<1>5. ASSUME NEW k \in 1..Depth, Searching(k), stack[k].mod = Top.mod PROVE FALSE
  <2>1. 1 < k
    BY <1>1, <1>5
  <2> QED BY <1>3, <1>4, <1>5, <2>1
<1>6. insearch[Top.mod] => \E k \in 1..Depth : Searching(k) /\ stack[k].mod = Top.mod
  BY <1>1 DEF TypeInv, StackInv
<1> QED BY <1>5, <1>6 DEF InSearch

\* What a step of a search does for the lookup it is part of.
StepRight ==
    /\ CacheRight' /\ StackRight'
    /\ stack' = <<>> /\ Settled(lookup.mod) /\ lookup.mod \notin stale' => TryRight'
    /\ lookup.mod \in stale /\ lookup.mod \notin stale' => stack' = <<>>
    /\ errors' \in Nat /\ errors <= errors'

\* The cache is right while nothing is declared, imported or cached.
LEMMA CacheKept ==
    ASSUME UNCHANGED <<decl, imports, changed, cache>>, stale \subseteq stale', CacheRight
    PROVE  CacheRight'
<1>1. /\ \A m : Settled(m)' <=> Settled(m)
      /\ \A S, symbol, x, flags, fl :
            Right(S, symbol, x, flags, fl)' <=> Right(S, symbol, x, flags, fl)
      /\ \A m, x, flags : Meant(m, x, flags)' = Meant(m, x, flags)
  BY RightSame
<1> QED BY <1>1 DEF CacheRight

\* What a settled module imports was not changed, so its cache is not stale.
LEMMA SettledFresh ==
    ASSUME Types, NEW m \in Module, Settled(m), NEW i \in DOMAIN imports[m]
    PROVE  imports[m][i].mod \notin stale
<1>1. PICK T \in SUBSET Module :
         /\ \A j \in DOMAIN imports[m] : imports[m][j].mod \in T
         /\ \A n \in DOMAIN changed : changed[n] \notin T
  BY DEF Settled
<1> QED BY <1>1 DEF Types

\* The search that returns last is that of the module the lookup asks.
LEMMA LastFirst ==
    ASSUME TypeInv, StackRight, stack # <<>>, Popped, stack' = <<>>
    PROVE  Top.mod = lookup.mod /\ Depth = 1
<1>1. Depth \in Nat \ {0} /\ Top = stack[1] /\ Depth' = Depth - 1
  BY Frames DEF Popped
<1>2. Depth' = 0
  BY EmptySeq DEF Depth
<1>3. Depth = 1
  BY <1>1, <1>2
<1> QED BY <1>1, <1>3 DEF StackRight, FirstOf

\* The cached answer is right, and without cycles there is no other at once.
LEMMA AtOnceRight ==
    ASSUME TypeInv, StackRight, CacheRight, Ranks # {}, lookup.errors \in Nat, SearchAtOnce
    PROVE  StepRight
<1>1. /\ stack # <<>> /\ At("enter") /\ stack' = Tail(stack)
      /\ ~InSearch(Top.mod) => Cached(Top.mod, Top.ident, Effective(Top.flags))
                               /\ ret' = cache[Top.mod].symbol
      /\ UNCHANGED <<decl, imports, cache, errors, lookup, changed, stale>>
  BY DEF SearchAtOnce, At
<1>2. ~InSearch(Top.mod)
  BY <1>1, NeverBack
<1>3. Top.mod \in Module /\ Top.ident \in Ident /\ errors \in Nat
  BY <1>1, TopRight
<1>4. /\ cache[Top.mod].ident = Top.ident /\ cache[Top.mod].flags = Effective(Top.flags)
      /\ ret' = cache[Top.mod].symbol /\ cache[Top.mod].ident # NoIdent
  BY <1>1, <1>2, <1>3, ModuleAssumption DEF Cached
<1>5. ASSUME Settled(Top.mod), Top.mod \notin stale
      PROVE  Right(Meant(Top.mod, Top.ident, Effective(Top.flags)), ret',
                   Top.ident, Top.flags, FALSE)
  <2>1. Right(Meant(Top.mod, Top.ident, Effective(Top.flags)), ret',
              Top.ident, Effective(Top.flags), FALSE)
    BY <1>3, <1>4, <1>5 DEF CacheRight
  <2> QED BY <2>1, IgnoreErrorsKept, RightFlags
<1>6. Popped
  BY <1>1, PopShape DEF TypeInv, StackInv
<1>7. /\ StackRight'
      /\ stack' = <<>> /\ Settled(lookup.mod) /\ Top.mod \notin stale => TryRight'
  <2> DEFINE good == Top.mod \notin stale
  <2>1. ASSUME Depth > 1, Settled(stack[2].mod) PROVE good
    <3>1. /\ stack[2] \in FrameSet /\ stack[2].pc = "merge" /\ Top = stack[1]
          /\ FrameRight(stack[2]) /\ CalledFrom(stack[1], stack[2])
      <4>1. 2 \in 2..Depth /\ 2 - 1 = 1 /\ 2 \in 1..Depth
        BY <1>1, <2>1, Frames
      <4>2. CalledFrom(stack[2-1], stack[2])
        BY <4>1 DEF StackRight
      <4> QED BY <1>1, <4>1, <4>2, Frames DEF StackRight
    <3>2. Top.mod = Awaited(stack[2])
      BY <3>1 DEF CalledFrom, CalledBy
    <3>3. stack[2].i - 1 \in DOMAIN imports[stack[2].mod] /\ stack[2].mod \in Module
      BY <3>1, AwaitedImport DEF FrameRight, FrameSet, TypeInv
    <3> QED BY <2>1, <3>2, <3>3, SettledFresh DEF Awaited, TypeInv
  <2> HIDE DEF good
  <2>2. good \in BOOLEAN /\ (Settled(Top.mod) /\ good =>
           Right(Meant(Top.mod, Top.ident, Effective(Top.flags)), ret',
                 Top.ident, Top.flags, FALSE))
    BY <1>5 DEF good
  <2>3. /\ StackRight'
        /\ stack' = <<>> /\ Settled(lookup.mod) /\ good => TryRight'
    BY <1>1, <1>6, <2>1, <2>2, PopRight
  <2> QED BY <2>3 DEF good
<1>8. CacheRight'
  BY <1>1, CacheKept
<1>9. stack' = <<>> => Top.mod = lookup.mod
  BY <1>1, <1>6, LastFirst
<1> QED BY <1>1, <1>3, <1>7, <1>8, <1>9 DEF StepRight

\* The module's own symbol is all that is meant; else nothing was seen yet.
LEMMA EnterRight ==
    ASSUME TypeInv, StackRight, CacheRight, lookup.errors \in Nat, lookup.errors <= errors,
           SearchEnter
    PROVE  StepRight
<1>1. /\ stack # <<>> /\ Top.pc = "enter"
      /\ UNCHANGED <<decl, imports, cache, errors, lookup, changed, stale>>
  BY DEF SearchEnter, At
<1>2. PICK f \in FrameSet :
          /\ WentOn(f) /\ f.mod = Top.mod /\ f.ident = Top.ident
          /\ f.flags = Effective(Top.flags) /\ f.i = Top.i /\ f.errors = errors
          /\ LET here == /\ "SearchImportsOnly" \notin f.flags
                         /\ decl[f.mod][f.ident] # "none"
             IN \/ here /\ f.pc = "leave" /\ f.symbol = {f.mod}
                \/ ~here /\ f.pc = "scan" /\ f.symbol = {}
  BY EnterShape
<1>3. /\ Types /\ errors \in Nat /\ Top.i = 1 /\ f.mod \in Module /\ f.ident \in Ident
      /\ f.flags \in SUBSET Flag
  BY <1>1, TopRight DEF Placed, FrameSet
<1>4. FrameRight(f)
  <2>1. CASE /\ "SearchImportsOnly" \notin f.flags /\ decl[f.mod][f.ident] # "none"
             /\ f.pc = "leave" /\ f.symbol = {f.mod}
    <3>1. Meant(f.mod, f.ident, f.flags) = {f.mod}
      BY <2>1 DEF Meant
    <3>2. Seen(f, {f.mod})
      BY <1>3, <2>1, NoConflict DEF Seen, Right
    <3> QED BY <1>2, <1>3, <2>1, <3>1, <3>2 DEF FrameRight, Placed, FrameSeen
  <2>2. CASE FromImports(f.mod, f.ident, f.flags) /\ f.pc = "scan" /\ f.symbol = {}
    <3>1. Upto(f.mod, f.ident, f.flags, 0) = {}
      BY <1>3, <2>2, UptoSteps
    <3>2. Seen(f, {})
      BY <2>2, NoConflict DEF Seen, Right
    <3>3. f.i - 1 = 0 /\ 0 \in 0..Len(imports[f.mod])
      BY <1>2, <1>3, ImportTypes
    <3>4. Seen(f, Upto(f.mod, f.ident, f.flags, f.i - 1))
      BY <3>1, <3>2, <3>3
    <3>5. FrameSeen(f)
      BY <2>2, <3>4 DEF FrameSeen
    <3>6. Placed(f)
      BY <1>2, <1>3, <2>2, <3>3 DEF Placed
    <3> QED BY <3>5, <3>6 DEF FrameRight
  <2> QED BY <1>2, <2>1, <2>2 DEF FromImports
<1>5. FrameRight(f)'
  BY <1>1, <1>3, <1>4, FrameKept
<1>6. StackRight' /\ stack' # <<>>
  BY <1>1, <1>2, <1>3, <1>5, GoOnRight
<1>7. CacheRight'
  BY <1>1, CacheKept
<1> QED BY <1>1, <1>3, <1>6, <1>7 DEF StepRight

\* A skipped import gives nothing; what another one gives is asked for.
LEMMA ImportRight ==
    ASSUME TypeInv, StackRight, CacheRight, lookup.errors \in Nat, lookup.errors <= errors,
           SearchImport
    PROVE  StepRight
<1> DEFINE entry == imports[Top.mod][Top.i]
           called == Frame(entry.mod, Top.ident, Inherited(Top.flags))
<1>1. /\ stack # <<>> /\ Top.pc = "scan" /\ Top.i <= Len(imports[Top.mod])
      /\ UNCHANGED <<decl, imports, cache, errors, lookup, changed, stale>>
  BY DEF SearchImport, At
<1>2. PICK f \in FrameSet :
          /\ f.mod = Top.mod /\ f.ident = Top.ident /\ f.flags = Top.flags
          /\ f.i = Top.i + 1 /\ f.symbol = Top.symbol /\ f.errors = Top.errors
          /\ \/ Skipped(entry, Top.flags) /\ f.pc = "scan" /\ WentOn(f)
             \/ ~Skipped(entry, Top.flags) /\ f.pc = "merge" /\ Called(called, f)
  BY ImportShape
<1>3. /\ Types /\ errors \in Nat /\ Top.mod \in Module /\ Top.ident \in Ident
      /\ Top.flags \in SUBSET Flag /\ Top.i \in Nat \ {0} /\ FrameRight(Top) /\ Placed(Top)
  BY <1>1, TopRight
<1>4. /\ Top.errors <= errors /\ FromImports(Top.mod, Top.ident, Top.flags)
      /\ Settled(Top.mod) => Seen(Top, Upto(Top.mod, Top.ident, Top.flags, Top.i - 1))
  BY <1>1, <1>3 DEF FrameRight, Placed, FrameSeen
<1>5. /\ Len(imports[Top.mod]) \in Nat /\ Top.i \in 1..Len(imports[Top.mod])
      /\ DOMAIN imports[Top.mod] = 1..Len(imports[Top.mod]) /\ entry.mod \in Module
  BY <1>1, <1>3, ImportTypes
<1>6. f.i - 1 = Top.i /\ f.i - 2 = Top.i - 1 /\ f.i > 1 /\ f.i - 1 \in 0..Len(imports[f.mod])
  BY <1>2, <1>3, <1>5
<1>7. \A S : Seen(Top, S) => Seen(f, S)
  BY <1>2 DEF Seen
<1>8. CASE Skipped(entry, Top.flags) /\ f.pc = "scan" /\ WentOn(f)
  <2>1. Upto(Top.mod, Top.ident, Top.flags, Top.i)
          = Upto(Top.mod, Top.ident, Top.flags, Top.i - 1)
    BY <1>3, <1>4, <1>5, <1>8, UptoSteps
  <2>2. FrameSeen(f) \/ ~Settled(f.mod)
    BY <1>2, <1>4, <1>6, <1>7, <1>8, <2>1 DEF FrameSeen
  <2>3. Placed(f)
    BY <1>2, <1>4, <1>6, <1>8 DEF Placed
  <2>4. FrameRight(f)
    BY <2>2, <2>3 DEF FrameRight
  <2>5. FrameRight(f)'
    BY <1>1, <1>3, <2>4, FrameKept
  <2>6. StackRight' /\ stack' # <<>>
    BY <1>1, <1>2, <1>3, <1>8, <2>5, GoOnRight
  <2> QED BY <1>1, <1>3, <2>6, CacheKept DEF StepRight
<1>9. CASE ~Skipped(entry, Top.flags) /\ f.pc = "merge" /\ Called(called, f)
  <2>1. FrameSeen(f) \/ ~Settled(f.mod)
    BY <1>2, <1>4, <1>6, <1>7, <1>9 DEF FrameSeen
  <2>2. Placed(f)
    BY <1>2, <1>4, <1>6, <1>9 DEF Placed
  <2>3. FrameRight(f)
    BY <2>1, <2>2 DEF FrameRight
  <2>4. /\ called \in FrameSet /\ called.pc = "enter" /\ called.i = 1 /\ called.mod = entry.mod
        /\ called.ident = Top.ident /\ called.flags = Inherited(Top.flags)
    BY <1>3, <1>5, NewFrame, FlagTypes DEF Frame
  <2>5. CalledBy(called, f)
    BY <1>2, <1>6, <2>4 DEF CalledBy, Awaited
  <2> HIDE DEF called
  <2>6. StackRight' /\ stack' # <<>>
    BY <1>1, <1>2, <1>9, <2>3, <2>4, <2>5, CallRight
  <2> QED BY <1>1, <1>3, <2>6, CacheKept DEF StepRight
<1> QED BY <1>2, <1>8, <1>9

\* With its current import, the top search has seen so much more.
LEMMA OfferedUpto ==
    ASSUME TypeInv, StackRight, stack # <<>>, Top.pc = "merge"
    PROVE  /\ Upto(Top.mod, Top.ident, Top.flags, Top.i - 2) \in SUBSET Module
           /\ Offer(Top) \in SUBSET Module
           /\ Meant(Top.mod, Top.ident, Top.flags) \in SUBSET Module
           /\ Upto(Top.mod, Top.ident, Top.flags, Top.i - 1)
                = Upto(Top.mod, Top.ident, Top.flags, Top.i - 2)
                    \cup {k \in Offer(Top) : Visible({k}, Top.ident, Top.flags)}
           /\ Upto(Top.mod, Top.ident, Top.flags, Top.i - 2)
                \cup {k \in Offer(Top) : Visible({k}, Top.ident, Top.flags)}
                  \subseteq Meant(Top.mod, Top.ident, Top.flags)
<1>1. /\ Types /\ Top.mod \in Module /\ Top.ident \in Ident /\ Top \in FrameSet
      /\ Top.flags \in SUBSET Flag /\ Top.i \in Nat \ {0} /\ Placed(Top)
  BY TopRight
<1>2. FromImports(Top.mod, Top.ident, Top.flags) /\ ~Skipped(imports[Top.mod][Top.i - 1], Top.flags)
  BY <1>1 DEF Placed
<1>3. Top.i - 1 \in 1..Len(imports[Top.mod]) /\ Awaited(Top) \in Module
  BY <1>1, AwaitedImport
<1>4. Top.i - 2 = (Top.i - 1) - 1 /\ Top.i - 2 \in Nat
  BY <1>1, <1>3
<1>5. /\ \A n \in Nat : Upto(Top.mod, Top.ident, Top.flags, n) \in SUBSET Module
      /\ \A n \in 1..Len(imports[Top.mod]) :
            /\ ~Skipped(imports[Top.mod][n], Top.flags) =>
                  Upto(Top.mod, Top.ident, Top.flags, n)
                    = Upto(Top.mod, Top.ident, Top.flags, n - 1)
                        \cup Gives(Top.mod, Top.ident, Top.flags, n)
            /\ Upto(Top.mod, Top.ident, Top.flags, n) \subseteq Meant(Top.mod, Top.ident, Top.flags)
  BY <1>1, <1>2, UptoSteps
<1>6. Gives(Top.mod, Top.ident, Top.flags, Top.i - 1)
        = {k \in Offer(Top) : Visible({k}, Top.ident, Top.flags)}
  BY DEF Gives, Offer, Awaited
<1>7. Offer(Top) \in SUBSET Module /\ Meant(Top.mod, Top.ident, Top.flags) \in SUBSET Module
  BY <1>1, <1>3, MeantModules DEF Offer
<1> QED BY <1>2, <1>3, <1>4, <1>5, <1>6, <1>7

\* What an import gave is taken, or the scan ends with a conflict.
LEMMA TakeRight ==
    ASSUME TypeInv, StackRight, CacheRight, lookup.errors \in Nat, lookup.errors <= errors,
           SearchMerge
    PROVE  StepRight
<1> DEFINE m == Top.mod
           x == Top.ident
           n == Top.i - 1
           S == Upto(m, x, Top.flags, Top.i - 2)
           O == Offer(Top)
           V == {k \in O : Visible({k}, x, Top.flags)}
           M == Meant(m, x, Top.flags)
           conflict == Brought(Top) /\ ~Agrees(Top)
           failed == errors > Top.errors
<1>1. /\ stack # <<>> /\ Top.pc = "merge" /\ At("merge")
      /\ UNCHANGED <<decl, imports, cache, ret, lookup, changed, stale>>
      /\ errors' = errors + IF conflict /\ "IgnoreErrors" \notin Top.flags THEN 1 ELSE 0
  BY DEF SearchMerge, At, Brought, Agrees
<1>2. PICK f \in FrameSet :
          /\ WentOn(f) /\ f.mod = Top.mod /\ f.ident = Top.ident /\ f.flags = Top.flags
          /\ f.i = Top.i /\ f.errors = Top.errors
          /\ f.pc = IF Brought(Top) /\ ~Agrees(Top) THEN "found" ELSE "scan"
          /\ f.symbol = IF Brought(Top) /\ Agrees(Top) THEN Top.symbol \cup ret ELSE Top.symbol
  BY MergeShape
<1>3. /\ Types /\ errors \in Nat /\ m \in Module /\ x \in Ident /\ Top \in FrameSet
      /\ Top.flags \in SUBSET Flag /\ Top.i \in Nat \ {0} /\ FrameRight(Top) /\ Placed(Top)
      /\ Top.errors \in Nat
  BY <1>1, TopRight
<1>4. /\ Top.errors <= errors /\ FromImports(m, x, Top.flags)
      /\ Top.i > 1 /\ Top.i - 1 \in 0..Len(imports[m]) /\ ~Skipped(imports[m][n], Top.flags)
      /\ Settled(m) => Seen(Top, S)
  BY <1>1, <1>3 DEF FrameRight, Placed, FrameSeen
<1>5. n \in 1..Len(imports[m]) /\ n \in DOMAIN imports[m] /\ n \in Nat /\ Awaited(Top) \in Module
  BY <1>1, <1>3, AwaitedImport
<1>6. Settled(m) => Right(O, ret, x, Top.flags, failed)
  BY <1>1 DEF StackRight, Delivered
<1>7. \/ O = {Awaited(Top)} /\ ~Visible({Awaited(Top)}, x, Top.flags)
      \/ \A k \in O : Visible({k}, x, Top.flags)
  BY OfferVisible DEF Offer
<1>8. /\ S \in SUBSET Module /\ O \in SUBSET Module /\ M \in SUBSET Module
      /\ Upto(m, x, Top.flags, n) = S \cup V /\ S \cup V \subseteq M
  BY <1>1, OfferedUpto
<1>9. errors' \in Nat /\ errors <= errors'
  BY <1>1, <1>3
<1>10. failed \in BOOLEAN
  OBVIOUS
<1>11. (errors' > Top.errors) \in BOOLEAN
  OBVIOUS
<1>12. conflict => (errors' > Top.errors) \/ "IgnoreErrors" \in Top.flags
  BY <1>1, <1>3, <1>4
<1>13. ~conflict => errors' = errors
  BY <1>1, <1>3
<1> HIDE DEF S, O, M, failed
<1>14. ASSUME Settled(m)
       PROVE  IF conflict
              THEN \A now \in BOOLEAN : now \/ "IgnoreErrors" \in Top.flags
                      => Right(M, Top.symbol, x, Top.flags, now)
              ELSE Right(S \cup V,
                         IF Brought(Top) /\ Agrees(Top) THEN Top.symbol \cup ret ELSE Top.symbol,
                         x, Top.flags, failed)
  <2>1. Right(S, Top.symbol, x, Top.flags, failed)
    BY <1>4, <1>14 DEF Seen, failed
  <2>2. Right(O, ret, x, Top.flags, failed)
    BY <1>6, <1>14
  <2> QED BY <1>5, <1>7, <1>8, <1>10, <2>1, <2>2, MergeRight
<1>15. FrameRight(f)'
  <2>1. CASE conflict
    <3>1. f.pc = "found" /\ f.symbol = Top.symbol
      BY <1>2, <2>1
    <3>2. Settled(m) => Right(M, Top.symbol, x, Top.flags, errors' > Top.errors)
      BY <1>11, <1>12, <1>14, <2>1
    <3>3. Settled(m) => Right(Meant(f.mod, f.ident, f.flags), f.symbol, f.ident, f.flags,
                              errors' > f.errors)
      BY <1>2, <3>1, <3>2 DEF M
    <3>4. /\ Settled(f.mod)' <=> Settled(f.mod)
          /\ Meant(f.mod, f.ident, f.flags)' = Meant(f.mod, f.ident, f.flags)
          /\ \A T, symbol, y, flags, fl :
                Right(T, symbol, y, flags, fl)' <=> Right(T, symbol, y, flags, fl)
      BY <1>1, RightSame
    <3>5. Settled(f.mod)' => Seen(f, Meant(f.mod, f.ident, f.flags))'
      BY <1>2, <3>3, <3>4 DEF Seen
    <3>6. Settled(f.mod)' => FrameSeen(f)'
      BY <3>1, <3>5 DEF FrameSeen
    <3>7. Placed(f)'
      BY <1>2, <1>3, <1>4, <1>9, <3>1 DEF Placed
    <3> QED BY <3>6, <3>7 DEF FrameRight
  <2>2. CASE ~conflict
    <3>1. f.pc = "scan"
      BY <1>2, <2>2
    <3>2. Settled(m) => Right(Upto(m, x, Top.flags, n), f.symbol, x, Top.flags, failed)
      BY <1>2, <1>8, <1>14, <2>2
    <3>3. Settled(f.mod) => Seen(f, Upto(f.mod, f.ident, f.flags, f.i - 1))
      BY <1>2, <3>2 DEF Seen, failed
    <3>4. Settled(f.mod) => FrameSeen(f)
      BY <3>1, <3>3 DEF FrameSeen
    <3>5. Placed(f)
      BY <1>2, <1>4, <3>1 DEF Placed
    <3>6. FrameRight(f)
      BY <3>4, <3>5 DEF FrameRight
    <3> QED BY <1>1, <1>3, <1>9, <3>6, FrameKept
  <2> QED BY <2>1, <2>2
<1>16. f.pc # "merge" /\ f.pc # "enter"
  BY <1>2
<1>17. StackRight' /\ stack' # <<>>
  BY <1>1, <1>2, <1>9, <1>15, <1>16, GoOnRight
<1>18. CacheRight'
  BY <1>1, CacheKept
<1> QED BY <1>1, <1>9, <1>17, <1>18 DEF StepRight

\* All imports were seen, so that is all that is meant.
LEMMA FoundRight ==
    ASSUME TypeInv, StackRight, CacheRight, lookup.errors \in Nat, lookup.errors <= errors,
           SearchFound
    PROVE  StepRight
<1>1. /\ stack # <<>> /\ Top.pc # "enter"
      /\ \/ Top.pc = "found"
         \/ Top.pc = "scan" /\ Top.i > Len(imports[Top.mod])
      /\ UNCHANGED <<decl, imports, cache, lookup, changed, stale>>
      /\ (errors' = errors \/ errors' = errors + 1)
  <2>1. errors \in Nat
    BY DEF TypeInv, Types
  <2> QED BY <2>1 DEF SearchFound, At
<1>2. PICK f \in FrameSet :
          /\ WentOn(f) /\ f.mod = Top.mod /\ f.ident = Top.ident /\ f.flags = Top.flags
          /\ f.pc = "leave" /\ f.symbol = Top.symbol
          /\ f.i = Top.i /\ f.errors = Top.errors
  BY FoundShape
<1>3. /\ Types /\ errors \in Nat /\ Top.mod \in Module /\ Top.ident \in Ident /\ Top \in FrameSet
      /\ Top.flags \in SUBSET Flag /\ Top.i \in Nat \ {0} /\ FrameRight(Top) /\ Placed(Top)
  BY <1>1, TopRight
<1>4. errors' \in Nat /\ errors <= errors'
  BY <1>1, <1>3
<1>5. ASSUME Settled(Top.mod) PROVE Seen(Top, Meant(Top.mod, Top.ident, Top.flags))
  <2>1. CASE Top.pc = "found"
    BY <1>3, <1>5, <2>1 DEF FrameRight, FrameSeen
  <2>2. CASE Top.pc = "scan" /\ Top.i > Len(imports[Top.mod])
    <3>1. /\ FromImports(Top.mod, Top.ident, Top.flags)
          /\ Top.i - 1 \in 0..Len(imports[Top.mod])
          /\ Seen(Top, Upto(Top.mod, Top.ident, Top.flags, Top.i - 1))
      BY <1>3, <1>5, <2>2 DEF FrameRight, FrameSeen, Placed
    <3>2. Top.i - 1 = Len(imports[Top.mod])
      <4>1. Len(imports[Top.mod]) \in Nat
        BY <1>3, ImportTypes
      <4> QED BY <1>3, <2>2, <3>1, <4>1
    <3> QED BY <1>3, <3>1, <3>2, UptoAll
  <2> QED BY <1>1, <2>1, <2>2
<1>6. FrameRight(f)
  <2>1. Settled(f.mod) => Seen(f, Meant(f.mod, f.ident, f.flags))
    BY <1>2, <1>5 DEF Seen
  <2>2. Placed(f)
    BY <1>1, <1>2, <1>3 DEF Placed
  <2> QED BY <1>2, <2>1, <2>2 DEF FrameRight, FrameSeen
<1>7. FrameRight(f)'
  BY <1>1, <1>3, <1>4, <1>6, FrameKept
<1>8. StackRight' /\ stack' # <<>>
  BY <1>1, <1>2, <1>3, <1>4, <1>7, GoOnRight
<1>9. CacheRight'
  BY <1>1, CacheKept
<1> QED BY <1>1, <1>4, <1>8, <1>9 DEF StepRight

\* What is returned is right, and what is cached is right without an error.
LEMMA LeaveRight ==
    ASSUME TypeInv, StackRight, CacheRight, Ranks # {}, lookup.errors \in Nat, SearchLeave
    PROVE  StepRight
<1> DEFINE new == [ident |-> Top.ident, flags |-> Top.flags, symbol |-> Top.symbol]
           failed == errors > Top.errors
<1>1. /\ stack # <<>> /\ Top.pc = "leave" /\ ret' = Top.symbol /\ stack' = Tail(stack)
      /\ cache' = IF errors = Top.errors THEN [cache EXCEPT ![Top.mod] = new] ELSE cache
      /\ stale' = IF errors = Top.errors THEN stale \ {Top.mod} ELSE stale
      /\ UNCHANGED <<decl, imports, errors, lookup, changed>>
  BY DEF SearchLeave, At, Cache, MayCache
<1>2. /\ Types /\ errors \in Nat /\ Top.mod \in Module /\ Top \in FrameSet /\ FrameRight(Top)
      /\ Top.errors \in Nat /\ Effective(Top.flags) = Top.flags
  BY <1>1, TopRight
<1>3. Settled(Top.mod) => Right(Meant(Top.mod, Top.ident, Top.flags), Top.symbol,
                                Top.ident, Top.flags, failed)
  BY <1>1, <1>2 DEF FrameRight, FrameSeen, Seen
<1>4. failed \in BOOLEAN /\ (failed => Top.pc # "enter" /\ errors > Top.errors)
  BY <1>1
<1>5. errors = Top.errors => ~failed
  BY <1>2
<1>6. Popped
  BY <1>1, PopShape DEF TypeInv, StackInv
<1>7. new.ident = Top.ident /\ new.flags = Top.flags /\ new.symbol = Top.symbol
  OBVIOUS
<1> HIDE DEF failed, new
<1>8. StackRight' /\ (stack' = <<>> /\ Settled(lookup.mod) => TryRight')
  <2>1. Settled(Top.mod) => Right(Meant(Top.mod, Top.ident, Effective(Top.flags)), ret',
                                  Top.ident, Top.flags, failed)
    BY <1>1, <1>2, <1>3
  <2> QED BY <1>1, <1>4, <1>6, <2>1, PopRight
<1>9. CacheRight'
  <2>1. CASE errors = Top.errors
    <3>1. \A m \in Module : cache'[m] = IF m = Top.mod THEN new ELSE cache[m]
      BY <1>1, <1>2, <2>1 DEF Types
    <3>2. /\ \A m : Settled(m)' <=> Settled(m)
          /\ \A S, symbol, x, flags, fl :
                Right(S, symbol, x, flags, fl)' <=> Right(S, symbol, x, flags, fl)
          /\ \A m, x, flags : Meant(m, x, flags)' = Meant(m, x, flags)
      BY <1>1, RightSame
    <3>3. Settled(Top.mod) => Right(Meant(Top.mod, Top.ident, Top.flags), Top.symbol,
                                    Top.ident, Top.flags, FALSE)
      BY <1>3, <1>5, <2>1 DEF Right
    <3>5. \A m \in Module \ stale' : m = Top.mod \/ m \notin stale
      BY <1>1, <2>1
    <3>4. ASSUME NEW m \in Module \ stale', cache'[m].ident # NoIdent, Settled(m)
          PROVE  Right(Meant(m, cache'[m].ident, cache'[m].flags), cache'[m].symbol,
                       cache'[m].ident, cache'[m].flags, FALSE)
      <4>1. CASE m = Top.mod
        BY <1>7, <3>1, <3>3, <3>4, <4>1
      <4>2. CASE m # Top.mod
        BY <3>1, <3>4, <3>5, <4>2 DEF CacheRight
      <4> QED BY <4>1, <4>2
    <3> QED BY <3>2, <3>4 DEF CacheRight
  <2>2. CASE errors # Top.errors
    BY <1>1, <2>2, CacheKept
  <2> QED BY <2>1, <2>2
<1>10. ASSUME lookup.mod \in stale, lookup.mod \notin stale' PROVE stack' = <<>>
  <2>1. Top.mod = lookup.mod
    BY <1>1, <1>10
  <2>2. /\ Depth \in Nat \ {0} /\ 1 \in 1..Depth /\ Depth \in 1..Depth /\ Top = stack[1]
    BY <1>1, Frames
  <2>3. stack[Depth].mod = lookup.mod
    BY <1>1 DEF StackRight, FirstOf
  <2>4. PICK rank \in Ranks : rank[lookup.mod] \in Int
    BY <1>2, <2>1 DEF Ranks
  <2>5. ~(1 < Depth)
    BY <2>1, <2>2, <2>3, <2>4 DEF StackRight, Descending
  <2>6. Depth' = 0 /\ stack' \in Seq(FrameSet)
    BY <1>6, <2>2, <2>5 DEF Popped
  <2> QED BY <2>6, EmptySeq DEF Depth
<1> QED BY <1>1, <1>2, <1>8, <1>9, <1>10 DEF StepRight

(***************************************************************************)
(* Every step keeps answers right.                                          *)
(***************************************************************************)

\* A step of a search is a step of its lookup.
LEMMA SearchingRight ==
    ASSUME TypeInv, LookupTimes, LookupRight, FreshTries, stack # <<>>, StepRight,
           UNCHANGED <<decl, imports, changed, lookup>>
    PROVE  LookupTimes' /\ LookupRight' /\ AnswerOK'
<1>1. lookup.try # 0 /\ errors \in Nat
  BY DEF TypeInv, LookupInv, Types
<1>2. /\ Settled(lookup.mod)' <=> Settled(lookup.mod)
      /\ \A t : MeantBy(t)' = MeantBy(t)
  <2>1. /\ \A m : Settled(m)' <=> Settled(m)
        /\ \A m, x, flags : Meant(m, x, flags)' = Meant(m, x, flags)
    BY RightSame
  <2>2. ASSUME NEW t PROVE MeantBy(t)' = MeantBy(t)
    BY <2>1 DEF MeantBy, Effective
  <2> QED BY <2>1, <2>2
<1>3. LookupTimes'
  BY <1>1 DEF LookupTimes, StepRight
<1>4. LookupRight'
  <2>1. CASE lookup.mod \notin stale
    BY <1>1, <1>2, <2>1 DEF LookupRight, StepRight
  <2>2. CASE lookup.mod \in stale
    <3>1. lookup.try \in Nat /\ ~(lookup.try > 1)
      BY <2>2, LenProperties DEF FreshTries, TypeInv, LookupInv
    <3>2. \A t \in 1..lookup.try - 1 : FALSE
      BY <3>1
    <3> QED BY <1>2, <2>2, <3>2 DEF LookupRight, StepRight
  <2> QED BY <2>1, <2>2
<1>5. ~Answered'
  BY <1>1 DEF Answered, Idle
<1> QED BY <1>3, <1>4, <1>5 DEF AnswerOK

\* With no search in progress, or a new one, all of them are right.
LEMMA FreshRight ==
    ASSUME \/ stack' = <<>>
           \/ \E g : stack' = <<g>> /\ g.pc = "enter" /\ g.i = 1 /\ FirstOf(g)'
    PROVE  StackRight'
<1>1. CASE stack' = <<>>
  <2>1. Depth' = 0 /\ ~At("merge")'
    BY <1>1, EmptySeq DEF Depth, At
  <2> QED BY <1>1, <2>1 DEF StackRight, Descending, Delivered
<1>2. CASE \E g : stack' = <<g>> /\ g.pc = "enter" /\ g.i = 1 /\ FirstOf(g)'
  <2>1. PICK g : stack' = <<g>> /\ g.pc = "enter" /\ g.i = 1 /\ FirstOf(g)'
    BY <1>2
  <2>2. Depth' = 1 /\ stack'[1] = g /\ ~At("merge")'
    BY <2>1 DEF Depth, At, Top
  <2>3. FrameRight(g)'
    BY <2>1 DEF FrameRight, Placed, FrameSeen
  <2>4. Descending'
    <3>1. \A k, l \in 1..1 : ~(k < l)
      OBVIOUS
    <3> QED BY <2>2, <3>1 DEF Descending
  <2>5. /\ \A k \in 1..1 : FrameRight(stack[k])'
        /\ FirstOf(stack[1])'
    <3>1. \A k \in 1..1 : stack'[k] = g
      BY <2>2
    <3> QED BY <2>1, <2>3, <3>1
  <2> QED BY <2>2, <2>4, <2>5 DEF StackRight, Delivered
<1> QED BY <1>1, <1>2

\* The tries of a lookup agree on whether errors are ignored.
LEMMA TriesAgree ==
    ASSUME NEW more \in {{}, {"IgnoreErrors"}}, NEW m, NEW k
    PROVE  /\ \A t \in DOMAIN Unqualified(more) : "IgnoreErrors" \in Unqualified(more)[t]
                                                    <=> "IgnoreErrors" \in Unqualified(more)[1]
           /\ \A t \in DOMAIN Qualified(m, k) : "IgnoreErrors" \in Qualified(m, k)[t]
                                                    <=> "IgnoreErrors" \in Qualified(m, k)[1]
<1>1. \A t \in 1..4 : "IgnoreErrors" \in Unqualified(more)[t] <=> "IgnoreErrors" \in more
  <2> DEFINE four == <<{"SearchLocalsOnly"}, {"SearchImportsOnly"},
                       {"SearchLocalsOnly", "IgnoreSymbolVisibility"},
                       {"SearchImportsOnly", "IgnoreSymbolVisibility"}>>
  <2>1. \A t \in 1..4 : "IgnoreErrors" \notin four[t]
    OBVIOUS
  <2> HIDE DEF four
  <2>2. Unqualified(more) = [t \in 1..4 |-> more \cup {"SearchUnqualifiedModule"} \cup four[t]]
    BY DEF Unqualified, four
  <2>3. \A t \in 1..4 :
           Unqualified(more)[t] = more \cup {"SearchUnqualifiedModule"} \cup four[t]
    BY <2>2
  <2> QED BY <2>1, <2>3
<1>2. DOMAIN Unqualified(more) = 1..4 /\ 1 \in 1..4
  BY DEF Unqualified
<1>3. DOMAIN Qualified(m, k) = 1..1
  BY DEF Qualified
<1>4. \A t \in 1..1 : t = 1
  OBVIOUS
<1> QED BY <1>1, <1>2, <1>3, <1>4

\* A lookup begins, with a cache that is right.
LEMMA StartRight ==
    ASSUME TypeInv, NEW m \in Module, NEW x \in Ident, NEW tries, Start(m, x, tries),
           \A t \in DOMAIN tries : "IgnoreErrors" \in tries[t] <=> "IgnoreErrors" \in tries[1],
           CacheRight'
    PROVE  AnswerInv'
<1>1. /\ lookup' = [mod |-> m, ident |-> x, tries |-> tries, try |-> 1, errors |-> errors,
                    changes |-> Len(changed)]
      /\ stack' = <<Frame(m, x, tries[1])>>
      /\ UNCHANGED <<decl, imports, insearch, ret, errors, bound, changed>>
  BY DEF Start
<1>2. /\ lookup'.mod = m /\ lookup'.ident = x /\ lookup'.tries = tries /\ lookup'.try = 1
      /\ lookup'.errors = errors /\ lookup'.changes = Len(changed)
  BY <1>1
<1>3. errors \in Nat /\ Len(changed) \in Nat
  BY LenProperties DEF TypeInv, Types
<1> DEFINE g == Frame(m, x, tries[1])
<1>4. /\ g.pc = "enter" /\ g.i = 1 /\ g.mod = m /\ g.ident = x /\ g.flags = tries[1]
      /\ stack' = <<g>>
  BY <1>1 DEF Frame
<1> HIDE DEF g
<1>5. FirstOf(g)'
  BY <1>1, <1>2, <1>3, <1>4 DEF FirstOf, Try
<1>6. StackRight'
  BY <1>4, <1>5, FreshRight
<1>7. LookupTimes'
  BY <1>1, <1>2, <1>3 DEF LookupTimes
<1>8. stack' # <<>>
  BY <1>4
<1>9. LookupRight'
  <2>1. \A t \in 1..0 : FALSE
    OBVIOUS
  <2>2. lookup'.try - 1 = 0
    BY <1>2
  <2> QED BY <1>8, <2>1, <2>2 DEF LookupRight
<1>10. AnswerOK'
  BY <1>8 DEF AnswerOK, Answered, Idle
<1> QED BY <1>6, <1>7, <1>9, <1>10 DEF AnswerInv

\* What the last try found is what is wanted, if the tries before it had nothing to
\* find.
FirstWanted ==
    lookup.tries \in Seq(SUBSET Flag) =>
       \A t \in DOMAIN lookup.tries :
          (\A u \in 1..t-1 : MeantBy(u) = {}) /\ (MeantBy(t) # {} \/ t = Len(lookup.tries))
            => Wanted = MeantBy(t)

\* That it is, always.
LEMMA WantedFound == FirstWanted
<1> SUFFICES ASSUME lookup.tries \in Seq(SUBSET Flag), NEW t \in DOMAIN lookup.tries,
                    \A u \in 1..t-1 : MeantBy(u) = {},
                    MeantBy(t) # {} \/ t = Len(lookup.tries)
             PROVE  Wanted = MeantBy(t)
  BY DEF FirstWanted
<1> DEFINE hits == {u \in DOMAIN lookup.tries : MeantBy(u) # {}}
           first(u) == \A v \in hits : u <= v
<1>1. Wanted = IF hits = {} THEN {} ELSE MeantBy(CHOOSE u \in hits : first(u))
  BY DEF Wanted, MeantBy
<1>2. DOMAIN lookup.tries = 1..Len(lookup.tries) /\ Len(lookup.tries) \in Nat
  BY LenProperties
<1>3. \A u \in hits : u \in 1..Len(lookup.tries) /\ t <= u
  BY <1>2
<1>4. CASE MeantBy(t) = {}
  <2>1. hits = {}
    BY <1>2, <1>3, <1>4
  <2> QED BY <1>1, <1>4, <2>1
<1>5. CASE MeantBy(t) # {}
  <2>1. t \in hits /\ first(t)
    BY <1>3, <1>5
  <2>2. \A u \in hits : first(u) => u = t
    BY <1>2, <1>3, <2>1
  <2>3. hits # {} /\ (CHOOSE u \in hits : first(u)) = t
    <3>1. (CHOOSE u \in hits : first(u)) \in hits /\ first(CHOOSE u \in hits : first(u))
      BY <2>1
    <3> HIDE DEF hits, first
    <3> QED BY <2>1, <2>2, <3>1
  <2> QED BY <1>1, <2>3
<1> QED BY <1>4, <1>5

\* A try ends: what it found is the answer, or it had nothing to find.
LEMMA NextTryRight ==
    ASSUME TypeInv, CacheRight, LookupTimes, LookupRight, LookupNext
    PROVE  CacheRight' /\ StackRight' /\ LookupTimes' /\ LookupRight' /\ AnswerOK'
<1> DEFINE t == lookup.try
           again == ret = {} /\ t + 1 <= Len(lookup.tries)
<1>0. PICK g : g = Frame(lookup.mod, lookup.ident, lookup.tries[t + 1])
  OBVIOUS
<1>1. /\ stack = <<>> /\ t # 0
      /\ lookup' = [lookup EXCEPT !.try = IF again THEN t + 1 ELSE 0]
      /\ stack' = IF again THEN <<g>> ELSE <<>>
      /\ UNCHANGED <<decl, imports, cache, insearch, ret, errors, lookups, bound, changed, stale>>
  BY <1>0 DEF LookupNext
<1>2. /\ lookup.tries \in Seq(SUBSET Flag) /\ t \in 1..Len(lookup.tries) /\ Len(lookup.tries) \in Nat
      /\ DOMAIN lookup.tries = 1..Len(lookup.tries) /\ lookup.ident \in Ident
      /\ lookup.ident # NoIdent /\ errors \in Nat /\ t \in Nat
  <2>1. lookup.tries \in Seq(SUBSET Flag) /\ t \in 0..Len(lookup.tries) /\ lookup.ident \in Ident
    BY <1>1 DEF TypeInv, LookupInv
  <2>2. Len(lookup.tries) \in Nat /\ DOMAIN lookup.tries = 1..Len(lookup.tries)
    BY <2>1, LenProperties
  <2> QED BY <1>1, <2>1, <2>2, ModuleAssumption DEF TypeInv, Types
<1>3. /\ lookup'.mod = lookup.mod /\ lookup'.ident = lookup.ident /\ lookup'.tries = lookup.tries
      /\ lookup'.errors = lookup.errors /\ lookup'.changes = lookup.changes
      /\ lookup'.try = IF again THEN t + 1 ELSE 0
  <2>1. \A v : /\ [lookup EXCEPT !.try = v].mod = lookup.mod
               /\ [lookup EXCEPT !.try = v].ident = lookup.ident
               /\ [lookup EXCEPT !.try = v].tries = lookup.tries
               /\ [lookup EXCEPT !.try = v].errors = lookup.errors
               /\ [lookup EXCEPT !.try = v].changes = lookup.changes
    OBVIOUS
  <2>2. lookup'.try = IF again THEN t + 1 ELSE 0
    BY <1>1 DEF TypeInv, LookupInv
  <2> HIDE DEF again
  <2> QED BY <1>1, <2>1, <2>2
<1>4. /\ g.pc = "enter" /\ g.i = 1 /\ g.mod = lookup.mod /\ g.ident = lookup.ident
      /\ g.flags = lookup.tries[t + 1]
  BY <1>0 DEF Frame
<1> HIDE DEF again
<1>5. CacheRight'
  BY <1>1, CacheKept
<1>6. LookupTimes'
  BY <1>1, <1>3 DEF LookupTimes
<1>7. StackRight'
  <2>1. CASE again
    <3>1. FirstOf(g)'
      BY <1>1, <1>3, <1>4, <2>1 DEF FirstOf, Try, LookupTimes
    <3> QED BY <1>1, <1>4, <2>1, <3>1, FreshRight
  <2>2. CASE ~again
    BY <1>1, <2>2, FreshRight
  <2> QED BY <2>1, <2>2
<1>8. /\ Settled(lookup.mod)' <=> Settled(lookup.mod)
      /\ \A u : MeantBy(u)' = MeantBy(u)
  <2>1. /\ \A m : Settled(m)' <=> Settled(m)
        /\ \A m, x, flags : Meant(m, x, flags)' = Meant(m, x, flags)
    BY <1>1, RightSame
  <2>2. ASSUME NEW u PROVE MeantBy(u)' = MeantBy(u)
    BY <1>3, <2>1 DEF MeantBy, Effective
  <2> QED BY <1>3, <2>1, <2>2
<1>9. ASSUME Settled(lookup.mod), lookup.mod \notin stale
      PROVE  (\A u \in 1..t-1 : MeantBy(u) = {}) /\ TryRight
  BY <1>1, <1>9 DEF LookupRight
<1>10. ASSUME ret = {}, TryRight PROVE MeantBy(t) = {}
  BY <1>10 DEF TryRight, Right
<1>11. LookupRight'
  <2>1. CASE ~again
    BY <1>3, <2>1 DEF LookupRight
  <2>2. CASE again
    <3>1. stack' # <<>>
      BY <1>1, <2>2
    <3>2. ASSUME Settled(lookup.mod), lookup.mod \notin stale PROVE \A u \in 1..t : MeantBy(u) = {}
      <4>1. \A u \in 1..t : u = t \/ u \in 1..t-1
        BY <1>2
      <4> QED BY <1>9, <1>10, <2>2, <3>2, <4>1 DEF again
    <3>3. lookup'.try - 1 = t
      BY <1>2, <1>3, <2>2
    <3> QED BY <1>1, <1>3, <1>8, <3>1, <3>2, <3>3 DEF LookupRight
  <2> QED BY <2>1, <2>2
<1>12. AnswerOK'
  <2>1. CASE again
    BY <1>1, <2>1 DEF AnswerOK, Answered, Idle
  <2>2. CASE ~again
    <3> SUFFICES ASSUME Settled(lookup.mod), lookup.mod \notin stale PROVE AnswerRight'
      BY <1>1, <1>3, <1>8 DEF AnswerOK
    <3>1. (\A u \in 1..t-1 : MeantBy(u) = {}) /\ TryRight
      BY <1>9
    <3>2. MeantBy(t) # {} \/ t = Len(lookup.tries)
      <4>1. CASE ret = {}
        BY <1>2, <2>2, <4>1 DEF again
      <4>2. CASE ret # {}
        BY <3>1, <4>2 DEF TryRight, Right
      <4> QED BY <4>1, <4>2
    <3>3. Wanted' = MeantBy(t)
      <4>1. FirstWanted'
        BY WantedFound, PTL
      <4> QED BY <1>2, <1>3, <1>8, <3>1, <3>2, <4>1 DEF FirstWanted
    <3>4. Right(MeantBy(t), ret, lookup.ident, lookup.tries[t], errors > lookup.errors)
      BY <3>1 DEF TryRight, Try
    <3>5. "IgnoreErrors" \in lookup.tries[t] <=> "IgnoreErrors" \in lookup.tries[1]
      BY <1>2 DEF LookupTimes
    <3>6. Conflict(Wanted, lookup.ident)' <=> Conflict(MeantBy(t), lookup.ident)
      BY <1>1, <1>3, <3>3 DEF Conflict, Overloadable
    <3>7. IF Conflict(MeantBy(t), lookup.ident)
          THEN errors > lookup.errors \/ "IgnoreErrors" \in lookup.tries[1]
          ELSE ret = MeantBy(t)
      BY <3>4, <3>5 DEF Right
    <3> QED BY <1>1, <1>3, <3>3, <3>6, <3>7 DEF AnswerRight
  <2> QED BY <2>1, <2>2
<1> QED BY <1>5, <1>6, <1>7, <1>11, <1>12

\* What a set of settled modules leads to does not depend on the others.
LEMMA LeadsToSettled ==
    ASSUME NEW T \in SUBSET Module, NEW S \in SUBSET T, NEW x,
           \A n \in T : decl'[n] = decl[n] /\ imports'[n] = imports[n],
           \A n \in T : \A i \in DOMAIN imports[n] : imports[n][i].mod \in T
    PROVE  LeadsTo(S, x)' = LeadsTo(S, x) /\ LeadsTo(S, x) \subseteq T
<1>1. ASSUME NEW R \in SUBSET Module, ClosedUnderImport(R, x)
      PROVE  ClosedUnderImport(R \cap T, x)
  BY <1>1 DEF ClosedUnderImport
<1>2. ASSUME NEW R \in SUBSET Module, ClosedUnderImport(R, x)'
      PROVE  ClosedUnderImport(R \cap T, x)
  BY <1>2 DEF ClosedUnderImport
<1>3. ASSUME NEW R \in SUBSET T
      PROVE  ClosedUnderImport(R, x)' <=> ClosedUnderImport(R, x)
  BY DEF ClosedUnderImport
<1>4. ASSUME NEW k \in LeadsTo(S, x) PROVE k \in LeadsTo(S, x)'
  <2>1. ASSUME NEW R \in SUBSET Module, S \subseteq R, ClosedUnderImport(R, x)'
        PROVE  k \in R
    <3>1. R \cap T \in SUBSET Module /\ S \subseteq R \cap T /\ ClosedUnderImport(R \cap T, x)
      BY <1>2, <2>1
    <3> QED BY <3>1 DEF LeadsTo
  <2>2. k \in Module
    BY DEF LeadsTo
  <2> QED BY <2>1, <2>2 DEF LeadsTo
<1>5. ASSUME NEW k \in LeadsTo(S, x)' PROVE k \in LeadsTo(S, x)
  <2>1. ASSUME NEW R \in SUBSET Module, S \subseteq R, ClosedUnderImport(R, x)
        PROVE  k \in R
    <3>1. /\ R \cap T \in SUBSET Module /\ S \subseteq R \cap T /\ R \cap T \in SUBSET T
          /\ ClosedUnderImport(R \cap T, x)
      BY <1>1, <2>1
    <3>2. ClosedUnderImport(R \cap T, x)'
      BY <1>3, <3>1
    <3> QED BY <3>1, <3>2 DEF LeadsTo
  <2>2. k \in Module
    BY DEF LeadsTo
  <2> QED BY <2>1, <2>2 DEF LeadsTo
<1>6. LeadsTo(S, x) \subseteq T
  <2>1. ClosedUnderImport(T, x)
    BY DEF ClosedUnderImport
  <2> QED BY <2>1 DEF LeadsTo
<1> QED BY <1>4, <1>5, <1>6

\* So what is meant by a search of a module stays, when its own symbols and imports
\* stay and all that they reach.
LEMMA MeantSettled ==
    ASSUME NEW T \in SUBSET Module, NEW m \in Module, NEW x, NEW flags,
           \A n \in T \cup {m} : decl'[n] = decl[n] /\ imports'[n] = imports[n],
           \A n \in T \cup {m} : \A i \in DOMAIN imports[n] : imports[n][i].mod \in T
    PROVE  /\ Meant(m, x, flags)' = Meant(m, x, flags)
           /\ Meant(m, x, flags) \subseteq T \cup {m}
<1>1. Scanned(m, flags) \in SUBSET T /\ Scanned(m, flags)' = Scanned(m, flags)
  BY DEF Scanned, Skipped
<1>2. \A S \in SUBSET T : LeadsTo(S, x)' = LeadsTo(S, x) /\ LeadsTo(S, x) \subseteq T
  BY LeadsToSettled
<1>3. /\ LeadsTo(Scanned(m, flags), x)' = LeadsTo(Scanned(m, flags), x)
      /\ LeadsTo(Scanned(m, flags), x) \subseteq T
  BY <1>1, <1>2
<1>4. decl'[m] = decl[m] /\ \A k \in T : decl'[k] = decl[k]
  OBVIOUS
<1>5. \A k \in T : Visible({k}, x, flags)' <=> Visible({k}, x, flags)
  BY <1>4 DEF Visible
<1> QED BY <1>3, <1>4, <1>5 DEF Meant

\* What the modules in S declare decides on a conflict.
LEMMA ConflictSettled ==
    ASSUME NEW S, NEW x, \A n \in S : decl'[n] = decl[n], NEW symbol, NEW flags, NEW failed
    PROVE  Right(S, symbol, x, flags, failed) => Right(S, symbol, x, flags, failed)'
  BY DEF Right, Conflict, Overloadable

\* A search of the module alone does not depend on what it imports.
LEMMA LocalMeant ==
    ASSUME NEW m \in Module, NEW x, NEW flags, "SearchLocalsOnly" \in flags, decl' = decl
    PROVE  /\ Meant(m, x, flags)' = Meant(m, x, flags)
           /\ \A symbol : Right(Meant(m, x, flags), symbol, x, flags, FALSE)
                         => Right(Meant(m, x, flags), symbol, x, flags, FALSE)'
<1>1. Scanned(m, flags) = {} /\ Scanned(m, flags)' = {}
  BY DEF Scanned, Skipped
<1>2. LeadsTo({}, x) = {} /\ LeadsTo({}, x)' = {}
  <2>1. ClosedUnderImport({}, x) /\ ClosedUnderImport({}, x)'
    BY DEF ClosedUnderImport
  <2> QED BY <2>1 DEF LeadsTo
<1>3. Meant(m, x, flags)' = Meant(m, x, flags)
  BY <1>1, <1>2 DEF Meant
<1>4. \A S, symbol : Right(S, symbol, x, flags, FALSE) => Right(S, symbol, x, flags, FALSE)'
  BY DEF Right, Conflict, Overloadable
<1> QED BY <1>3, <1>4

\* What is added to m leaves the cache right.  Its own is cleared, or it is kept for
\* an import that is added: it becomes stale, unless it is of the module alone.  Those
\* of the modules that reach it are not relied on any more.
LEMMA ChangeRight ==
    ASSUME TypeInv, CacheRight, NEW m \in Module, Change(m), Invalidate(m) \/ CacheLeft(m),
           \A n \in Module : n # m => decl'[n] = decl[n] /\ imports'[n] = imports[n]
    PROVE  CacheRight'
<1>1. changed' = Append(changed, m) /\ changed \in Seq(Module)
  BY DEF Change, TypeInv, Types
<1>2. /\ \A n \in Module : n # m => cache'[n] = cache[n] /\ (n \in stale' <=> n \in stale)
      /\ Invalidate(m) => cache'[m].ident = NoIdent
  BY DEF Invalidate, CacheLeft, TypeInv, Types
<1>3. /\ \A n \in DOMAIN changed : n \in DOMAIN changed' /\ changed'[n] = changed[n]
      /\ \E n \in DOMAIN changed' : changed'[n] = m
  BY <1>1, ChangedMore
<1>5. ASSUME CacheLeft(m), m \notin stale', cache[m].ident # NoIdent, Settled(m)'
      PROVE  Right(Meant(m, cache[m].ident, cache[m].flags), cache[m].symbol,
                   cache[m].ident, cache[m].flags, FALSE)'
  <2>1. /\ m \notin stale /\ "SearchLocalsOnly" \in cache[m].flags /\ decl' = decl /\ cache' = cache
        /\ \A i \in DOMAIN imports[m] : i \in DOMAIN imports'[m] /\ imports'[m][i].mod = imports[m][i].mod
    BY <1>5 DEF CacheLeft, ImportsCached
  <2>2. PICK T \in SUBSET Module :
           /\ \A i \in DOMAIN imports'[m] : imports'[m][i].mod \in T
           /\ \A k \in T : \A i \in DOMAIN imports'[k] : imports'[k][i].mod \in T
           /\ \A k \in DOMAIN changed' : changed'[k] \notin T
    BY <1>5 DEF Settled
  <2>3. /\ \A i \in DOMAIN imports[m] : imports[m][i].mod \in T
        /\ \A k \in T : \A i \in DOMAIN imports[k] : imports[k][i].mod \in T
        /\ \A k \in DOMAIN changed : changed[k] \notin T
    BY <1>3, <2>1, <2>2
  <2>4. Settled(m)
    BY <2>3 DEF Settled
  <2>5. Right(Meant(m, cache[m].ident, cache[m].flags), cache[m].symbol,
              cache[m].ident, cache[m].flags, FALSE)
    BY <1>5, <2>1, <2>4 DEF CacheRight
  <2>6. ASSUME NEW x, NEW flags, NEW symbol, "SearchLocalsOnly" \in flags,
               Right(Meant(m, x, flags), symbol, x, flags, FALSE)
        PROVE  Right(Meant(m, x, flags), symbol, x, flags, FALSE)'
    BY <2>1, <2>6, LocalMeant
  <2> QED BY <2>1, <2>5, <2>6
<1>4. ASSUME NEW n \in Module \ stale', n # m, cache'[n].ident # NoIdent, Settled(n)'
      PROVE  Right(Meant(n, cache[n].ident, cache[n].flags), cache[n].symbol,
                   cache[n].ident, cache[n].flags, FALSE)'
  <2>1. n # m /\ cache'[n] = cache[n] /\ n \notin stale
    BY <1>2, <1>4
  <2>2. PICK T \in SUBSET Module :
           /\ \A i \in DOMAIN imports'[n] : imports'[n][i].mod \in T
           /\ \A k \in T : \A i \in DOMAIN imports'[k] : imports'[k][i].mod \in T
           /\ \A k \in DOMAIN changed' : changed'[k] \notin T
    BY <1>4 DEF Settled
  <2>3. m \notin T
    BY <1>3, <2>2
  <2>4. \A k \in T \cup {n} : decl'[k] = decl[k] /\ imports'[k] = imports[k]
    BY <2>1, <2>3
  <2>5. \A k \in T \cup {n} : \A i \in DOMAIN imports[k] : imports[k][i].mod \in T
    BY <2>2, <2>4
  <2>6. Settled(n)
    BY <1>3, <2>2, <2>5 DEF Settled
  <2>7. ASSUME NEW x, NEW flags
        PROVE  Meant(n, x, flags)' = Meant(n, x, flags) /\ Meant(n, x, flags) \subseteq T \cup {n}
    BY <2>4, <2>5, MeantSettled
  <2>8. Right(Meant(n, cache[n].ident, cache[n].flags), cache[n].symbol,
              cache[n].ident, cache[n].flags, FALSE)
    BY <1>4, <2>1, <2>6 DEF CacheRight
  <2>9. \A S, symbol, x, flags, failed :
           S \subseteq T \cup {n} /\ Right(S, symbol, x, flags, failed)
             => Right(S, symbol, x, flags, failed)'
    BY <2>4, ConflictSettled
  <2>10. ASSUME NEW x, NEW flags, NEW symbol, Right(Meant(n, x, flags), symbol, x, flags, FALSE)
         PROVE  Right(Meant(n, x, flags), symbol, x, flags, FALSE)'
    BY <2>7, <2>9, <2>10
  <2> QED BY <2>1, <2>8, <2>10
<1>6. ASSUME NEW n \in Module \ stale', cache'[n].ident # NoIdent, Settled(n)'
      PROVE  cache'[n] = cache[n] /\ (n # m \/ CacheLeft(m))
  BY <1>2, <1>6 DEF CacheLeft
<1>7. ASSUME NEW n \in Module \ stale', cache'[n].ident # NoIdent, Settled(n)'
      PROVE  Right(Meant(n, cache[n].ident, cache[n].flags), cache[n].symbol,
                   cache[n].ident, cache[n].flags, FALSE)'
  BY <1>4, <1>5, <1>6, <1>7
<1> QED BY <1>6, <1>7 DEF CacheRight

\* A list of imports keeps its imports when one is added.
LEMMA ImportedKeeps ==
    ASSUME NEW list \in Seq(Import), NEW new \in Import
    PROVE  \A i \in DOMAIN list : /\ i \in DOMAIN Imported(list, new)
                                  /\ Imported(list, new)[i].mod = list[i].mod
<1> DEFINE old == {i \in DOMAIN list : list[i].mod = new.mod}
           more == [i \in DOMAIN list |->
                      IF i \in old THEN [list[i] EXCEPT !.public = @ \/ new.public] ELSE list[i]]
<1>1. Imported(list, new) = IF old = {} THEN Append(list, new) ELSE more
  BY DEF Imported
<1>2. Len(list) \in Nat /\ DOMAIN list = 1..Len(list) /\ \A i \in DOMAIN list : list[i] \in Import
  BY LenProperties, ElementOfSeq
<1>3. \A i \in DOMAIN list : [list[i] EXCEPT !.public = @ \/ new.public].mod = list[i].mod
  BY <1>2 DEF Import
<1>4. \A i \in DOMAIN list : i \in DOMAIN more /\ more[i].mod = list[i].mod
  BY <1>3
<1>5. \A i \in DOMAIN list : i \in DOMAIN Append(list, new) /\ Append(list, new)[i] = list[i]
  BY <1>2, AppendProperties
<1> HIDE DEF old, more
<1> QED BY <1>1, <1>4, <1>5

\* Between lookups nothing but the cache and the imports counts.
LEMMA BetweenRight ==
    ASSUME TypeInv, AnswerInv, NEW m \in Module, Change(m), Invalidate(m) \/ CacheLeft(m), Ranks' \subseteq Ranks,
           \A n \in Module : n # m => decl'[n] = decl[n] /\ imports'[n] = imports[n]
    PROVE  AnswerInv'
<1> SUFFICES ASSUME Acyclic'
             PROVE  CacheRight' /\ StackRight' /\ LookupTimes' /\ LookupRight' /\ AnswerOK'
  BY DEF AnswerInv
<1>1. Ranks' # {}
  BY DEF Acyclic, Ranks
<1>2. Acyclic
  BY <1>1, AcyclicRanks
<1>3. CacheRight /\ LookupTimes
  BY <1>2 DEF AnswerInv
<1>4. /\ stack = <<>> /\ lookup.try = 0 /\ changed' = Append(changed, m)
      /\ UNCHANGED <<insearch, stack, ret, errors, lookup, lookups, bound>>
  BY DEF Change, Idle
<1>5. Len(changed') = Len(changed) + 1 /\ Len(changed) \in Nat
  <2>1. changed \in Seq(Module)
    BY DEF TypeInv, Types
  <2> QED BY <1>4, <2>1, AppendProperties, LenProperties
<1>6. CacheRight'
  BY <1>3, ChangeRight
<1>7. StackRight'
  BY <1>4, FreshRight
<1>8. LookupTimes' /\ LookupRight'
  BY <1>3, <1>4, <1>5 DEF LookupTimes, LookupRight
<1>9. ~Answered'
  BY <1>3, <1>4, <1>5 DEF Answered, LookupTimes
<1> QED BY <1>6, <1>7, <1>8, <1>9 DEF AnswerOK

\* What is wanted, by the first of the tries that find something.
FirstIn(H) == CHOOSE t \in H : \A u \in H : t <= u
Hits == {t \in DOMAIN lookup.tries : MeantBy(t) # {}}
WantedByTries == Wanted = IF Hits = {} THEN {} ELSE MeantBy(FirstIn(Hits))

LEMMA WantedIs == WantedByTries
  BY DEF WantedByTries, Wanted, MeantBy, Hits, FirstIn

\* It stays while nothing is declared or imported and nothing else is looked up.
LEMMA WantedSame ==
    ASSUME UNCHANGED <<decl, imports, changed, lookup>>
    PROVE  Wanted' = Wanted
<1>1. \A t : MeantBy(t)' = MeantBy(t)
  <2>1. \A m, x, flags : Meant(m, x, flags)' = Meant(m, x, flags)
    BY RightSame
  <2> QED BY <2>1 DEF MeantBy, Effective
<1>2. Hits' = Hits
  BY <1>1 DEF Hits
<1>3. WantedByTries'
  BY WantedIs, PTL
<1>4. WantedByTries
  BY WantedIs
<1>5. MeantBy(FirstIn(Hits))' = MeantBy(FirstIn(Hits))
  BY <1>1, <1>2
<1> QED BY <1>2, <1>3, <1>4, <1>5 DEF WantedByTries

\* Every step keeps every answer right.
LEMMA AnswerInvInductive == TypeInv /\ FreshTries /\ AnswerInv /\ [Next]_vars => AnswerInv'
<1> SUFFICES ASSUME TypeInv, FreshTries, AnswerInv, [Next]_vars PROVE AnswerInv'
  OBVIOUS
<1>1. ASSUME UNCHANGED <<decl, imports, changed, lookup>>, stack # <<>>,
             StackRight /\ CacheRight /\ Ranks # {} /\ LookupTimes /\ LookupRight => StepRight
      PROVE  AnswerInv'
  <2> SUFFICES ASSUME Acyclic'
               PROVE  CacheRight' /\ StackRight' /\ LookupTimes' /\ LookupRight' /\ AnswerOK'
    BY DEF AnswerInv
  <2>1. Acyclic /\ Ranks # {}
    <3>1. Acyclic
      BY <1>1 DEF Acyclic
    <3> QED BY <3>1, AcyclicRanks
  <2>2. CacheRight /\ StackRight /\ LookupTimes /\ LookupRight
    BY <2>1 DEF AnswerInv
  <2>3. StepRight
    BY <1>1, <2>1, <2>2
  <2>4. LookupTimes' /\ LookupRight' /\ AnswerOK'
    BY <1>1, <2>2, <2>3, SearchingRight
  <2> QED BY <2>3, <2>4 DEF StepRight
<1>2. LookupTimes => lookup.errors \in Nat /\ lookup.errors <= errors
  BY DEF LookupTimes
<1>3. CASE SearchAtOnce
  <2>1. UNCHANGED <<decl, imports, changed, lookup>> /\ stack # <<>>
    BY <1>3 DEF SearchAtOnce, At
  <2> QED BY <1>1, <1>2, <1>3, <2>1, AtOnceRight
<1>4. CASE SearchEnter
  <2>1. UNCHANGED <<decl, imports, changed, lookup>> /\ stack # <<>>
    BY <1>4 DEF SearchEnter, At
  <2> QED BY <1>1, <1>2, <1>4, <2>1, EnterRight
<1>5. CASE SearchImport
  <2>1. UNCHANGED <<decl, imports, changed, lookup>> /\ stack # <<>>
    BY <1>5 DEF SearchImport, At
  <2> QED BY <1>1, <1>2, <1>5, <2>1, ImportRight
<1>6. CASE SearchMerge
  <2>1. UNCHANGED <<decl, imports, changed, lookup>> /\ stack # <<>>
    BY <1>6 DEF SearchMerge, At
  <2> QED BY <1>1, <1>2, <1>6, <2>1, TakeRight
<1>7. CASE SearchFound
  <2>1. UNCHANGED <<decl, imports, changed, lookup>> /\ stack # <<>>
    BY <1>7 DEF SearchFound, At
  <2> QED BY <1>1, <1>2, <1>7, <2>1, FoundRight
<1>8. CASE SearchLeave
  <2>1. UNCHANGED <<decl, imports, changed, lookup>> /\ stack # <<>>
    BY <1>8 DEF SearchLeave, At
  <2> QED BY <1>1, <1>2, <1>8, <2>1, LeaveRight
<1>9. CASE LookupNext
  <2>1. UNCHANGED imports
    BY <1>9 DEF LookupNext
  <2> SUFFICES ASSUME Acyclic'
               PROVE  CacheRight' /\ StackRight' /\ LookupTimes' /\ LookupRight' /\ AnswerOK'
    BY DEF AnswerInv
  <2>2. Acyclic
    BY <2>1 DEF Acyclic
  <2>3. CacheRight /\ LookupTimes /\ LookupRight
    BY <2>2 DEF AnswerInv
  <2> QED BY <1>9, <2>3, NextTryRight
<1>10. ASSUME NEW m \in Module, NEW x \in bound.idents, NEW tries, Start(m, x, tries),
              \A t \in DOMAIN tries : "IgnoreErrors" \in tries[t] <=> "IgnoreErrors" \in tries[1],
              CacheRight => CacheRight'
       PROVE  AnswerInv'
  <2>1. UNCHANGED <<decl, imports, changed>> /\ x \in Ident
    BY <1>10 DEF Start, TypeInv, LookupInv
  <2> SUFFICES ASSUME Acyclic' PROVE AnswerInv'
    BY DEF AnswerInv
  <2>2. Acyclic
    BY <2>1 DEF Acyclic
  <2>3. CacheRight'
    BY <1>10, <2>2 DEF AnswerInv
  <2> QED BY <1>10, <2>1, <2>3, StartRight
<1>11. CASE \E m \in Module, x \in bound.idents : LookupUnqualified(m, x)
  <2>1. PICK m \in Module, x \in bound.idents : LookupUnqualified(m, x)
    BY <1>11
  <2>2. Start(m, x, Unqualified({})) /\ cache' = cache /\ stale' = stale
    BY <2>1 DEF LookupUnqualified
  <2>3. CacheRight => CacheRight'
    BY <2>2, CacheKept DEF Start
  <2>4. \A t \in DOMAIN Unqualified({}) : "IgnoreErrors" \in Unqualified({})[t]
                                            <=> "IgnoreErrors" \in Unqualified({})[1]
    BY TriesAgree
  <2> QED BY <1>10, <2>2, <2>3, <2>4
<1>12. CASE \E m, k \in Module, x \in bound.idents : LookupQualified(m, k, x)
  <2>1. PICK m \in Module, k \in Module, x \in bound.idents : LookupQualified(m, k, x)
    BY <1>12
  <2>2. Start(m, x, Qualified(m, k)) /\ cache' = cache /\ stale' = stale
    BY <2>1 DEF LookupQualified
  <2>3. CacheRight => CacheRight'
    BY <2>2, CacheKept DEF Start
  <2>4. \A t \in DOMAIN Qualified(m, k) : "IgnoreErrors" \in Qualified(m, k)[t]
                                            <=> "IgnoreErrors" \in Qualified(m, k)[1]
    BY TriesAgree
  <2> QED BY <1>10, <2>2, <2>3, <2>4
<1>13. CASE \E x \in bound.idents : Suggest(x)
  <2>1. PICK x \in bound.idents : Suggest(x)
    BY <1>13
  <2>2. /\ Start(lookup.mod, x, Unqualified({"IgnoreErrors"}))
        /\ cache' = [m \in Module |-> [cache[m] EXCEPT !.ident = NoIdent]]
        /\ lookup.mod \in Module
    BY <2>1 DEF Suggest, TypeInv, LookupInv
  <2>3. \A m \in Module : cache'[m].ident = NoIdent
    BY <2>2 DEF TypeInv, Types
  <2>4. CacheRight'
    BY <2>3 DEF CacheRight
  <2>5. \A t \in DOMAIN Unqualified({"IgnoreErrors"}) :
           "IgnoreErrors" \in Unqualified({"IgnoreErrors"})[t]
             <=> "IgnoreErrors" \in Unqualified({"IgnoreErrors"})[1]
    BY TriesAgree
  <2>6. PICK m \in Module : m = lookup.mod
    BY <2>2
  <2> QED BY <1>10, <2>2, <2>4, <2>5, <2>6
<1>14. CASE \E m \in Module, x \in bound.idents, kind \in {"variable", "function"} :
               SymtabInsert(m, x, kind)
  <2>1. PICK m \in Module, x \in bound.idents, kind \in {"variable", "function"} :
                SymtabInsert(m, x, kind)
    BY <1>14
  <2>2. /\ Change(m) /\ Invalidate(m) /\ imports' = imports
        /\ decl' = [decl EXCEPT ![m][x] = kind]
    BY <2>1 DEF SymtabInsert
  <2>3. Ranks' \subseteq Ranks
    BY <2>2 DEF Ranks
  <2>4. \A n \in Module : n # m => decl'[n] = decl[n] /\ imports'[n] = imports[n]
    BY <2>2 DEF TypeInv, Types
  <2> QED BY <2>2, <2>3, <2>4, BetweenRight
<1>15. CASE \E m \in Module, new \in Import : ImportMember(m, new)
  <2>1. PICK m \in Module, new \in Import : ImportMember(m, new)
    BY <1>15
  <2>2. Change(m) /\ Invalidate(m) /\ decl' = decl /\ imports' = imports
    BY <2>1 DEF ImportMember
  <2>3. Ranks' \subseteq Ranks
    BY <2>2 DEF Ranks
  <2> QED BY <2>2, <2>3, BetweenRight
<1>17. CASE \E m \in Module, new \in Import : ImportScope(m, new)
  <2>1. PICK m \in Module, new \in Import : ImportScope(m, new)
    BY <1>17
  <2>2. /\ Change(m) /\ decl' = decl /\ cache' = cache
        /\ stale' = IF ImportsCached(m) THEN stale \cup {m} ELSE stale
        /\ imports' = [imports EXCEPT ![m] = Imported(imports[m], new)]
    BY <2>1 DEF ImportScope
  <2>3. /\ imports \in [Module -> Seq(Import)]
        /\ imports'[m] = Imported(imports[m], new)
        /\ \A n \in Module : n # m => decl'[n] = decl[n] /\ imports'[n] = imports[n]
    BY <2>2 DEF TypeInv, Types
  <2>4. \A n \in Module : \A i \in DOMAIN imports[n] :
           i \in DOMAIN imports'[n] /\ imports'[n][i].mod = imports[n][i].mod
    <3>1. \A i \in DOMAIN imports[m] :
             i \in DOMAIN Imported(imports[m], new)
               /\ Imported(imports[m], new)[i].mod = imports[m][i].mod
      BY <2>3, ImportedKeeps
    <3> QED BY <2>3, <3>1
  <2>5. Ranks' \subseteq Ranks
    BY <2>4 DEF Ranks
  <2>6. CacheLeft(m)
    BY <2>2, <2>4 DEF CacheLeft
  <2> QED BY <2>2, <2>3, <2>5, <2>6, BetweenRight
<1>16. CASE UNCHANGED vars
  <2>1. CacheRight => CacheRight'
    BY <1>16, CacheKept DEF vars
  <2>2. Depth' = Depth /\ Top' = Top /\ (At("merge")' <=> At("merge"))
    BY <1>16 DEF vars, Depth, Top, At
  <2>3. UNCHANGED <<decl, imports, changed, lookup, stack, ret, errors, stale>>
    BY <1>16 DEF vars
  <2>7. /\ \A m : Settled(m)' <=> Settled(m)
        /\ Ranks' = Ranks
        /\ \A S, symbol, x, flags, failed :
              Right(S, symbol, x, flags, failed)' <=> Right(S, symbol, x, flags, failed)
        /\ \A m, x, flags : Meant(m, x, flags)' = Meant(m, x, flags)
        /\ \A f : Offer(f)' = Offer(f)
        /\ \A f, g : CalledFrom(g, f)' <=> CalledFrom(g, f)
    BY <2>3, RightSame
  <2>8. ASSUME StackRight PROVE StackRight'
    <3>1. \A f \in FrameSet : FrameRight(f) => FrameRight(f)'
      <4>1. errors \in Nat /\ errors' \in Nat /\ errors <= errors'
        BY <2>3 DEF TypeInv, Types
      <4> QED BY <2>3, <4>1, FrameKept
    <3>2. \A k \in 1..Depth : stack[k] \in FrameSet
      BY ElementOfSeq DEF TypeInv, StackInv, Depth
    <3>3. \A k \in 1..Depth : FrameRight(stack[k])'
      BY <2>3, <2>8, <3>1, <3>2 DEF StackRight
    <3>4. \A k \in 2..Depth : CalledFrom(stack[k-1], stack[k])'
      BY <2>3, <2>7, <2>8 DEF StackRight
    <3>5. Descending'
      BY <2>2, <2>3, <2>7, <2>8 DEF StackRight, Descending
    <3>6. stack # <<>> => FirstOf(stack[Depth])'
      <4>1. \A f : FirstOf(f) => FirstOf(f)'
        BY <2>3 DEF FirstOf, Try, Effective
      <4> QED BY <2>2, <2>3, <2>8, <4>1 DEF StackRight
    <3>7. Delivered'
      BY <2>2, <2>3, <2>7, <2>8 DEF StackRight, Delivered
    <3> QED BY <2>2, <2>3, <3>3, <3>4, <3>5, <3>6, <3>7 DEF StackRight
  <2>4. /\ LookupTimes => LookupTimes'
        /\ Acyclic' <=> Acyclic
    BY <1>16 DEF vars, LookupTimes, Acyclic
  <2>5. LookupRight => LookupRight'
    <3>1. \A t : MeantBy(t)' = MeantBy(t)
      BY <2>3, <2>7 DEF MeantBy, Effective
    <3>2. TryRight' <=> TryRight
      BY <2>3, <2>7, <3>1 DEF TryRight, Try
    <3> QED BY <2>3, <2>7, <3>1, <3>2 DEF LookupRight
  <2>6. AnswerOK => AnswerOK'
    <3>1. Wanted' = Wanted
      BY <2>3, WantedSame
    <3>2. Conflict(Wanted, lookup.ident)' <=> Conflict(Wanted, lookup.ident)
      BY <2>3, <3>1 DEF Conflict, Overloadable
    <3>4. Answered' <=> Answered
      BY <2>3 DEF Answered, Idle
    <3>3. ASSUME AnswerRight PROVE AnswerRight'
      <4>1. /\ ret' = ret /\ lookup' = lookup /\ errors' = errors
        BY <2>3
      <4>2. CASE Conflict(Wanted, lookup.ident)
        BY <3>1, <3>2, <3>3, <3>4, <4>1, <4>2 DEF AnswerRight
      <4>3. CASE ~Conflict(Wanted, lookup.ident)
        BY <3>1, <3>2, <3>3, <3>4, <4>1, <4>3 DEF AnswerRight
      <4> QED BY <4>2, <4>3
    <3> QED BY <2>3, <2>7, <3>3, <3>4 DEF AnswerOK
  <2> QED BY <2>1, <2>4, <2>5, <2>6, <2>8 DEF AnswerInv
<1> QED
  BY <1>3, <1>4, <1>5, <1>6, <1>7, <1>8, <1>9, <1>11, <1>12, <1>13, <1>14, <1>15, <1>16, <1>17
     DEF Next, Search, Finished

\* At the start nothing is cached, searched or answered.
LEMMA AnswerInvInit == Init => AnswerInv
<1> SUFFICES ASSUME Init PROVE CacheRight /\ StackRight /\ LookupTimes /\ LookupRight /\ AnswerOK
  BY DEF AnswerInv
<1>1. /\ cache = [m \in Module |-> NoCache] /\ stack = <<>> /\ errors = 0 /\ changed = <<>>
      /\ lookup = [mod |-> CHOOSE m \in Module : TRUE, ident |-> NoIdent,
                   tries |-> <<>>, try |-> 0, errors |-> 0, changes |-> 0]
  BY DEF Init
<1>2. CacheRight
  <2>1. \A m \in Module : cache[m].ident = NoIdent
    BY <1>1 DEF NoCache
  <2> QED BY <2>1 DEF CacheRight
<1>3. StackRight
  <2>1. Depth = 0 /\ ~At("merge")
    BY <1>1, EmptySeq DEF Depth, At
  <2> QED BY <1>1, <2>1 DEF StackRight, Descending, Delivered
<1>4. LookupTimes /\ LookupRight
  <2>1. Len(changed) = 0
    BY <1>1, EmptySeq
  <2> QED BY <1>1, <2>1 DEF LookupTimes, LookupRight
<1>5. AnswerOK
  BY <1>1 DEF AnswerOK, Answered
<1> QED BY <1>2, <1>3, <1>4, <1>5

(***************************************************************************)
(* An import does not clear the cache.  An unqualified lookup does not meet *)
(* a result older than an import all the same: its first try, of the module *)
(* alone, is not answered by such a result and then takes its place.        *)
(***************************************************************************)

LocalFlags == {"SearchUnqualifiedModule", "SearchLocalsOnly"}

\* A search of the module alone, which causes no error.
Local(f) ==
    /\ LocalFlags \subseteq f.flags /\ f.pc \in {"enter", "scan", "leave"}
    /\ f.pc # "enter" => f.errors = errors
    /\ f.pc = "scan" => f.symbol = {}

\* The first try is going on, and its only search is one of the module alone.
LocalTry == lookup.try = 1 /\ Depth = 1 /\ Top.mod = lookup.mod /\ Local(Top)

FreshInv ==
    /\ lookup.changes \in Nat /\ lookup.changes <= Len(changed)
    /\ lookup.try # 0 => lookup.changes = Len(changed)
    /\ \A m \in stale : "SearchLocalsOnly" \notin cache[m].flags
    /\ lookup.mod \in stale /\ Len(lookup.tries) > 1 /\ lookup.changes = Len(changed)
         => LocalTry

\* The first try of an unqualified lookup is of the module alone, and a qualified one
\* has no other.
LEMMA FirstTryLocal ==
    ASSUME NEW more, NEW m, NEW k
    PROVE  LocalFlags \subseteq Unqualified(more)[1] /\ Len(Qualified(m, k)) = 1
<1>1. LocalFlags \subseteq Unqualified(more)[1]
  <2> DEFINE four == <<{"SearchLocalsOnly"}, {"SearchImportsOnly"},
                       {"SearchLocalsOnly", "IgnoreSymbolVisibility"},
                       {"SearchImportsOnly", "IgnoreSymbolVisibility"}>>
  <2>1. "SearchLocalsOnly" \in four[1]
    OBVIOUS
  <2> HIDE DEF four
  <2>2. Unqualified(more) = [t \in 1..4 |-> more \cup {"SearchUnqualifiedModule"} \cup four[t]]
    BY DEF Unqualified, four
  <2>3. 1 \in 1..4
    OBVIOUS
  <2> QED BY <2>1, <2>2, <2>3 DEF LocalFlags
<1> QED BY <1>1 DEF Qualified

\* A step of a search that makes nothing stale.
LEMMA FreshKept ==
    ASSUME FreshInv, UNCHANGED <<lookup, changed>>,
           \A m \in stale' : m \in stale /\ cache'[m].flags = cache[m].flags,
           lookup.mod \in stale' /\ LocalTry => LocalTry'
    PROVE  FreshInv'
  BY DEF FreshInv

\* A search goes on as f, and with it the first try.
LEMMA FreshOn ==
    ASSUME FreshInv, UNCHANGED <<lookup, changed, stale, cache>>, NEW f \in FrameSet,
           LocalTry => WentOn(f) /\ f.mod = lookup.mod /\ Local(f)'
    PROVE  FreshInv'
<1>1. ASSUME LocalTry PROVE LocalTry'
  <2>1. WentOn(f) /\ f.mod = lookup.mod /\ Local(f)'
    BY <1>1
  <2>2. Depth' = 1 /\ Top' = f
    BY <1>1, <2>1 DEF LocalTry, WentOn, Top
  <2> QED BY <1>1, <2>1, <2>2 DEF LocalTry, Local
<1> QED BY <1>1, FreshKept

\* A lookup begins.
LEMMA FreshStart ==
    ASSUME TypeInv, FreshInv, NEW m, NEW x, NEW tries, Start(m, x, tries),
           Len(tries) > 1 => LocalFlags \subseteq tries[1] \/ stale' = {},
           \A n \in stale' : n \in stale /\ cache'[n].flags = cache[n].flags
    PROVE  FreshInv'
<1> DEFINE g == Frame(m, x, tries[1])
<1>1. /\ lookup'.mod = m /\ lookup'.tries = tries /\ lookup'.try = 1
      /\ lookup'.changes = Len(changed) /\ changed' = changed
      /\ stack' = <<g>>
  BY DEF Start
<1>2. Len(changed) \in Nat
  BY LenProperties DEF TypeInv, Types
<1>3. g.mod = m /\ g.flags = tries[1] /\ g.pc = "enter"
  BY DEF Frame
<1> HIDE DEF g
<1>4. Depth' = 1 /\ Top' = g
  BY <1>1 DEF Depth, Top
<1>5. ASSUME LocalFlags \subseteq tries[1] PROVE LocalTry'
  BY <1>1, <1>3, <1>4, <1>5 DEF LocalTry, Local
<1> QED BY <1>1, <1>2, <1>5 DEF FreshInv

\* Something is added between two lookups: there is no answer any more.
LEMMA FreshChange ==
    ASSUME TypeInv, FreshInv, NEW m \in Module, Change(m),
           \A n \in stale' : "SearchLocalsOnly" \notin cache'[n].flags
    PROVE  FreshInv'
<1>1. changed' = Append(changed, m) /\ lookup' = lookup /\ lookup.try = 0
  BY DEF Change, Idle
<1>2. Len(changed) \in Nat /\ Len(changed') = Len(changed) + 1
  BY <1>1, ChangedMore DEF TypeInv, Types
<1> QED BY <1>1, <1>2 DEF FreshInv

\* A try ends.
LEMMA FreshNext ==
    ASSUME TypeInv, FreshInv, LookupNext
    PROVE  FreshInv'
<1>1. /\ stack = <<>> /\ lookup.try # 0 /\ UNCHANGED <<cache, changed, stale>>
      /\ lookup'.mod = lookup.mod /\ lookup'.tries = lookup.tries
      /\ lookup'.changes = lookup.changes
  BY DEF LookupNext
<1>2. Depth = 0
  BY <1>1, EmptySeq DEF Depth
<1>3. lookup.changes = Len(changed) /\ ~LocalTry
  BY <1>1, <1>2 DEF FreshInv, LocalTry
<1> QED BY <1>1, <1>3 DEF FreshInv

\* Every step keeps what is stale out of the way of unqualified lookups.
LEMMA FreshInvInductive == TypeInv /\ FreshInv /\ [Next]_vars => FreshInv'
<1> SUFFICES ASSUME TypeInv, FreshInv, [Next]_vars PROVE FreshInv'
  OBVIOUS
<1>1. ASSUME stack # <<>>, LocalTry
      PROVE  /\ Top \in FrameSet /\ Top.mod \in Module /\ Top = stack[1] /\ 1 \in 1..Depth
             /\ LocalFlags \subseteq Top.flags /\ Effective(Top.flags) = Top.flags
             /\ Top.mod = lookup.mod /\ "SearchLocalsOnly" \in Top.flags
             /\ errors \in Nat
  BY <1>1, TopTypes DEF LocalTry, Local, LocalFlags, Effective, TypeInv, Types
<1>2. CASE SearchAtOnce
  <2>1. /\ stack # <<>> /\ Top.pc = "enter" /\ UNCHANGED <<lookup, changed, stale, cache>>
        /\ \/ InSearch(Top.mod)
           \/ Cached(Top.mod, Top.ident, Effective(Top.flags))
    BY <1>2 DEF SearchAtOnce, At
  <2>2. ASSUME LocalTry PROVE lookup.mod \notin stale
    <3>1. CASE InSearch(Top.mod)
      <4>1. PICK k \in 1..Depth : Searching(k)
        BY <1>1, <2>1, <2>2, <3>1 DEF InSearch, TypeInv, StackInv
      <4>2. k = 1
        BY <2>2, <4>1 DEF LocalTry
      <4> QED BY <1>1, <2>1, <2>2, <4>1, <4>2 DEF Searching
    <3>2. CASE Cached(Top.mod, Top.ident, Effective(Top.flags))
      BY <1>1, <2>1, <2>2, <3>2 DEF Cached, FreshInv
    <3> QED BY <2>1, <3>1, <3>2
  <2> QED BY <2>1, <2>2, FreshKept
<1>3. CASE SearchEnter
  <2>1. /\ stack # <<>> /\ UNCHANGED <<lookup, changed, stale, cache, errors>>
    BY <1>3 DEF SearchEnter, At
  <2>2. PICK f \in FrameSet :
          /\ WentOn(f) /\ f.mod = Top.mod /\ f.flags = Effective(Top.flags) /\ f.errors = errors
          /\ f.pc = "leave" \/ (f.pc = "scan" /\ f.symbol = {})
    BY <1>3, EnterShape
  <2>3. ASSUME LocalTry PROVE f.mod = lookup.mod /\ Local(f)'
    BY <1>1, <2>1, <2>2, <2>3 DEF Local
  <2> QED BY <2>1, <2>2, <2>3, FreshOn
<1>4. CASE SearchImport
  <2> DEFINE entry == imports[Top.mod][Top.i]
  <2>1. /\ stack # <<>> /\ Top.pc = "scan" /\ UNCHANGED <<lookup, changed, stale, cache, errors>>
    BY <1>4 DEF SearchImport, At
  <2>2. PICK f \in FrameSet :
          /\ f.mod = Top.mod /\ f.flags = Top.flags /\ f.symbol = Top.symbol
          /\ f.errors = Top.errors
          /\ (f.pc = "scan" /\ WentOn(f)) \/ ~Skipped(entry, Top.flags)
    BY <1>4, ImportShape
  <2>3. ASSUME LocalTry PROVE f.mod = lookup.mod /\ Local(f)' /\ WentOn(f)
    <3>1. Skipped(entry, Top.flags)
      BY <1>1, <2>1, <2>3 DEF Skipped
    <3> QED BY <1>1, <2>1, <2>2, <2>3, <3>1 DEF Local, LocalTry
  <2> QED BY <2>1, <2>3, FreshOn
<1>5. CASE SearchMerge
  <2>1. /\ stack # <<>> /\ Top.pc = "merge" /\ UNCHANGED <<lookup, changed, stale, cache>>
    BY <1>5 DEF SearchMerge, At
  <2> QED BY <2>1, FreshKept DEF LocalTry, Local
<1>6. CASE SearchFound
  <2>1. /\ stack # <<>> /\ Top.pc \in {"found", "scan"}
        /\ UNCHANGED <<lookup, changed, stale, cache>>
        /\ Top.symbol = {} => errors' = errors + 0
    BY <1>6 DEF SearchFound, At
  <2>2. PICK f \in FrameSet :
          /\ WentOn(f) /\ f.mod = Top.mod /\ f.flags = Top.flags /\ f.pc = "leave"
          /\ f.errors = Top.errors
    BY <1>6, FoundShape
  <2>3. ASSUME LocalTry PROVE f.mod = lookup.mod /\ Local(f)'
    <3>1. Top.symbol = {} /\ Top.errors = errors
      BY <2>1, <2>3 DEF LocalTry, Local
    <3>2. errors' = errors
      BY <1>1, <2>1, <2>3, <3>1
    <3> QED BY <1>1, <2>1, <2>2, <2>3, <3>1, <3>2 DEF Local
  <2> QED BY <2>1, <2>2, <2>3, FreshOn
<1>7. CASE SearchLeave
  <2>1. /\ stack # <<>> /\ Top.pc = "leave" /\ UNCHANGED <<lookup, changed>>
        /\ IF errors = Top.errors
           THEN /\ stale' = stale \ {Top.mod}
                /\ \A m \in Module : m # Top.mod => cache'[m] = cache[m]
           ELSE UNCHANGED <<stale, cache>>
    BY <1>7, TopTypes DEF SearchLeave, At, Cache, MayCache, TypeInv, Types
  <2>2. ASSUME LocalTry PROVE lookup.mod \notin stale'
    BY <1>1, <2>1, <2>2 DEF LocalTry, Local
  <2>3. \A m \in stale : m \in Module
    BY DEF TypeInv, Types
  <2> QED BY <2>1, <2>2, <2>3, FreshKept
<1>8. CASE LookupNext
  BY <1>8, FreshNext
<1>9. CASE \E m \in Module, x \in bound.idents : LookupUnqualified(m, x)
  BY <1>9, FreshStart, FirstTryLocal DEF LookupUnqualified
<1>10. CASE \E m, k \in Module, x \in bound.idents : LookupQualified(m, k, x)
  <2>1. PICK m \in Module, k \in Module, x \in bound.idents : LookupQualified(m, k, x)
    BY <1>10
  <2>2. Start(m, x, Qualified(m, k)) /\ UNCHANGED <<cache, stale>>
    BY <2>1 DEF LookupQualified
  <2>3. ~(Len(Qualified(m, k)) > 1)
    <3>1. Len(Qualified(m, k)) = 1
      BY DEF Qualified
    <3> QED BY <3>1
  <2>4. \A n \in stale' : n \in stale /\ cache'[n].flags = cache[n].flags
    BY <2>2
  <2>5. Start(m, x, Qualified(m, k))
    BY <2>2
  <2> QED BY <2>3, <2>4, <2>5, FreshStart
<1>11. CASE \E x \in bound.idents : Suggest(x)
  BY <1>11, FreshStart DEF Suggest
<1>12. ASSUME NEW m \in Module, Change(m), Invalidate(m) PROVE FreshInv'
  <2>1. \A n \in stale' : n \in stale /\ cache'[n].flags = cache[n].flags
    BY <1>12 DEF Invalidate, TypeInv, Types
  <2> QED BY <1>12, <2>1, FreshChange DEF FreshInv
<1>13. CASE \E m \in Module, x \in bound.idents, kind \in {"variable", "function"} :
               SymtabInsert(m, x, kind)
  BY <1>12, <1>13 DEF SymtabInsert
<1>14. CASE \E m \in Module, new \in Import : ImportMember(m, new)
  BY <1>12, <1>14 DEF ImportMember
<1>15. CASE \E m \in Module, new \in Import : ImportScope(m, new)
  <2>1. PICK m \in Module, new \in Import : ImportScope(m, new)
    BY <1>15
  <2>2. /\ Change(m) /\ cache' = cache
        /\ stale' = IF ImportsCached(m) THEN stale \cup {m} ELSE stale
    BY <2>1 DEF ImportScope
  <2>3. \A n \in stale' : "SearchLocalsOnly" \notin cache'[n].flags
    BY <2>2 DEF FreshInv, ImportsCached
  <2> QED BY <2>2, <2>3, FreshChange
<1>16. CASE UNCHANGED vars
  <2>1. UNCHANGED <<lookup, changed, stale, cache, stack, errors>>
    BY <1>16 DEF vars
  <2>2. LocalTry => LocalTry'
    BY <2>1 DEF LocalTry, Local, Depth, Top
  <2> QED BY <2>1, <2>2, FreshKept
<1> QED
  BY <1>2, <1>3, <1>4, <1>5, <1>6, <1>7, <1>8, <1>9, <1>10, <1>11, <1>13, <1>14, <1>15, <1>16
     DEF Next, Search, Finished

\* At the start nothing is stale.
LEMMA FreshInvInit == Init => FreshInv
<1> SUFFICES ASSUME Init PROVE FreshInv
  OBVIOUS
<1>1. /\ changed = <<>> /\ stale = {} /\ lookup.changes = 0 /\ lookup.try = 0
  BY DEF Init
<1>2. Len(changed) = 0
  BY <1>1, EmptySeq
<1> QED BY <1>1, <1>2 DEF FreshInv

\* So only a first try meets a result older than an import, and nothing stale is left by
\* an unqualified lookup.
LEMMA FreshMeans ==
    ASSUME TypeInv, FreshInv
    PROVE  /\ FreshTries
           /\ Answered /\ Len(lookup.tries) > 1 => lookup.mod \notin stale
<1>1. lookup.try \in 0..Len(lookup.tries) /\ Len(lookup.tries) \in Nat
  BY LenProperties DEF TypeInv, LookupInv
<1>2. ASSUME lookup.try > 1 PROVE lookup.mod \notin stale
  <2>1. Len(lookup.tries) > 1 /\ lookup.try # 0 /\ lookup.try # 1
    BY <1>1, <1>2
  <2> QED BY <2>1 DEF FreshInv, LocalTry
<1> QED BY <1>2 DEF FreshTries, FreshInv, LocalTry, Answered, Idle

\* Where no module imports itself, the imports of a module reach lower ranks only.
LEMMA OwnChangesSettled ==
    ASSUME TypeInv, Acyclic, NEW m \in Module, \A n \in DOMAIN changed : changed[n] = m
    PROVE  Settled(m)
<1>1. PICK rank \in Ranks : TRUE
  BY AcyclicRanks
<1> DEFINE T == {n \in Module : rank[n] < rank[m]}
<1>2. /\ rank \in [Module -> 1..Cardinality(Module)]
      /\ \A n \in Module : \A i \in DOMAIN imports[n] :
            imports[n][i].mod \in Module /\ rank[imports[n][i].mod] < rank[n]
  BY ImportTypes DEF Ranks, TypeInv
<1>3. \A n \in Module : rank[n] \in Int
  BY <1>2
<1>4. \A n \in T : \A i \in DOMAIN imports[n] : imports[n][i].mod \in T
  BY <1>2, <1>3
<1>5. \A i \in DOMAIN imports[m] : imports[m][i].mod \in T
  BY <1>2
<1>6. m \notin T
  BY <1>3
<1>7. \A n \in DOMAIN changed : changed[n] \notin T
  BY <1>6
<1>8. T \in SUBSET Module
  OBVIOUS
<1> HIDE DEF T
<1> QED BY <1>4, <1>5, <1>7, <1>8 DEF Settled

\* Where no module imports itself, every lookup is answered right: the cache
\* (dmodule.d:1047, 1060-1066) never gives another symbol than a search without it, an
\* ambiguity is reported every time, and what was added to the module asked is seen, for
\* any number of modules, lookups and changes.  A declaration clears the cache
\* (dmodule.d:1086), an import does not (dsymbol.d:1548): it is seen by unqualified
\* lookups, and by a qualified one unless that met a result older than the import.
THEOREM OwnChangesFound == Spec => []OwnChangesSeen
<1>1. TypeInv /\ FreshInv /\ AnswerInv => OwnChangesSeen
  <2> SUFFICES ASSUME TypeInv, FreshInv, AnswerInv, Answered, Acyclic,
                      \A n \in DOMAIN changed : changed[n] = lookup.mod,
                      Len(lookup.tries) > 1 \/ lookup.mod \notin stale
               PROVE  AnswerRight
    BY DEF OwnChangesSeen
  <2>1. lookup.mod \in Module
    BY DEF TypeInv, LookupInv
  <2>2. Settled(lookup.mod)
    BY <2>1, OwnChangesSettled
  <2>3. lookup.mod \notin stale
    BY FreshMeans
  <2> QED BY <2>2, <2>3 DEF AnswerInv, AnswerOK
<1>2. TypeInv /\ FreshInv => FreshTries
  BY FreshMeans
<1> QED
  BY <1>1, <1>2, TypeInvInit, TypeInvInductive, FreshInvInit, FreshInvInductive, AnswerInvInit,
     AnswerInvInductive, PTL DEF Spec

(***************************************************************************)
(* The first lookup, in cycles too.  A search that comes back to a module   *)
(* finds nothing there, and what is cached on the way is incomplete; but    *)
(* whoever left something out was called, further out, by the search that   *)
(* will find it.                                                            *)
(***************************************************************************)

\* The modules a try may come to, with the flags of all searches but the first.
Asked == Inherited(Effective(Try))
Reached == LeadsTo(Scanned(lookup.mod, Effective(Try)), lookup.ident)

\* n has something for the lookup.
Shows(n) == decl[n][lookup.ident] # "none" /\ Visible({n}, lookup.ident, Asked)

\* The modules being searched, and what was found in them or is handed over.
Stacked == {stack[k].mod : k \in 1..Depth}
Gathered ==
    {n \in Module : (\E k \in 1..Depth : n \in stack[k].symbol) \/ (At("merge") /\ n \in ret)}

\* The search f belongs to the try; the first one was called by the lookup itself.
InTry(f, first) ==
    /\ f.ident = lookup.ident
    /\ IF first
       THEN f.mod = lookup.mod /\ f.flags = IF f.pc = "enter" THEN Try ELSE Effective(Try)
       ELSE f.mod \in Reached /\ f.flags = Asked

\* What f has passed in the list of its imports is in S.
Passed(f, S) ==
    \A i \in DOMAIN imports[f.mod] :
        i < f.i /\ ~Skipped(imports[f.mod][i], f.flags) => imports[f.mod][i].mod \in S

\* The search f has looked where its place says.
Looked(f) ==
    /\ f.pc # "found" /\ ~Conflict(f.symbol, f.ident)
    /\ f.pc = "enter" => f.i = 1 /\ f.symbol = {}
    /\ f.pc \in {"scan", "merge"} => decl[f.mod][f.ident] = "none"
    /\ f.pc = "leave" => IF decl[f.mod][f.ident] = "none" THEN f.i > Len(imports[f.mod])
                                                          ELSE f.mod \in f.symbol

\* The flags that searches were made with up to try t, and of what is cached.
Used(t) ==
    {Effective(lookup.tries[u]) : u \in 1..t} \cup
    {Inherited(Effective(lookup.tries[u])) :
        u \in {v \in 1..t : "SearchLocalsOnly" \notin Effective(lookup.tries[v])}}

CachedBy(t) == \A n \in Module : cache[n].ident # NoIdent => cache[n].flags \in Used(t)

\* Where the modules of D lead to is in S.
Leads(D, S) ==
    \A n \in D : decl[n][lookup.ident] = "none" =>
        \A i \in DOMAIN imports[n] : imports[n][i].public => imports[n][i].mod \in S

\* What is cached for this try, is cached of modules of D.
CachedIn(D) ==
    \A n \in Module : cache[n].ident = lookup.ident /\ cache[n].flags = Asked =>
        n \in D /\ ~Conflict(cache[n].symbol, lookup.ident)

Walkers ==
    /\ \A k \in 1..Depth : InTry(stack[k], k = Depth) /\ Looked(stack[k])
    /\ At("merge") => ~Conflict(ret, lookup.ident)
    /\ Depth > 1 => "SearchLocalsOnly" \notin Effective(Try)
    /\ ~Searching(Depth) => CachedBy(lookup.try - 1)

\* D is done with: where it leads to is in D or on the stack, what it shows has
\* been gathered, and only what is in D is cached.
Walk(D) ==
    /\ Leads(D, D \cup Stacked)
    /\ \A n \in D : Shows(n) => n \in Gathered
    /\ CachedIn(D)
    /\ \A k \in 1..Depth : Passed(stack[k], D \cup Stacked)

Walking ==
    /\ \A u \in 1..lookup.try - 1 : MeantBy(u) = {}
    /\ CachedBy(lookup.try)
    /\ IF stack = <<>> THEN ret = MeantBy(lookup.try) /\ ~Conflict(ret, lookup.ident)
                       ELSE Walkers /\ \E D \in SUBSET Module : Walk(D)

\* Or else a conflict was reported, and one is meant.
Excused == errors > lookup.errors /\ Conflict(Wanted, lookup.ident)

FirstTries ==
    \/ lookup.tries = Unqualified({})
    \/ \E k \in Module : lookup.tries = Qualified(lookup.mod, k)

FirstLookup ==
    /\ lookup.ident \in Ident /\ lookup.errors \in Nat /\ lookup.errors <= errors
    /\ FirstTries
    /\ \/ Excused
       \/ lookup.try # 0 /\ Walking
       \/ lookup.try = 0 /\ ret = Wanted /\ ~Conflict(Wanted, lookup.ident)

NoLookup ==
    /\ stack = <<>> /\ lookup.try = 0 /\ lookup.ident = NoIdent
    /\ \A m \in Module : cache[m].ident = NoIdent

FirstInv == changed = <<>> => (lookups = 0 => NoLookup) /\ (lookups = 1 => FirstLookup)

\* The flags of the tries of an unqualified lookup.
LEMMA UnqualifiedFlags ==
    ASSUME NEW T, T = Unqualified({}), NEW t \in 1..4
    PROVE  /\ "SearchUnqualifiedModule" \in T[t]
           /\ "IgnoreErrors" \notin T[t] /\ "IgnorePrivateImports" \notin T[t]
           /\ "SearchLocalsOnly" \in T[t] <=> t \in {1, 3}
           /\ "SearchImportsOnly" \in T[t] <=> t \in {2, 4}
           /\ "IgnoreSymbolVisibility" \in T[t] <=> t \in {3, 4}
<1> DEFINE four == <<{"SearchLocalsOnly"}, {"SearchImportsOnly"},
                     {"SearchLocalsOnly", "IgnoreSymbolVisibility"},
                     {"SearchImportsOnly", "IgnoreSymbolVisibility"}>>
<1>1. /\ "SearchUnqualifiedModule" \notin four[t]
      /\ "IgnoreErrors" \notin four[t] /\ "IgnorePrivateImports" \notin four[t]
      /\ "SearchLocalsOnly" \in four[t] <=> t \in {1, 3}
      /\ "SearchImportsOnly" \in four[t] <=> t \in {2, 4}
      /\ "IgnoreSymbolVisibility" \in four[t] <=> t \in {3, 4}
  <2>1. t = 1 \/ t = 2 \/ t = 3 \/ t = 4
    OBVIOUS
  <2>2. CASE t = 1
    BY <2>2
  <2>3. CASE t = 2
    BY <2>3
  <2>4. CASE t = 3
    BY <2>4
  <2>5. CASE t = 4
    BY <2>5
  <2> QED BY <2>1, <2>2, <2>3, <2>4, <2>5
<1> HIDE DEF four
<1>2. T[t] = {} \cup {"SearchUnqualifiedModule"} \cup four[t]
  <2>1. T = [u \in 1..4 |-> {} \cup {"SearchUnqualifiedModule"} \cup four[u]]
    BY DEF Unqualified, four
  <2> QED BY <2>1
<1> QED BY <1>1, <1>2

\* What it takes to tell the flags of searches apart.
LEMMA FlagsKept ==
    ASSUME NEW flags
    PROVE  /\ "SearchUnqualifiedModule" \in flags => Effective(flags) = flags
           /\ "SearchUnqualifiedModule" \notin Inherited(flags)
           /\ "SearchLocalsOnly" \notin Inherited(flags)
           /\ "SearchImportsOnly" \notin Inherited(flags)
           /\ "IgnorePrivateImports" \in Inherited(flags)
           /\ "IgnoreErrors" \in Inherited(flags) <=> "IgnoreErrors" \in flags
           /\ "IgnoreSymbolVisibility" \in Inherited(flags) <=> "IgnoreSymbolVisibility" \in flags
           /\ "IgnoreErrors" \in Effective(flags) <=> "IgnoreErrors" \in flags
           /\ "IgnoreSymbolVisibility" \in Effective(flags) <=> "IgnoreSymbolVisibility" \in flags
           /\ "SearchImportsOnly" \in Effective(flags) <=> "SearchImportsOnly" \in flags
           /\ Inherited(Inherited(flags)) = Inherited(flags)
  BY DEF Effective, Inherited

\* A try neither ignores errors, nor is it made with the flags of an earlier search;
\* one that searches the imports only comes after one of the module's own symbols.
LEMMA TryFlags ==
    ASSUME FirstTries, NEW t \in DOMAIN lookup.tries
    PROVE  LET flags == Effective(lookup.tries[t]) IN
           /\ "IgnoreErrors" \notin flags
           /\ flags \notin Used(t - 1) /\ Inherited(flags) \notin Used(t - 1)
           /\ "SearchImportsOnly" \in flags =>
                 t - 1 \in DOMAIN lookup.tries /\ t - 1 >= 1
                 /\ "SearchImportsOnly" \notin Effective(lookup.tries[t - 1])
           /\ t \in Nat \ {0}
<1> DEFINE T == lookup.tries
           E == Effective(T[t])
<1>1. CASE T = Unqualified({})
  <2>1. DOMAIN T = 1..4
    BY <1>1 DEF Unqualified
  <2>2. \A u \in 1..4 :
           /\ "SearchUnqualifiedModule" \in T[u]
           /\ "IgnoreErrors" \notin T[u] /\ "IgnorePrivateImports" \notin T[u]
           /\ "SearchLocalsOnly" \in T[u] <=> u \in {1, 3}
           /\ "SearchImportsOnly" \in T[u] <=> u \in {2, 4}
           /\ "IgnoreSymbolVisibility" \in T[u] <=> u \in {3, 4}
    BY <1>1, UnqualifiedFlags
  <2>3. \A u \in 1..4 : Effective(T[u]) = T[u]
    BY <2>2, FlagsKept
  <2> HIDE DEF T
  <2>4. t \in 1..4 /\ E = T[t]
    BY <2>1, <2>3 DEF T
  <2>5. "SearchUnqualifiedModule" \in E /\ "SearchUnqualifiedModule" \notin Inherited(E)
    BY <2>2, <2>4, FlagsKept
  <2>6. ASSUME NEW u \in 1..t-1
        PROVE  /\ Effective(T[u]) # E /\ Effective(T[u]) # Inherited(E)
               /\ Inherited(Effective(T[u])) # E
               /\ "SearchLocalsOnly" \notin Effective(T[u]) =>
                     Inherited(Effective(T[u])) # Inherited(E)
    <3>1. u \in 1..4 /\ u < t
      BY <2>4
    <3>2. Effective(T[u]) = T[u] /\ "SearchUnqualifiedModule" \in T[u]
      BY <2>2, <2>3, <3>1
    <3>3. T[u] # T[t]
      <4>1. CASE t \in {3, 4} /\ u \in {1, 2}
        <5>1. "IgnoreSymbolVisibility" \in T[t] /\ "IgnoreSymbolVisibility" \notin T[u]
          BY <2>2, <2>4, <3>1, <4>1
        <5> QED BY <5>1
      <4>2. CASE ~(t \in {3, 4} /\ u \in {1, 2})
        <5>1. t \in {2, 4} /\ u \in {1, 3}
          BY <2>4, <3>1, <4>2
        <5>2. "SearchImportsOnly" \in T[t] /\ "SearchImportsOnly" \notin T[u]
          BY <2>2, <2>4, <3>1, <5>1
        <5> QED BY <5>2
      <4> QED BY <4>1, <4>2
    <3>4. T[u] # Inherited(E) /\ Inherited(T[u]) # E
      BY <2>5, <3>2, FlagsKept
    <3>5. ASSUME "SearchLocalsOnly" \notin T[u] PROVE Inherited(T[u]) # Inherited(E)
      <4>1. u = 2 /\ t \in {3, 4}
        BY <2>2, <2>4, <3>1, <3>5
      <4>2. "IgnoreSymbolVisibility" \in T[t] /\ "IgnoreSymbolVisibility" \notin T[u]
        BY <2>2, <2>4, <3>1, <4>1
      <4>3. "IgnoreSymbolVisibility" \in Inherited(E) /\ "IgnoreSymbolVisibility" \notin Inherited(T[u])
        BY <2>4, <4>2, FlagsKept
      <4> QED BY <4>3
    <3> QED BY <2>4, <3>2, <3>3, <3>4, <3>5
  <2>7. E \notin Used(t - 1) /\ Inherited(E) \notin Used(t - 1)
    <3>1. Used(t - 1) = {Effective(T[u]) : u \in 1..t-1} \cup
             {Inherited(Effective(T[u])) :
                u \in {v \in 1..t-1 : "SearchLocalsOnly" \notin Effective(T[v])}}
      BY DEF Used, T
    <3> HIDE DEF E
    <3> QED BY <2>6, <3>1
  <2>8. "IgnoreErrors" \notin E
    BY <2>2, <2>4
  <2>9. ASSUME "SearchImportsOnly" \in E
        PROVE t - 1 \in 1..4 /\ t - 1 >= 1 /\ "SearchImportsOnly" \notin Effective(T[t - 1])
    <3>1. t \in {2, 4}
      BY <2>2, <2>4, <2>9
    <3>2. t - 1 \in 1..4 /\ t - 1 \in {1, 3} /\ t - 1 >= 1
      BY <3>1
    <3>3. ~(t - 1 \in {2, 4})
      BY <3>2
    <3> QED BY <2>2, <2>3, <3>2, <3>3
  <2> QED BY <2>1, <2>4, <2>7, <2>8, <2>9 DEF T
<1>2. CASE \E k \in Module : T = Qualified(lookup.mod, k)
  <2>1. PICK k \in Module : T = Qualified(lookup.mod, k)
    BY <1>2
  <2>2. DOMAIN T = 1..1 /\ T[1] \subseteq {"SearchLocalsOnly", "IgnorePrivateImports"}
    BY <2>1 DEF Qualified
  <2> HIDE DEF T
  <2>3. t = 1 /\ t - 1 = 0 /\ t \in Nat \ {0}
    BY <2>2 DEF T
  <2>4. Used(0) = {}
    BY DEF Used
  <2>5. "IgnoreErrors" \notin E /\ "SearchImportsOnly" \notin E
    <3>1. "IgnoreErrors" \notin T[t] /\ "SearchImportsOnly" \notin T[t]
      BY <2>2, <2>3
    <3> QED BY <3>1, FlagsKept
  <2> QED BY <2>3, <2>4, <2>5 DEF T
<1> QED BY <1>1, <1>2 DEF FirstTries

\* What was used up to a try was used up to the next one.
LEMMA UsedMore ==
    ASSUME NEW t \in Nat \ {0}
    PROVE  /\ Used(t - 1) \subseteq Used(t) /\ Effective(lookup.tries[t]) \in Used(t)
           /\ "SearchLocalsOnly" \notin Effective(lookup.tries[t]) =>
                 Inherited(Effective(lookup.tries[t])) \in Used(t)
<1>1. t \in 1..t /\ \A u \in 1..t-1 : u \in 1..t
  OBVIOUS
<1> QED BY <1>1 DEF Used

\* Two symbols that do not agree are in conflict.
LEMMA ClashConflicts ==
    ASSUME NEW S \in SUBSET Module, NEW R \in SUBSET Module, NEW x,
           R # {}, S # {}, R # S, ~Overloadable(R \cup S, x)
    PROVE  Conflict(S \cup R, x)
<1>1. \E j, k \in S \cup R : j # k
  OBVIOUS
<1>2. S \cup R = R \cup S /\ S \cup R \in SUBSET Module
  OBVIOUS
<1>3. \E l \in S \cup R : decl[l][x] # "function"
  BY <1>2 DEF Overloadable
<1> QED BY <1>1, <1>2, <1>3, ConflictMeans

\* What a try is about stays while nothing is declared or imported.
LEMMA TrySame ==
    ASSUME UNCHANGED <<decl, imports, lookup>>
    PROVE  /\ Try' = Try /\ Asked' = Asked /\ Reached' = Reached
           /\ \A n : Shows(n)' <=> Shows(n)
           /\ \A t : MeantBy(t)' = MeantBy(t) /\ Used(t)' = Used(t)
           /\ \A S, x : Conflict(S, x)' <=> Conflict(S, x)
           /\ FirstTries' <=> FirstTries
<1>1. Try' = Try
  BY DEF Try
<1>2. Asked' = Asked
  BY <1>1 DEF Asked, Inherited, Effective
<1>3. Reached' = Reached
  BY <1>1 DEF Reached, LeadsTo, ClosedUnderImport, Scanned, Skipped, Effective
<1>4. \A n : Shows(n)' <=> Shows(n)
  BY <1>2 DEF Shows, Visible
<1>5. \A t : MeantBy(t)' = MeantBy(t)
  BY MeantSame DEF MeantBy, Effective
<1>6. ASSUME NEW t PROVE Used(t)' = Used(t)
  BY DEF Used, Effective, Inherited
<1>7. \A S, x : Conflict(S, x)' <=> Conflict(S, x)
  BY DEF Conflict, Overloadable
<1>8. FirstTries' <=> FirstTries
  BY DEF FirstTries, Unqualified, Qualified
<1> QED BY <1>1, <1>2, <1>3, <1>4, <1>5, <1>6, <1>7, <1>8

\* A lookup that is going on is at one of its tries.
LEMMA TryTypes ==
    ASSUME TypeInv, lookup.try # 0
    PROVE  /\ lookup.try \in DOMAIN lookup.tries /\ lookup.try \in Nat \ {0}
           /\ DOMAIN lookup.tries = 1..Len(lookup.tries) /\ Len(lookup.tries) \in Nat
           /\ lookup.tries \in Seq(SUBSET Flag)
           /\ lookup.mod \in Module /\ lookup.ident \in Ident /\ lookup.ident # NoIdent
           /\ Try \in SUBSET Flag /\ Effective(Try) \in SUBSET Flag /\ Asked \in SUBSET Flag
<1>1. lookup.tries \in Seq(SUBSET Flag) /\ lookup.try \in 0..Len(lookup.tries)
  BY DEF TypeInv, LookupInv
<1>2. DOMAIN lookup.tries = 1..Len(lookup.tries) /\ Len(lookup.tries) \in Nat
  BY <1>1, LenProperties
<1>3. lookup.try \in 1..Len(lookup.tries) /\ lookup.try \in Nat \ {0}
  BY <1>1, <1>2
<1>4. Try \in SUBSET Flag
  BY <1>1, <1>3, ElementOfSeq DEF Try
<1>5. Effective(Try) \in SUBSET Flag /\ Asked \in SUBSET Flag
  BY <1>4, FlagTypes DEF Asked
<1> QED BY <1>1, <1>2, <1>3, <1>4, <1>5, ModuleAssumption DEF TypeInv, LookupInv

\* What a try may come to is closed under the imports its searches go through.
LEMMA ReachedClosed ==
    ASSUME TypeInv, lookup.try # 0
    PROVE  /\ Reached \in SUBSET Module
           /\ \A i \in DOMAIN imports[lookup.mod] :
                 ~Skipped(imports[lookup.mod][i], Effective(Try))
                   => imports[lookup.mod][i].mod \in Reached
           /\ \A n \in Reached : decl[n][lookup.ident] = "none" =>
                 \A i \in DOMAIN imports[n] :
                    imports[n][i].public => imports[n][i].mod \in Reached
<1>1. Types /\ lookup.mod \in Module
  BY TryTypes DEF TypeInv
<1>2. Scanned(lookup.mod, Effective(Try)) \in SUBSET Module
  BY <1>1, ScannedTypes
<1>3. /\ Reached \in SUBSET Module /\ Scanned(lookup.mod, Effective(Try)) \subseteq Reached
      /\ ClosedUnderImport(Reached, lookup.ident)
  BY <1>1, <1>2, LeadsToClosed DEF Reached
<1> QED BY <1>3 DEF ClosedUnderImport, Scanned

\* An import is skipped by the inner searches unless it is public.
LEMMA AskedSkips ==
    ASSUME NEW entry, entry.public \in BOOLEAN
    PROVE  Skipped(entry, Asked) <=> ~entry.public
  BY FlagsKept DEF Skipped, Asked

\* What an inner search means to find, and may see, the try means to find.
LEMMA MeantReached ==
    ASSUME TypeInv, lookup.try # 0, FromImports(lookup.mod, lookup.ident, Effective(Try)),
           NEW n \in Reached, NEW k \in Meant(n, lookup.ident, Asked),
           Visible({k}, lookup.ident, Asked)
    PROVE  k \in MeantBy(lookup.try)
<1>1. decl[k][lookup.ident] # "none"
  BY MeantDeclared
<1>2. /\ "SearchImportsOnly" \notin Asked /\ "IgnorePrivateImports" \in Asked
      /\ "IgnoreSymbolVisibility" \in Asked <=> "IgnoreSymbolVisibility" \in Effective(Try)
  BY FlagsKept DEF Asked
<1>3. k \in Reached
  <2>1. CASE decl[n][lookup.ident] # "none"
    BY <1>2, <2>1 DEF Meant
  <2>2. CASE decl[n][lookup.ident] = "none"
    <3>1. k \in LeadsTo(Scanned(n, Asked), lookup.ident)
      BY <1>2, <2>2 DEF Meant
    <3>2. Scanned(n, Asked) \subseteq Reached
      BY <1>2, <2>2, ReachedClosed DEF Scanned, Skipped
    <3>3. Reached \in SUBSET Module /\ ClosedUnderImport(Reached, lookup.ident)
      BY ReachedClosed DEF ClosedUnderImport
    <3> QED BY <3>1, <3>2, <3>3 DEF LeadsTo
  <2> QED BY <2>1, <2>2
<1>4. Visible({k}, lookup.ident, Effective(Try))
  BY <1>2 DEF Visible
<1>5. ~("SearchImportsOnly" \notin Effective(Try) /\ decl[lookup.mod][lookup.ident] # "none")
  BY DEF FromImports
<1>6. Effective(lookup.tries[lookup.try]) = Effective(Try)
  BY DEF Try
<1> QED BY <1>1, <1>3, <1>4, <1>5, <1>6 DEF MeantBy, Meant, Reached

\* What the first try with something to find means to find is wanted.
LEMMA WantedNow ==
    ASSUME TypeInv, lookup.try # 0, \A u \in 1..lookup.try-1 : MeantBy(u) = {},
           MeantBy(lookup.try) # {} \/ lookup.try = Len(lookup.tries)
    PROVE  Wanted = MeantBy(lookup.try)
  BY TryTypes, WantedFound DEF FirstWanted

\* Passing imports and looking depend on the declarations and imports only.
LEMMA LookSame ==
    ASSUME UNCHANGED <<decl, imports, lookup>>
    PROVE  /\ \A f : Looked(f)' <=> Looked(f)
           /\ \A f, S : Passed(f, S)' <=> Passed(f, S)
           /\ \A f, first : InTry(f, first)' <=> InTry(f, first)
           /\ \A D, S : Leads(D, S)' <=> Leads(D, S)
<1>1. ASSUME NEW f PROVE Looked(f)' <=> Looked(f)
  BY TrySame DEF Looked
<1>2. ASSUME NEW f, NEW S PROVE Passed(f, S)' <=> Passed(f, S)
  BY DEF Passed, Skipped
<1>3. ASSUME NEW f, NEW first PROVE InTry(f, first)' <=> InTry(f, first)
  BY TrySame DEF InTry, Effective
<1>4. ASSUME NEW D, NEW S PROVE Leads(D, S)' <=> Leads(D, S)
  BY DEF Leads
<1> QED BY <1>1, <1>2, <1>3, <1>4

\* A step of a search leaves behind what is done with, and more.
LEMMA WalkKept ==
    ASSUME UNCHANGED <<decl, imports, lookup>>,
           NEW D \in SUBSET Module, NEW E \in SUBSET Module, Walk(D), D \subseteq E,
           D \cup Stacked \subseteq E \cup Stacked', Leads(E \ D, E \cup Stacked'),
           \A n \in E : Shows(n) /\ (n \in D => n \in Gathered) => n \in Gathered',
           CachedIn(E)', \A k \in 1..Depth' : Passed(stack'[k], E \cup Stacked')
    PROVE  Walk(E)'
<1>1. Leads(D, D \cup Stacked)
  BY DEF Walk
<1>2. Leads(E, E \cup Stacked')
  BY <1>1 DEF Leads
<1>3. Leads(E, E \cup Stacked)'
  BY <1>2 DEF Leads
<1>4. (\A n \in E : Shows(n) => n \in Gathered)'
  <2>1. \A n \in E : Shows(n) => n \in Gathered'
    BY DEF Walk
  <2> QED BY <2>1, TrySame
<1>5. (\A k \in 1..Depth : Passed(stack[k], E \cup Stacked))'
  BY DEF Passed, Skipped
<1> QED BY <1>3, <1>4, <1>5 DEF Walk

\* The searches of a try in progress, and its first one.
LEMMA WalkersTop ==
    ASSUME TypeInv, stack # <<>>, Walkers
    PROVE  /\ Depth \in Nat \ {0} /\ Top = stack[1] /\ Top \in FrameSet
           /\ Top.mod \in Module /\ Top.ident = lookup.ident /\ lookup.try # 0
           /\ InTry(Top, Depth = 1) /\ Looked(Top)
           /\ \A k \in 2..Depth : k \in 1..Depth /\ stack[k].pc = "merge"
           /\ \A k \in 1..Depth : stack[k] \in FrameSet
<1>1. /\ Depth \in Nat \ {0} /\ 1 \in 1..Depth /\ Top = stack[1]
      /\ \A k \in 1..Depth : stack[k] \in FrameSet
      /\ \A k \in 2..Depth : k \in 1..Depth /\ stack[k].pc = "merge"
  BY Frames
<1>2. InTry(stack[1], 1 = Depth) /\ Looked(stack[1])
  BY <1>1 DEF Walkers
<1>3. Top.ident = lookup.ident
  BY <1>1, <1>2 DEF InTry
<1> QED BY <1>1, <1>2, <1>3, TopTypes DEF TypeInv, LookupInv

\* A search that was called by another one returns: its module is done with, or is
\* still being searched further out.
LEMMA PopWalk ==
    ASSUME TypeInv, stack # <<>>, Popped, Depth > 1, UNCHANGED <<decl, imports, lookup>>,
           Walkers, NEW D \in SUBSET Module, NEW E \in SUBSET Module, Walk(D),
           E = D \/ (Top.pc = "leave" /\ E = D \cup {Top.mod}), Top.pc # "merge",
           Top.mod \in E \/ \E k \in 2..Depth : stack[k].mod = Top.mod,
           Top.symbol \subseteq ret', ~Conflict(ret', lookup.ident), CachedIn(E)'
    PROVE  Walkers' /\ Walk(E)' /\ stack' # <<>>
<1>1. /\ Depth \in Nat \ {0} /\ Top = stack[1] /\ Looked(Top) /\ InTry(Top, FALSE)
      /\ \A k \in 2..Depth : k \in 1..Depth /\ stack[k].pc = "merge"
  BY WalkersTop DEF InTry
<1>2. /\ Depth' = Depth - 1 /\ Depth - 1 \in Nat \ {0}
      /\ \A k \in 1..Depth-1 : stack'[k] = stack[k+1] /\ k + 1 \in 2..Depth /\ k + 1 \in 1..Depth
  BY <1>1 DEF Popped
<1>3. \A k \in 2..Depth : k - 1 \in 1..Depth-1 /\ stack'[k-1] = stack[k]
  BY <1>1, <1>2
<1>4. stack' # <<>> /\ Top' = stack'[1] /\ stack'[1].pc = "merge" /\ At("merge")'
  <2>1. stack' # <<>>
    BY <1>2, EmptySeq DEF Depth
  <2>2. stack'[1] = stack[2] /\ 2 \in 2..Depth
    <3>1. 1 \in 1..Depth-1 /\ 1 + 1 = 2
      BY <1>1, <1>2
    <3> QED BY <1>2, <3>1
  <2>3. Top' = stack'[1]
    BY DEF Top
  <2> QED BY <1>1, <2>1, <2>2, <2>3 DEF At
<1>5. D \cup Stacked \subseteq E \cup Stacked'
  <2> SUFFICES ASSUME NEW k \in 1..Depth PROVE stack[k].mod \in E \cup Stacked'
    BY DEF Stacked
  <2>1. \A l \in 2..Depth : stack[l].mod \in Stacked'
    BY <1>2, <1>3 DEF Stacked
  <2>2. CASE k = 1
    BY <1>1, <2>1, <2>2
  <2>3. CASE k # 1
    <3>1. k \in 2..Depth
      BY <1>1, <2>3
    <3> QED BY <2>1, <3>1
  <2> QED BY <2>2, <2>3
<1>6. /\ \A n \in Module : n \in ret' => n \in Gathered'
      /\ Gathered \subseteq Gathered'
  <2>1. \A n \in Module : n \in ret' => n \in Gathered'
    BY <1>4 DEF Gathered
  <2>2. \A n \in Module : \A k \in 2..Depth : n \in stack[k].symbol => n \in Gathered'
    BY <1>2, <1>3 DEF Gathered
  <2>3. \A k \in 1..Depth : k = 1 \/ k \in 2..Depth
    BY <1>1
  <2>4. ~At("merge")
    BY DEF At
  <2>5. ASSUME NEW n \in Gathered PROVE n \in Gathered'
    <3>1. n \in Module /\ \E k \in 1..Depth : n \in stack[k].symbol
      BY <2>4, <2>5 DEF Gathered
    <3> QED BY <1>1, <2>1, <2>2, <2>3, <3>1
  <2> QED BY <2>1, <2>5
<1>7. \A k \in 1..Depth : Passed(stack[k], E \cup Stacked')
  BY <1>5 DEF Passed, Walk
<1>8. \A k \in 1..Depth' : Passed(stack'[k], E \cup Stacked')
  BY <1>2, <1>7
<1>9. Leads(E \ D, E \cup Stacked')
  <2> SUFFICES ASSUME NEW n \in E \ D, decl[n][lookup.ident] = "none",
                      NEW i \in DOMAIN imports[n], imports[n][i].public
               PROVE  imports[n][i].mod \in E \cup Stacked'
    BY DEF Leads
  <2>1. n = Top.mod /\ Top.pc = "leave" /\ n \in Module
    OBVIOUS
  <2>2. Top.ident = lookup.ident /\ Top.flags = Asked
    BY <1>1 DEF InTry
  <2>3. Top.i > Len(imports[n])
    BY <1>1, <2>1, <2>2 DEF Looked
  <2>4. DOMAIN imports[n] = 1..Len(imports[n]) /\ Len(imports[n]) \in Nat
    BY <2>1, ImportTypes DEF TypeInv
  <2>5. Top.i \in Nat
    BY <1>1, WalkersTop DEF FrameSet
  <2>6. i < Top.i
    BY <2>3, <2>4, <2>5
  <2>7. ~Skipped(imports[n][i], Top.flags)
    BY <2>2, FlagsKept DEF Skipped, Asked
  <2>8. Passed(Top, E \cup Stacked')
    <3>1. 1 \in 1..Depth
      BY <1>1
    <3> QED BY <1>1, <1>7, <3>1
  <2> QED BY <2>1, <2>6, <2>7, <2>8 DEF Passed
<1>10. \A n \in E : Shows(n) /\ (n \in D => n \in Gathered) => n \in Gathered'
  <2> SUFFICES ASSUME NEW n \in E, Shows(n), n \notin D PROVE n \in Gathered'
    BY <1>6
  <2>1. n = Top.mod /\ Top.pc = "leave"
    OBVIOUS
  <2>2. Top.ident = lookup.ident
    BY <1>1 DEF InTry
  <2>3. n \in Top.symbol
    BY <1>1, <2>1, <2>2 DEF Looked, Shows
  <2> QED BY <1>6, <2>3
<1>11. Walk(E)'
  <2>1. D \subseteq E
    OBVIOUS
  <2> QED BY <1>5, <1>8, <1>9, <1>10, <2>1, WalkKept
<1>12. Walkers'
  <2>1. ASSUME NEW k \in 1..Depth-1
        PROVE  (InTry(stack[k], k = Depth) /\ Looked(stack[k]))'
    <3>1. InTry(stack[k+1], k + 1 = Depth) /\ Looked(stack[k+1])
      BY <1>2 DEF Walkers
    <3>2. k = Depth' <=> k + 1 = Depth
      BY <1>1, <1>2
    <3>3. InTry(stack'[k], k = Depth') /\ Looked(stack'[k])
      BY <1>2, <3>1, <3>2
    <3> QED BY <3>3, LookSame
  <2>2. Depth' \in 1..Depth-1 /\ Searching(Depth)'
    <3>1. Depth' \in 1..Depth-1 /\ stack'[Depth-1] = stack[Depth] /\ Depth \in 2..Depth
      BY <1>1, <1>2, <1>3
    <3> QED BY <1>1, <1>2, <3>1 DEF Searching
  <2>3. (~Conflict(ret, lookup.ident))'
    BY TrySame
  <2>4. "SearchLocalsOnly" \notin Effective(Try)
    BY DEF Walkers
  <2>5. Effective(Try)' = Effective(Try)
    BY TrySame DEF Effective
  <2> QED BY <1>2, <2>1, <2>2, <2>3, <2>4, <2>5 DEF Walkers
<1> QED BY <1>4, <1>11, <1>12

\* A search goes on, and keeps what was handed to it if the try is for it.
LEMMA GoOnWalk ==
    ASSUME TypeInv, stack # <<>>, UNCHANGED <<decl, imports, lookup, cache>>,
           NEW f, WentOn(f), Walkers, NEW D \in SUBSET Module, Walk(D),
           f.pc \in {"scan", "leave"}, f.mod = Top.mod, InTry(f, Depth = 1), Looked(f),
           Passed(f, D \cup Stacked), Top.symbol \subseteq f.symbol,
           At("merge") => \A n \in ret : Shows(n) => n \in f.symbol
    PROVE  Walkers' /\ Walk(D)' /\ stack' # <<>>
<1>1. /\ Depth \in Nat \ {0} /\ Depth' = Depth /\ Top = stack[1] /\ stack'[1] = f
      /\ \A k \in 2..Depth : stack'[k] = stack[k] /\ k \in 1..Depth /\ stack[k].pc = "merge"
      /\ \A k \in 1..Depth : k = 1 \/ k \in 2..Depth
      /\ 1 \in 1..Depth
  BY WalkersTop DEF WentOn
<1>2. stack' # <<>> /\ ~At("merge")'
  <2>1. stack' # <<>>
    BY <1>1, EmptySeq DEF Depth
  <2>2. Top' = f
    BY <1>1 DEF Top
  <2> QED BY <2>1, <2>2 DEF At
<1>3. Stacked' = Stacked
  <2>1. \A k \in 1..Depth : stack'[k].mod = stack[k].mod
    BY <1>1
  <2> QED BY <1>1, <2>1 DEF Stacked
<1>4. ASSUME NEW n \in D, Shows(n), n \in Gathered PROVE n \in Gathered'
  <2>1. CASE \E k \in 1..Depth : n \in stack[k].symbol
    <3>1. \E k \in 1..Depth : n \in stack'[k].symbol
      BY <1>1, <2>1
    <3> QED BY <1>1, <3>1 DEF Gathered
  <2>2. CASE At("merge") /\ n \in ret
    <3>1. n \in stack'[1].symbol
      BY <1>1, <1>4, <2>2
    <3> QED BY <1>1, <3>1 DEF Gathered
  <2> QED BY <1>4, <2>1, <2>2 DEF Gathered
<1>5. Walk(D)'
  <2>1. CachedIn(D)'
    <3>1. CachedIn(D)
      BY DEF Walk
    <3> QED BY <3>1, TrySame DEF CachedIn
  <2>2. \A k \in 1..Depth : Passed(stack'[k], D \cup Stacked)
    BY <1>1 DEF Walk
  <2>3. D \subseteq D /\ Leads(D \ D, D \cup Stacked')
    BY DEF Leads
  <2> QED BY <1>1, <1>3, <1>4, <2>1, <2>2, <2>3, WalkKept
<1>6. Walkers'
  <2>1. ASSUME NEW k \in 1..Depth
        PROVE  (InTry(stack[k], k = Depth) /\ Looked(stack[k]))'
    <3>1. InTry(stack[k], k = Depth) /\ Looked(stack[k])
      BY DEF Walkers
    <3>2. InTry(stack'[k], k = Depth') /\ Looked(stack'[k])
      <4>1. k = 1 \/ k \in 2..Depth
        BY <1>1
      <4>2. CASE k = 1
        <5>1. (Depth = 1) <=> (k = Depth')
          BY <1>1, <4>2
        <5> QED BY <1>1, <4>2, <5>1 DEF InTry
      <4>3. CASE k \in 2..Depth
        BY <1>1, <3>1, <4>3
      <4> QED BY <4>1, <4>2, <4>3
    <3> QED BY <3>2, LookSame
  <2>2. Searching(Depth)'
    <3>1. Depth = 1 \/ Depth \in 2..Depth
      BY <1>1
    <3>2. stack'[Depth].pc # "enter"
      BY <1>1, <3>1
    <3> QED BY <1>1, <3>2 DEF Searching
  <2>3. (Depth > 1 => "SearchLocalsOnly" \notin Effective(Try))'
    BY <1>1, TrySame DEF Walkers, Effective
  <2> QED BY <1>1, <1>2, <2>1, <2>2, <2>3 DEF Walkers
<1> QED BY <1>2, <1>5, <1>6

\* A search calls another one: that is of a module the try may come to.
LEMMA CallWalk ==
    ASSUME TypeInv, stack # <<>>, UNCHANGED <<decl, imports, lookup, cache>>,
           NEW f, NEW g, Called(g, f), Walkers, NEW D \in SUBSET Module, Walk(D),
           At("scan"), f.pc = "merge", f.mod = Top.mod, InTry(f, Depth = 1), Looked(f),
           f.symbol = Top.symbol, Passed(f, D \cup Stacked \cup {g.mod}),
           g.pc = "enter", g.i = 1, InTry(g, FALSE), Looked(g),
           "SearchLocalsOnly" \notin Effective(Try)
    PROVE  Walkers' /\ Walk(D)' /\ stack' # <<>>
<1>1. /\ Depth \in Nat \ {0} /\ Depth' = Depth + 1 /\ Top = stack[1]
      /\ stack'[1] = g /\ stack'[2] = f
      /\ \A k \in 2..Depth : stack'[k+1] = stack[k] /\ k \in 1..Depth /\ stack[k].pc = "merge"
      /\ \A k \in 1..Depth : k = 1 \/ k \in 2..Depth
      /\ \A k \in 1..Depth : k + 1 \in 1..Depth+1
      /\ 1 \in 1..Depth /\ 1 \in 1..Depth+1 /\ 2 \in 1..Depth+1
  BY WalkersTop DEF Called
<1>2. ASSUME NEW k \in 3..Depth+1
      PROVE  k - 1 \in 2..Depth /\ k - 1 \in 1..Depth /\ stack'[k] = stack[k-1]
             /\ (k = Depth + 1 <=> k - 1 = Depth)
  <2>1. k - 1 \in 2..Depth /\ k - 1 \in 1..Depth /\ (k - 1) + 1 = k
    BY <1>1
  <2> QED BY <1>1, <2>1
<1>3. \A k \in 1..Depth+1 : k = 1 \/ k = 2 \/ k \in 3..Depth+1
  BY <1>1
<1>4. stack' # <<>> /\ ~At("merge")'
  <2>1. stack' # <<>>
    BY <1>1, EmptySeq DEF Depth
  <2>2. Top' = g
    BY <1>1 DEF Top
  <2> QED BY <2>1, <2>2 DEF At
<1>5. Stacked \subseteq Stacked' /\ g.mod \in Stacked'
  <2>1. g.mod \in Stacked' /\ f.mod \in Stacked'
    BY <1>1 DEF Stacked
  <2>2. ASSUME NEW k \in 2..Depth PROVE stack[k].mod \in Stacked'
    <3>1. k + 1 \in 1..Depth' /\ stack'[k+1] = stack[k]
      BY <1>1
    <3> QED BY <3>1 DEF Stacked
  <2>3. \A k \in 1..Depth : stack[k].mod \in Stacked'
    BY <1>1, <2>1, <2>2
  <2> QED BY <2>1, <2>3 DEF Stacked
<1>6. ASSUME NEW n \in D, Shows(n), n \in Gathered PROVE n \in Gathered'
  <2>1. ~At("merge")
    BY DEF At
  <2>2. PICK k \in 1..Depth : n \in stack[k].symbol
    BY <1>6, <2>1 DEF Gathered
  <2>3. \E l \in 1..Depth+1 : n \in stack'[l].symbol
    <3>1. CASE k = 1
      BY <1>1, <2>2, <3>1
    <3>2. CASE k \in 2..Depth
      <4>1. k + 1 \in 1..Depth+1 /\ stack'[k+1] = stack[k]
        BY <1>1, <3>2
      <4> QED BY <2>2, <4>1
    <3> QED BY <1>1, <3>1, <3>2
  <2> QED BY <1>1, <2>3 DEF Gathered
<1>7. Walk(D)'
  <2>1. CachedIn(D)'
    <3>1. CachedIn(D)
      BY DEF Walk
    <3> QED BY <3>1, TrySame DEF CachedIn
  <2>2. ASSUME NEW k \in 1..Depth+1 PROVE Passed(stack'[k], D \cup Stacked')
    <3>1. CASE k = 1
      <4>1. \A i \in DOMAIN imports[g.mod] : ~(i < g.i)
        <5>1. g.mod \in Module
          BY <1>1 DEF Called, FrameSet
        <5> QED BY <5>1, ImportTypes DEF TypeInv
      <4> QED BY <1>1, <3>1, <4>1 DEF Passed
    <3>2. CASE k = 2
      BY <1>1, <1>5, <3>2 DEF Passed
    <3>3. CASE k \in 3..Depth+1
      <4>1. Passed(stack[k-1], D \cup Stacked) /\ stack'[k] = stack[k-1]
        BY <1>2, <3>3 DEF Walk
      <4> QED BY <1>5, <4>1 DEF Passed
    <3> QED BY <1>3, <3>1, <3>2, <3>3
  <2>3. D \subseteq D /\ Leads(D \ D, D \cup Stacked') /\ D \cup Stacked \subseteq D \cup Stacked'
    BY <1>5 DEF Leads
  <2> QED BY <1>1, <1>6, <2>1, <2>2, <2>3, WalkKept
<1>8. Walkers'
  <2>1. ASSUME NEW k \in 1..Depth+1
        PROVE  (InTry(stack[k], k = Depth) /\ Looked(stack[k]))'
    <3>1. InTry(stack'[k], k = Depth') /\ Looked(stack'[k])
      <4>1. CASE k = 1
        <5>1. ~(k = Depth')
          BY <1>1, <4>1
        <5> QED BY <1>1, <4>1, <5>1 DEF InTry
      <4>2. CASE k = 2
        <5>1. (Depth = 1) <=> (k = Depth')
          BY <1>1, <4>2
        <5> QED BY <1>1, <4>2, <5>1 DEF InTry
      <4>3. CASE k \in 3..Depth+1
        <5>1. InTry(stack[k-1], k - 1 = Depth) /\ Looked(stack[k-1])
          BY <1>2, <4>3 DEF Walkers
        <5>2. stack'[k] = stack[k-1] /\ (k = Depth' <=> k - 1 = Depth)
          BY <1>1, <1>2, <4>3
        <5> QED BY <5>1, <5>2
      <4> QED BY <1>3, <4>1, <4>2, <4>3
    <3> QED BY <3>1, LookSame
  <2>2. Searching(Depth)'
    <3>1. Depth' = 2 \/ Depth' \in 3..Depth+1
      BY <1>1
    <3>2. Depth' = 2 => stack'[Depth'].pc = "merge"
      BY <1>1
    <3>3. Depth' \in 3..Depth+1 => stack'[Depth'].pc = "merge"
      BY <1>1, <1>2
    <3> QED BY <3>1, <3>2, <3>3 DEF Searching
  <2>3. ("SearchLocalsOnly" \notin Effective(Try))'
    BY TrySame DEF Effective
  <2> QED BY <1>1, <1>4, <2>1, <2>2, <2>3 DEF Walkers
<1> QED BY <1>4, <1>7, <1>8

\* A step within a try keeps what came before it.
LEMMA WalkingKept ==
    ASSUME UNCHANGED <<decl, imports, lookup>>, Walking, CachedBy(lookup.try)',
           IF stack' = <<>> THEN ret' = MeantBy(lookup.try) /\ ~Conflict(ret', lookup.ident)
                            ELSE Walkers' /\ \E D \in SUBSET Module : Walk(D)'
    PROVE  Walking'
<1>1. (\A u \in 1..lookup.try - 1 : MeantBy(u) = {})'
  BY TrySame DEF Walking
<1>2. (IF stack = <<>> THEN ret = MeantBy(lookup.try) /\ ~Conflict(ret, lookup.ident)
                       ELSE Walkers /\ \E D \in SUBSET Module : Walk(D))'
  BY TrySame
<1> QED BY <1>1, <1>2 DEF Walking

\* What is cached was searched for by this try or one before, and stays so.
LEMMA CachedKept ==
    ASSUME UNCHANGED <<decl, imports, lookup, cache>>
    PROVE  /\ \A t : CachedBy(t)' <=> CachedBy(t)
           /\ \A D : CachedIn(D)' <=> CachedIn(D)
<1>1. ASSUME NEW t PROVE CachedBy(t)' <=> CachedBy(t)
  BY TrySame DEF CachedBy
<1>2. ASSUME NEW D PROVE CachedIn(D)' <=> CachedIn(D)
  BY TrySame DEF CachedIn
<1> QED BY <1>1, <1>2

\* The searches of a try see alike.
LEMMA VisibleAsked ==
    ASSUME NEW f, NEW first, InTry(f, first), NEW S, NEW x
    PROVE  Visible(S, x, f.flags) <=> Visible(S, x, Asked)
<1>1. "IgnoreSymbolVisibility" \in f.flags <=> "IgnoreSymbolVisibility" \in Asked
  BY FlagsKept DEF InTry, Asked
<1> QED BY <1>1 DEF Visible

\* Whatever the searches go through, the try may come to.
LEMMA ImportReached ==
    ASSUME TypeInv, stack # <<>>, Walkers, Top.pc \in {"scan", "merge"},
           NEW i \in DOMAIN imports[Top.mod], ~Skipped(imports[Top.mod][i], Top.flags)
    PROVE  /\ imports[Top.mod][i].mod \in Reached /\ imports[Top.mod][i].mod \in Module
           /\ Inherited(Top.flags) = Asked /\ "SearchLocalsOnly" \notin Effective(Try)
<1>1. /\ InTry(Top, Depth = 1) /\ Looked(Top) /\ lookup.try # 0 /\ Top.mod \in Module
      /\ Depth \in Nat \ {0} /\ Top.ident = lookup.ident
  BY WalkersTop
<1>2. Reached \in SUBSET Module
  BY <1>1, ReachedClosed
<1>3. CASE Depth = 1
  <2>1. Top.mod = lookup.mod /\ Top.flags = Effective(Try)
    BY <1>1, <1>3 DEF InTry
  <2>2. imports[Top.mod][i].mod \in Reached
    BY <1>1, <2>1, ReachedClosed
  <2> QED BY <1>2, <2>1, <2>2 DEF Asked, Skipped
<1>4. CASE Depth # 1
  <2>1. Top.mod \in Reached /\ Top.flags = Asked
    BY <1>1, <1>4 DEF InTry
  <2>2. decl[Top.mod][lookup.ident] = "none"
    BY <1>1 DEF Looked
  <2>3. imports[Top.mod][i].public
    BY <2>1, FlagsKept DEF Skipped, Asked
  <2>4. imports[Top.mod][i].mod \in Reached
    BY <1>1, <2>1, <2>2, <2>3, ReachedClosed
  <2>5. Inherited(Asked) = Asked
    BY FlagsKept DEF Asked
  <2>6. Depth > 1
    BY <1>1, <1>4
  <2> QED BY <1>2, <2>1, <2>4, <2>5, <2>6 DEF Walkers
<1> QED BY <1>3, <1>4

\* A try of the imports only comes after one that found nothing in the module itself.
LEMMA ImportsOnly ==
    ASSUME TypeInv, FirstTries, Walking, lookup.try # 0, "SearchImportsOnly" \in Effective(Try)
    PROVE  decl[lookup.mod][lookup.ident] = "none"
<1>1. lookup.try \in DOMAIN lookup.tries /\ lookup.try \in Nat \ {0}
  BY TryTypes
<1>2. /\ lookup.try - 1 \in DOMAIN lookup.tries /\ lookup.try - 1 >= 1
      /\ "SearchImportsOnly" \notin Effective(lookup.tries[lookup.try - 1])
  BY <1>1, TryFlags DEF Try
<1>3. lookup.try - 1 \in 1..lookup.try - 1
  BY <1>1, <1>2
<1>4. MeantBy(lookup.try - 1) = {}
  BY <1>3 DEF Walking
<1> QED BY <1>2, <1>4 DEF MeantBy, Meant

\* What a step of a search does to a first lookup.
StepWalks == errors' \in Nat /\ errors <= errors' /\ (Walking' \/ Excused')

\* A search that finds its module being searched leaves it to that search; one that
\* finds its module cached leaves it to what was gathered.
LEMMA AtOnceWalk ==
    ASSUME TypeInv, FirstTries, Walking, SearchAtOnce
    PROVE  StepWalks
<1>1. /\ stack # <<>> /\ Top.pc = "enter" /\ stack' = Tail(stack)
      /\ UNCHANGED <<decl, imports, cache, insearch, errors, lookup>>
      /\ \/ InSearch(Top.mod) /\ ret' = {}
         \/ /\ Cached(Top.mod, Top.ident, Effective(Top.flags))
            /\ ret' = cache[Top.mod].symbol
  BY DEF SearchAtOnce, At
<1>2. Walkers
  BY <1>1 DEF Walking
<1>3. /\ Depth \in Nat \ {0} /\ Top = stack[1] /\ InTry(Top, Depth = 1) /\ Looked(Top)
      /\ Top.mod \in Module /\ Top.ident = lookup.ident /\ lookup.try # 0
  BY <1>1, <1>2, WalkersTop
<1>4. PICK D \in SUBSET Module : Walk(D)
  BY <1>1 DEF Walking
<1>5. Popped
  BY <1>1, PopShape DEF TypeInv, StackInv
<1>6. /\ lookup.try \in DOMAIN lookup.tries /\ lookup.ident # NoIdent
  BY <1>3, TryTypes
<1>7. Top.symbol = {}
  BY <1>1, <1>3 DEF Looked
<1>8. /\ Depth > 1 /\ ~Conflict(ret', lookup.ident)
      /\ Top.mod \in D \/ \E k \in 2..Depth : stack[k].mod = Top.mod
  <2>1. CASE InSearch(Top.mod) /\ ret' = {}
    <3>1. PICK k \in 1..Depth : Searching(k) /\ stack[k].mod = Top.mod
      BY <1>3, <2>1 DEF InSearch, TypeInv, StackInv
    <3>2. k # 1
      BY <1>1, <1>3, <3>1 DEF Searching
    <3>3. k \in 2..Depth /\ Depth > 1
      BY <1>3, <3>2
    <3> QED BY <2>1, <3>1, <3>3, NoConflict
  <2>2. CASE Cached(Top.mod, Top.ident, Effective(Top.flags)) /\ ret' = cache[Top.mod].symbol
    <3>1. /\ cache[Top.mod].ident = lookup.ident
          /\ cache[Top.mod].flags = Effective(Top.flags)
      BY <1>3, <2>2 DEF Cached
    <3>2. Depth # 1
      <4> SUFFICES ASSUME Depth = 1 PROVE FALSE
        OBVIOUS
      <4>1. Top.flags = Try
        BY <1>1, <1>3 DEF InTry
      <4>2. ~Searching(Depth)
        BY <1>1, <1>3 DEF Searching
      <4>3. Effective(Try) \in Used(lookup.try - 1)
        BY <1>2, <1>3, <1>6, <3>1, <4>1, <4>2 DEF Walkers, CachedBy
      <4> QED BY <1>6, <4>3, TryFlags DEF Try
    <3>3. Effective(Top.flags) = Asked
      BY <1>3, <3>2, InheritedEffective DEF InTry, Asked
    <3>4. Top.mod \in D /\ ~Conflict(cache[Top.mod].symbol, lookup.ident)
      BY <1>3, <1>4, <3>1, <3>3 DEF Walk, CachedIn
    <3> QED BY <1>3, <2>2, <3>2, <3>4
  <2> QED BY <1>1, <2>1, <2>2
<1>9. Walkers' /\ Walk(D)' /\ stack' # <<>>
  <2>1. CachedIn(D)'
    BY <1>1, <1>4, CachedKept DEF Walk
  <2> QED BY <1>1, <1>2, <1>4, <1>5, <1>7, <1>8, <2>1, PopWalk
<1>10. CachedBy(lookup.try)'
  BY <1>1, CachedKept DEF Walking
<1> QED BY <1>1, <1>9, <1>10, WalkingKept DEF StepWalks, TypeInv, Types

\* A search that is entered has its module's own symbol, or begins with the imports.
LEMMA EnterWalk ==
    ASSUME TypeInv, FirstTries, Walking, SearchEnter
    PROVE  StepWalks
<1>1. /\ stack # <<>> /\ Top.pc = "enter"
      /\ UNCHANGED <<decl, imports, cache, errors, lookup>>
  BY DEF SearchEnter, At
<1>2. Walkers
  BY <1>1 DEF Walking
<1>3. /\ Depth \in Nat \ {0} /\ Top = stack[1] /\ InTry(Top, Depth = 1) /\ Looked(Top)
      /\ Top.mod \in Module /\ Top.ident = lookup.ident /\ lookup.try # 0
  BY <1>1, <1>2, WalkersTop
<1>4. PICK D \in SUBSET Module : Walk(D)
  BY <1>1 DEF Walking
<1>5. PICK f \in FrameSet :
         /\ WentOn(f) /\ f.mod = Top.mod /\ f.ident = Top.ident
         /\ f.flags = Effective(Top.flags) /\ f.i = Top.i
         /\ LET here == /\ "SearchImportsOnly" \notin f.flags
                        /\ decl[f.mod][f.ident] # "none"
            IN \/ here /\ f.pc = "leave" /\ f.symbol = {f.mod}
               \/ ~here /\ f.pc = "scan" /\ f.symbol = {}
  BY EnterShape
<1>6. Top.symbol = {} /\ f.i = 1 /\ ~At("merge")
  BY <1>1, <1>3, <1>5 DEF Looked, At
<1>7. f.pc \in {"scan", "leave"}
  BY <1>5
<1>8. InTry(f, Depth = 1)
  <2>1. CASE Depth = 1
    BY <1>1, <1>3, <1>5, <1>7, <2>1 DEF InTry
  <2>2. CASE Depth # 1
    BY <1>1, <1>3, <1>5, <1>7, <2>2, InheritedEffective DEF InTry, Asked
  <2> QED BY <2>1, <2>2
<1>9. ASSUME f.pc = "scan" PROVE decl[f.mod][f.ident] = "none"
  <2> SUFFICES ASSUME "SearchImportsOnly" \in f.flags PROVE decl[f.mod][f.ident] = "none"
    BY <1>5, <1>9
  <2>1. "SearchImportsOnly" \notin Asked
    BY FlagsKept DEF Asked
  <2>2. f.mod = lookup.mod /\ f.flags = Effective(Try) /\ f.ident = lookup.ident
    BY <1>7, <1>8, <2>1 DEF InTry
  <2> QED BY <1>3, <2>2, ImportsOnly
<1>10. Looked(f)
  <2>1. ~Conflict(f.symbol, f.ident)
    BY <1>3, <1>5, NoConflict
  <2>2. f.pc = "leave" => decl[f.mod][f.ident] # "none" /\ f.mod \in f.symbol
    BY <1>5
  <2> QED BY <1>7, <1>9, <2>1, <2>2 DEF Looked
<1>11. Passed(f, D \cup Stacked)
  <2>1. \A i \in DOMAIN imports[f.mod] : ~(i < f.i)
    BY <1>3, <1>5, <1>6, ImportTypes DEF TypeInv
  <2> QED BY <2>1 DEF Passed
<1>12. Walkers' /\ Walk(D)' /\ stack' # <<>>
  BY <1>1, <1>2, <1>4, <1>5, <1>6, <1>7, <1>8, <1>10, <1>11, GoOnWalk
<1>13. CachedBy(lookup.try)'
  BY <1>1, CachedKept DEF Walking
<1> QED BY <1>1, <1>12, <1>13, WalkingKept DEF StepWalks, TypeInv, Types

\* An import is skipped, or searched.
LEMMA ImportWalk ==
    ASSUME TypeInv, FirstTries, Walking, SearchImport
    PROVE  StepWalks
<1> DEFINE entry == imports[Top.mod][Top.i]
<1>1. /\ stack # <<>> /\ Top.pc = "scan" /\ Top.i <= Len(imports[Top.mod])
      /\ UNCHANGED <<decl, imports, cache, errors, lookup>>
  BY DEF SearchImport, At
<1>2. Walkers
  BY <1>1 DEF Walking
<1>3. /\ Depth \in Nat \ {0} /\ Top = stack[1] /\ InTry(Top, Depth = 1) /\ Looked(Top)
      /\ Top.mod \in Module /\ Top.ident = lookup.ident /\ lookup.try # 0
      /\ Top.i \in Nat \ {0} /\ Top.flags \in SUBSET Flag
  BY <1>1, <1>2, WalkersTop, TopTypes
<1>4. PICK D \in SUBSET Module : Walk(D)
  BY <1>1 DEF Walking
<1>5. PICK f \in FrameSet :
         /\ f.mod = Top.mod /\ f.ident = Top.ident /\ f.flags = Top.flags
         /\ f.i = Top.i + 1 /\ f.symbol = Top.symbol
         /\ \/ Skipped(entry, Top.flags) /\ f.pc = "scan" /\ WentOn(f)
            \/ /\ ~Skipped(entry, Top.flags) /\ f.pc = "merge"
               /\ Called(Frame(entry.mod, Top.ident, Inherited(Top.flags)), f)
  BY ImportShape
<1>6. f.pc # "enter" /\ f.pc \in {"scan", "merge"}
  BY <1>5
<1>7. InTry(f, Depth = 1)
  BY <1>1, <1>3, <1>5, <1>6 DEF InTry
<1>8. Looked(f)
  BY <1>1, <1>3, <1>5, <1>6 DEF Looked
<1>9. Top.i \in DOMAIN imports[Top.mod] /\ \A i \in DOMAIN imports[Top.mod] : i \in Nat
  BY <1>1, <1>3, ImportTypes DEF TypeInv
<1>10. Passed(Top, D \cup Stacked)
  <2>1. 1 \in 1..Depth
    BY <1>3
  <2> QED BY <1>3, <1>4, <2>1 DEF Walk
<1>11. ASSUME NEW i \in DOMAIN imports[f.mod], i < f.i, ~Skipped(imports[f.mod][i], f.flags)
       PROVE  imports[f.mod][i].mod \in D \cup Stacked \/ i = Top.i
  <2>1. i < Top.i \/ i = Top.i
    BY <1>3, <1>5, <1>9, <1>11
  <2> QED BY <1>5, <1>10, <1>11, <2>1 DEF Passed
<1>12. Walkers' /\ Walk(D)' /\ stack' # <<>>
  <2>1. CASE Skipped(entry, Top.flags)
    <3>1. WentOn(f) /\ f.pc = "scan"
      BY <1>5, <2>1
    <3>2. Passed(f, D \cup Stacked)
      BY <1>5, <1>11, <2>1 DEF Passed
    <3>3. ~At("merge") /\ Top.symbol \subseteq f.symbol /\ f.mod = Top.mod
      BY <1>1, <1>5 DEF At
    <3> HIDE DEF entry
    <3> QED BY <1>1, <1>2, <1>4, <1>7, <1>8, <3>1, <3>2, <3>3, GoOnWalk
  <2>2. CASE ~Skipped(entry, Top.flags)
    <3>1. PICK g : g = Frame(entry.mod, Top.ident, Inherited(Top.flags))
      OBVIOUS
    <3>2. /\ Called(g, f) /\ f.pc = "merge"
          /\ g.pc = "enter" /\ g.i = 1 /\ g.mod = entry.mod /\ g.ident = Top.ident
          /\ g.flags = Inherited(Top.flags) /\ g.symbol = {}
      BY <1>5, <2>2, <3>1 DEF Frame
    <3>3. /\ entry.mod \in Reached /\ Inherited(Top.flags) = Asked
          /\ "SearchLocalsOnly" \notin Effective(Try)
      BY <1>1, <1>2, <1>9, <2>2, ImportReached
    <3>4. InTry(g, FALSE)
      BY <1>3, <3>2, <3>3 DEF InTry
    <3>5. Looked(g)
      BY <3>2, NoConflict DEF Looked
    <3>6. Passed(f, D \cup Stacked \cup {g.mod})
      BY <1>5, <1>11, <3>2 DEF Passed
    <3>7. At("scan") /\ f.mod = Top.mod /\ f.symbol = Top.symbol
      BY <1>1, <1>5 DEF At
    <3> HIDE DEF entry
    <3> QED
      BY <1>1, <1>2, <1>4, <1>7, <1>8, <3>2, <3>3, <3>4, <3>5, <3>6, <3>7, CallWalk
  <2> QED BY <2>1, <2>2
<1>13. CachedBy(lookup.try)'
  BY <1>1, CachedKept DEF Walking
<1> QED BY <1>1, <1>12, <1>13, WalkingKept DEF StepWalks, TypeInv, Types

\* What the search on top has, or may take from its import, the try means to find.
LEMMA TopMeans ==
    ASSUME TypeInv, StackMeant, Walkers, At("merge")
    PROVE  /\ Top.symbol \subseteq MeantBy(lookup.try)
           /\ \A k \in ret : Visible({k}, Top.ident, Top.flags) => k \in MeantBy(lookup.try)
<1>1. stack # <<>> /\ Top.pc = "merge"
  BY DEF At
<1>2. /\ Depth \in Nat \ {0} /\ Top = stack[1] /\ InTry(Top, Depth = 1) /\ Looked(Top)
      /\ Top.mod \in Module /\ Top.ident = lookup.ident /\ lookup.try # 0
      /\ \A k \in 2..Depth : stack[k].pc = "merge"
  BY <1>1, WalkersTop
<1>3. FromImports(lookup.mod, lookup.ident, Effective(Try))
  <2>1. Depth \in 1..Depth /\ (Depth = 1 \/ Depth \in 2..Depth)
    BY <1>2
  <2>2. stack[Depth].pc = "merge"
    BY <1>1, <1>2, <2>1
  <2>3. /\ stack[Depth].mod = lookup.mod /\ stack[Depth].ident = lookup.ident
        /\ stack[Depth].flags = Effective(Try)
    BY <2>1, <2>2 DEF Walkers, InTry
  <2>4. FrameMeant(stack[Depth])
    BY <2>1 DEF StackMeant
  <2> QED BY <2>2, <2>3, <2>4 DEF FrameMeant
<1>4. FrameMeant(Top)
  <2>1. 1 \in 1..Depth
    BY <1>2
  <2> QED BY <1>2, <2>1 DEF StackMeant
<1>5. Top.symbol \subseteq MeantBy(lookup.try)
  <2>1. Top.symbol \subseteq Meant(Top.mod, Top.ident, Top.flags)
    BY <1>1, <1>4 DEF FrameMeant
  <2>2. CASE Depth = 1
    <3>1. Top.mod = lookup.mod /\ Top.flags = Effective(Try)
      BY <1>1, <1>2, <2>2 DEF InTry
    <3> QED BY <1>2, <2>1, <3>1 DEF MeantBy, Try
  <2>3. CASE Depth # 1
    <3>1. Top.mod \in Reached /\ Top.flags = Asked
      BY <1>2, <2>3 DEF InTry
    <3>2. decl[Top.mod][lookup.ident] = "none"
      BY <1>1, <1>2 DEF Looked
    <3>3. ASSUME NEW k \in Top.symbol
          PROVE  k \in Meant(Top.mod, lookup.ident, Asked) /\ Visible({k}, lookup.ident, Asked)
      BY <1>2, <2>1, <3>1, <3>2 DEF Meant
    <3> QED BY <1>2, <1>3, <3>1, <3>3, MeantReached
  <2> QED BY <2>2, <2>3
<1>6. ASSUME NEW k \in ret, Visible({k}, Top.ident, Top.flags) PROVE k \in MeantBy(lookup.try)
  <2>1. Top.i - 1 \in DOMAIN imports[Top.mod] /\ ~Skipped(imports[Top.mod][Top.i - 1], Top.flags)
    BY <1>1, <1>4 DEF FrameMeant
  <2>2. Awaited(Top) \in Reached /\ Inherited(Top.flags) = Asked
    BY <1>1, <2>1, ImportReached DEF Awaited
  <2>3. k \in Meant(Awaited(Top), lookup.ident, Asked)
    BY <1>2, <2>2 DEF StackMeant, Offer
  <2>4. Visible({k}, lookup.ident, Asked)
    BY <1>2, <1>6, VisibleAsked
  <2> QED BY <1>2, <1>3, <2>2, <2>3, <2>4, MeantReached
<1> QED BY <1>5, <1>6

\* What an import gave is taken, unless it is hidden or nothing new; or it clashes,
\* and then a conflict is meant.
LEMMA MergeWalk ==
    ASSUME TypeInv, StackMeant, FirstTries, lookup.errors \in Nat, lookup.errors <= errors,
           Walking, SearchMerge
    PROVE  StepWalks
<1>1. /\ stack # <<>> /\ Top.pc = "merge" /\ At("merge")
      /\ UNCHANGED <<decl, imports, cache, ret, lookup>>
  BY DEF SearchMerge, At
<1>2. Walkers
  BY <1>1 DEF Walking
<1>3. /\ Depth \in Nat \ {0} /\ Top = stack[1] /\ InTry(Top, Depth = 1) /\ Looked(Top)
      /\ Top.mod \in Module /\ Top.ident = lookup.ident /\ lookup.try # 0
      /\ Top.symbol \in SUBSET Module /\ ret \in SUBSET Module /\ errors \in Nat
  BY <1>1, <1>2, WalkersTop, TopTypes DEF TypeInv, Types
<1>4. PICK D \in SUBSET Module : Walk(D)
  BY <1>1 DEF Walking
<1>5. PICK f \in FrameSet :
         /\ WentOn(f) /\ f.mod = Top.mod /\ f.ident = Top.ident /\ f.flags = Top.flags
         /\ f.i = Top.i
         /\ f.pc = IF Brought(Top) /\ ~Agrees(Top) THEN "found" ELSE "scan"
         /\ f.symbol = IF Brought(Top) /\ Agrees(Top) THEN Top.symbol \cup ret ELSE Top.symbol
  BY MergeShape
<1>6. /\ errors' = errors + IF /\ Brought(Top) /\ ~Agrees(Top)
                              /\ "IgnoreErrors" \notin Top.flags THEN 1 ELSE 0
      /\ errors' \in Nat /\ errors <= errors'
  <2>1. errors' = errors + IF /\ Brought(Top) /\ ~Agrees(Top)
                              /\ "IgnoreErrors" \notin Top.flags THEN 1 ELSE 0
    BY DEF SearchMerge, Brought, Agrees
  <2> QED BY <1>3, <2>1
<1>7. CASE Brought(Top) /\ ~Agrees(Top)
  <2>1. /\ ret # {} /\ Visible(ret, Top.ident, Top.flags) /\ ret # Top.symbol
        /\ Top.symbol # {} /\ ~Overloadable(ret \cup Top.symbol, Top.ident)
    BY <1>7 DEF Brought, Agrees
  <2>2. Top.symbol \cup ret \subseteq MeantBy(lookup.try)
    <3>1. \A k \in ret : Visible({k}, Top.ident, Top.flags)
      BY <2>1, VisibleEach
    <3> QED BY <1>1, <1>2, <3>1, TopMeans
  <2>3. Conflict(Top.symbol \cup ret, lookup.ident)
    BY <1>3, <2>1, ClashConflicts
  <2>4. Conflict(MeantBy(lookup.try), lookup.ident) /\ MeantBy(lookup.try) # {}
    <3>1. MeantBy(lookup.try) \in SUBSET Module
      BY <1>3, TryTypes, MeantModules DEF MeantBy
    <3> QED BY <1>3, <2>1, <2>2, <2>3, <3>1, ConflictGrows
  <2>5. Wanted = MeantBy(lookup.try)
    BY <1>3, <2>4, WantedNow DEF Walking
  <2>6. Conflict(Wanted, lookup.ident)'
    <3>1. Wanted' = Wanted
      BY <1>1, WantedSame DEF SearchMerge
    <3> QED BY <1>1, <2>4, <2>5, <3>1, TrySame
  <2>7. "IgnoreErrors" \notin Top.flags
    <3>1. lookup.try \in DOMAIN lookup.tries
      BY <1>3, TryTypes
    <3>2. "IgnoreErrors" \notin Effective(Try)
      BY <3>1, TryFlags DEF Try
    <3> QED BY <1>1, <1>3, <3>2, FlagsKept DEF InTry, Asked
  <2>8. errors' > lookup.errors
    BY <1>3, <1>6, <1>7, <2>7
  <2> QED BY <1>1, <1>6, <2>6, <2>8 DEF StepWalks, Excused
<1>8. CASE ~(Brought(Top) /\ ~Agrees(Top))
  <2>1. f.pc = "scan" /\ f.pc \in {"scan", "leave"}
    BY <1>5, <1>8
  <2>2. InTry(f, Depth = 1)
    BY <1>1, <1>3, <1>5, <2>1 DEF InTry
  <2>3. ~Conflict(f.symbol, f.ident)
    <3>1. ~Conflict(Top.symbol, lookup.ident) /\ ~Conflict(ret, lookup.ident)
      BY <1>1, <1>2, <1>3 DEF Looked, Walkers
    <3>2. CASE Brought(Top) /\ Agrees(Top)
      <4>1. f.symbol = Top.symbol \cup ret
        BY <1>5, <3>2
      <4>2. CASE Top.symbol = {}
        BY <1>3, <1>5, <3>1, <4>1, <4>2
      <4>3. CASE Overloadable(ret \cup Top.symbol, lookup.ident)
        <5>1. f.symbol = ret \cup Top.symbol
          BY <4>1
        <5> QED BY <1>3, <1>5, <4>3, <5>1 DEF Conflict
      <4> QED BY <1>3, <3>2, <4>2, <4>3 DEF Agrees
    <3>3. CASE ~(Brought(Top) /\ Agrees(Top))
      BY <1>3, <1>5, <3>1, <3>3
    <3> QED BY <3>2, <3>3
  <2>4. Looked(f)
    BY <1>1, <1>3, <1>5, <2>1, <2>3 DEF Looked
  <2>5. Passed(f, D \cup Stacked)
    <3>1. 1 \in 1..Depth
      BY <1>3
    <3>2. Passed(Top, D \cup Stacked)
      BY <1>3, <1>4, <3>1 DEF Walk
    <3> QED BY <1>5, <3>2 DEF Passed
  <2>6. ASSUME NEW n \in ret, Shows(n) PROVE n \in f.symbol
    <3>1. CASE Brought(Top)
      BY <1>5, <1>8, <3>1
    <3>2. CASE ret = Top.symbol
      BY <1>5, <3>2
    <3>3. CASE ~Visible(ret, Top.ident, Top.flags)
      <4>1. ret \subseteq Meant(Awaited(Top), Top.ident, Inherited(Top.flags))
        BY <1>1 DEF StackMeant, Offer
      <4>2. ~ \A k \in ret : Visible({k}, Top.ident, Top.flags)
        BY <3>3 DEF Visible
      <4>3. /\ Meant(Awaited(Top), Top.ident, Inherited(Top.flags)) = {Awaited(Top)}
            /\ ~Visible({Awaited(Top)}, Top.ident, Top.flags)
        BY <4>1, <4>2, OfferVisible
      <4>4. n = Awaited(Top)
        BY <4>1, <4>3
      <4>5. ~Visible({n}, lookup.ident, Asked)
        BY <1>3, <4>3, <4>4, VisibleAsked
      <4> QED BY <2>6, <4>5 DEF Shows
    <3> QED BY <2>6, <3>1, <3>2, <3>3 DEF Brought
  <2>7. Top.symbol \subseteq f.symbol /\ f.mod = Top.mod
    BY <1>5
  <2>8. Walkers' /\ Walk(D)' /\ stack' # <<>>
    BY <1>1, <1>2, <1>4, <1>5, <2>1, <2>2, <2>4, <2>5, <2>6, <2>7, GoOnWalk
  <2>9. CachedBy(lookup.try)'
    BY <1>1, CachedKept DEF Walking
  <2> QED BY <1>1, <1>6, <2>8, <2>9, WalkingKept DEF StepWalks
<1> QED BY <1>7, <1>8

\* All imports were passed.
LEMMA FoundWalk ==
    ASSUME TypeInv, FirstTries, Walking, SearchFound
    PROVE  StepWalks
<1>1. /\ stack # <<>>
      /\ Top.pc = "found" \/ (Top.pc = "scan" /\ Top.i > Len(imports[Top.mod]))
      /\ UNCHANGED <<decl, imports, cache, lookup>>
  BY DEF SearchFound, At
<1>2. Walkers
  BY <1>1 DEF Walking
<1>3. /\ Depth \in Nat \ {0} /\ Top = stack[1] /\ InTry(Top, Depth = 1) /\ Looked(Top)
      /\ errors \in Nat
  BY <1>1, <1>2, WalkersTop DEF TypeInv, Types
<1>4. PICK D \in SUBSET Module : Walk(D)
  BY <1>1 DEF Walking
<1>5. PICK f \in FrameSet :
         /\ WentOn(f) /\ f.mod = Top.mod /\ f.ident = Top.ident /\ f.flags = Top.flags
         /\ f.pc = "leave" /\ f.symbol = Top.symbol /\ f.i = Top.i
  BY FoundShape
<1>6. Top.pc = "scan" /\ Top.i > Len(imports[Top.mod]) /\ ~At("merge")
  BY <1>1, <1>3 DEF Looked, At
<1>7. errors' \in Nat /\ errors <= errors'
  BY <1>3 DEF SearchFound
<1>8. InTry(f, Depth = 1)
  BY <1>3, <1>5, <1>6 DEF InTry
<1>9. Looked(f)
  BY <1>3, <1>5, <1>6 DEF Looked
<1>10. Passed(f, D \cup Stacked)
  <2>1. 1 \in 1..Depth
    BY <1>3
  <2>2. Passed(Top, D \cup Stacked)
    BY <1>3, <1>4, <2>1 DEF Walk
  <2> QED BY <1>5, <2>2 DEF Passed
<1>11. f.pc \in {"scan", "leave"} /\ Top.symbol \subseteq f.symbol /\ f.mod = Top.mod
  BY <1>5
<1>12. Walkers' /\ Walk(D)' /\ stack' # <<>>
  BY <1>1, <1>2, <1>4, <1>5, <1>6, <1>8, <1>9, <1>10, <1>11, GoOnWalk
<1>13. CachedBy(lookup.try)'
  BY <1>1, CachedKept DEF Walking
<1> QED BY <1>1, <1>7, <1>12, <1>13, WalkingKept DEF StepWalks

\* The last search of a try returns: all it could come to is done with.
LEMMA AllReached ==
    ASSUME TypeInv, StackMeant, FirstTries, Walking, At("leave"), Depth = 1
    PROVE  Top.symbol = MeantBy(lookup.try)
<1>1. stack # <<>> /\ Top.pc = "leave"
  BY DEF At
<1>2. Walkers
  BY <1>1 DEF Walking
<1>3. /\ Depth \in Nat \ {0} /\ Top = stack[1] /\ InTry(Top, TRUE) /\ Looked(Top)
      /\ Top.mod \in Module /\ Top.ident = lookup.ident /\ lookup.try # 0
      /\ 1 \in 1..Depth /\ Top.i \in Nat
  BY <1>1, <1>2, WalkersTop DEF FrameSet, InTry
<1>4. /\ Top.mod = lookup.mod /\ Top.flags = Effective(Try)
      /\ Effective(lookup.tries[lookup.try]) = Effective(Try)
  BY <1>1, <1>3 DEF InTry, Try
<1>5. Top.symbol \subseteq Meant(Top.mod, Top.ident, Top.flags)
  BY <1>1, <1>3 DEF StackMeant, FrameMeant
<1>6. Meant(Top.mod, Top.ident, Top.flags) = MeantBy(lookup.try)
  BY <1>3, <1>4 DEF MeantBy
<1>7. PICK D \in SUBSET Module : Walk(D)
  BY <1>1 DEF Walking
<1>8. CASE decl[Top.mod][Top.ident] # "none" /\ "SearchImportsOnly" \notin Top.flags
  <2>1. Top.mod \in Top.symbol
    BY <1>1, <1>3, <1>8 DEF Looked
  <2>2. Meant(Top.mod, Top.ident, Top.flags) = {Top.mod}
    BY <1>8 DEF Meant
  <2> QED BY <1>5, <1>6, <2>1, <2>2
<1>9. CASE decl[Top.mod][Top.ident] = "none"
  <2> SUFFICES ASSUME NEW k \in Meant(Top.mod, Top.ident, Top.flags) PROVE k \in Top.symbol
    BY <1>5, <1>6
  <2>1. Top.i > Len(imports[Top.mod])
    BY <1>1, <1>3, <1>9 DEF Looked
  <2>2. /\ Len(imports[Top.mod]) \in Nat /\ DOMAIN imports[Top.mod] = 1..Len(imports[Top.mod])
    BY <1>3, ImportTypes DEF TypeInv
  <2>3. Stacked = {Top.mod}
    <3>1. \A l \in 1..Depth : l = 1
      BY <1>3
    <3> QED BY <1>3, <3>1 DEF Stacked
  <2>4. ASSUME NEW i \in DOMAIN imports[Top.mod], ~Skipped(imports[Top.mod][i], Top.flags)
        PROVE  imports[Top.mod][i].mod \in D \cup {Top.mod}
    <3>1. i < Top.i
      BY <1>3, <2>1, <2>2
    <3>2. Passed(Top, D \cup Stacked)
      BY <1>3, <1>7 DEF Walk
    <3> QED BY <2>3, <2>4, <3>1, <3>2 DEF Passed
  <2>5. PICK R \in SUBSET Module :
           R \subseteq D \cup {Top.mod} /\ Scanned(Top.mod, Top.flags) \subseteq R
           /\ ClosedUnderImport(R, Top.ident)
    <3>1. CASE "SearchLocalsOnly" \in Top.flags
      <4>1. Scanned(Top.mod, Top.flags) = {}
        BY <3>1 DEF Scanned, Skipped
      <4>2. ClosedUnderImport({}, Top.ident)
        BY DEF ClosedUnderImport
      <4> QED BY <4>1, <4>2
    <3>2. CASE "SearchLocalsOnly" \notin Top.flags
      <4>1. Scanned(Top.mod, Top.flags) \subseteq D \cup {Top.mod}
        BY <2>4 DEF Scanned
      <4>2. Leads(D, D \cup {Top.mod})
        BY <1>7, <2>3 DEF Walk
      <4>3. \A i \in DOMAIN imports[Top.mod] :
               imports[Top.mod][i].public => imports[Top.mod][i].mod \in D \cup {Top.mod}
        BY <2>4, <3>2 DEF Skipped
      <4>4. ClosedUnderImport(D \cup {Top.mod}, Top.ident)
        BY <1>3, <4>2, <4>3 DEF Leads, ClosedUnderImport
      <4>5. D \cup {Top.mod} \in SUBSET Module
        BY <1>3
      <4> QED BY <4>1, <4>4, <4>5
    <3> QED BY <3>1, <3>2
  <2>6. /\ k \in LeadsTo(Scanned(Top.mod, Top.flags), Top.ident)
        /\ decl[k][Top.ident] # "none" /\ Visible({k}, Top.ident, Top.flags)
    BY <1>9 DEF Meant
  <2>7. k \in D
    <3>1. k \in R
      BY <2>5, <2>6 DEF LeadsTo
    <3> QED BY <1>9, <2>5, <2>6, <3>1
  <2>8. Shows(k)
    BY <1>3, <2>6, VisibleAsked DEF Shows
  <2>9. k \in Gathered
    BY <1>7, <2>7, <2>8 DEF Walk
  <2>10. ~At("merge") /\ \A l \in 1..Depth : l = 1
    BY <1>1, <1>3 DEF At
  <2> QED BY <1>3, <2>9, <2>10 DEF Gathered
<1>10. CASE "SearchImportsOnly" \in Top.flags /\ decl[Top.mod][Top.ident] # "none"
  BY <1>3, <1>4, <1>10, ImportsOnly
<1> QED BY <1>8, <1>9, <1>10

\* A search returns: its module is done with, or the try is.
LEMMA LeaveWalk ==
    ASSUME TypeInv, StackMeant, FirstTries, Walking, SearchLeave
    PROVE  StepWalks
<1>1. /\ stack # <<>> /\ Top.pc = "leave" /\ At("leave")
      /\ stack' = Tail(stack) /\ ret' = Top.symbol
      /\ UNCHANGED <<decl, imports, errors, lookup>>
  BY DEF SearchLeave, At, Cache
<1>2. Walkers
  BY <1>1 DEF Walking
<1>3. /\ Depth \in Nat \ {0} /\ Top = stack[1] /\ InTry(Top, Depth = 1) /\ Looked(Top)
      /\ Top.mod \in Module /\ Top.ident = lookup.ident /\ lookup.try # 0
  BY <1>1, <1>2, WalkersTop
<1>4. PICK D \in SUBSET Module : Walk(D)
  BY <1>1 DEF Walking
<1>5. Popped
  BY <1>1, PopShape DEF TypeInv, StackInv
<1>6. \A n \in Module :
         cache'[n] = cache[n] \/ (n = Top.mod /\ cache'[n].flags = Top.flags
                                              /\ cache'[n].symbol = Top.symbol)
  <2>1. cache \in [Module -> [ident : Ident \cup {NoIdent}, flags : SUBSET Flag,
                              symbol : SUBSET Module]]
    BY DEF TypeInv, Types
  <2>2. \/ cache' = cache
        \/ cache' = [cache EXCEPT ![Top.mod] = [ident |-> Top.ident, flags |-> Top.flags,
                                                symbol |-> Top.symbol]]
    BY DEF SearchLeave, Cache
  <2> QED BY <2>1, <2>2
<1>7. ~Conflict(Top.symbol, lookup.ident)
  BY <1>3 DEF Looked
<1>8. Top.flags \in Used(lookup.try)
  <2>1. /\ lookup.try \in Nat \ {0}
        /\ Effective(lookup.tries[lookup.try]) = Effective(Try)
    BY <1>3, TryTypes DEF Try
  <2>2. CASE Depth = 1
    BY <1>1, <1>3, <2>1, <2>2, UsedMore DEF InTry
  <2>3. CASE Depth # 1
    <3>1. Top.flags = Inherited(Effective(Try)) /\ Depth > 1
      BY <1>3, <2>3 DEF InTry, Asked
    <3>2. "SearchLocalsOnly" \notin Effective(Try)
      BY <1>2, <3>1 DEF Walkers
    <3> QED BY <2>1, <3>1, <3>2, UsedMore
  <2> QED BY <2>2, <2>3
<1>9. CachedBy(lookup.try)'
  <2>1. \A n \in Module : cache'[n].ident # NoIdent => cache'[n].flags \in Used(lookup.try)
    BY <1>6, <1>8 DEF Walking, CachedBy
  <2> QED BY <1>1, <2>1, TrySame DEF CachedBy
<1>10. CASE Depth = 1
  <2>1. Depth' = 0 /\ stack' \in Seq(FrameSet)
    BY <1>5, <1>10 DEF Popped
  <2>2. stack' = <<>>
    BY <2>1, EmptySeq DEF Depth
  <2>3. ret' = MeantBy(lookup.try)
    BY <1>1, <1>10, AllReached
  <2> QED BY <1>1, <1>7, <1>9, <2>2, <2>3, WalkingKept DEF StepWalks, TypeInv, Types
<1>11. CASE Depth # 1
  <2>1. PICK E : E = D \cup {Top.mod}
    OBVIOUS
  <2>2. Depth > 1 /\ E \in SUBSET Module /\ Top.mod \in E
    BY <1>3, <1>11, <2>1
  <2>3. CachedIn(E)'
    <3>1. ASSUME NEW n \in Module, cache'[n].ident = lookup.ident, cache'[n].flags = Asked
          PROVE  n \in E /\ ~Conflict(cache'[n].symbol, lookup.ident)
      <4>1. CASE cache'[n] = cache[n]
        BY <1>4, <2>1, <3>1, <4>1 DEF Walk, CachedIn
      <4>2. CASE cache'[n] # cache[n]
        BY <1>6, <1>7, <2>2, <4>2
      <4> QED BY <4>1, <4>2
    <3> QED BY <1>1, <3>1, TrySame DEF CachedIn
  <2>4. Top.symbol \subseteq ret' /\ ~Conflict(ret', lookup.ident) /\ Top.pc # "merge"
    BY <1>1, <1>7
  <2>5. Walkers' /\ Walk(E)' /\ stack' # <<>>
    BY <1>1, <1>2, <1>4, <1>5, <2>1, <2>2, <2>3, <2>4, PopWalk
  <2> QED BY <1>1, <1>9, <2>2, <2>5, WalkingKept DEF StepWalks, TypeInv, Types
<1> QED BY <1>10, <1>11

\* A try begins with nothing done and nothing of use cached.
FreshWalks ==
    TypeInv /\ FirstTries /\ lookup.try # 0 /\ CachedBy(lookup.try - 1)
    /\ (\E g : g = Frame(lookup.mod, lookup.ident, Try) /\ stack = <<g>>)
      => stack # <<>> /\ Walkers /\ Walk({}) /\ CachedBy(lookup.try)

LEMMA FreshWalk == FreshWalks
<1> SUFFICES ASSUME TypeInv, FirstTries, lookup.try # 0, CachedBy(lookup.try - 1),
                    NEW g, g = Frame(lookup.mod, lookup.ident, Try), stack = <<g>>
             PROVE  stack # <<>> /\ Walkers /\ Walk({}) /\ CachedBy(lookup.try)
  BY DEF FreshWalks
<1>1. /\ g.mod = lookup.mod /\ g.ident = lookup.ident /\ g.flags = Try /\ g.pc = "enter"
      /\ g.i = 1 /\ g.symbol = {}
  BY DEF Frame
<1>2. Depth = 1 /\ stack[1] = g /\ stack # <<>> /\ ~At("merge") /\ \A k \in 1..1 : k = 1
  BY <1>1 DEF Depth, At, Top
<1>3. /\ lookup.try \in DOMAIN lookup.tries /\ lookup.try \in Nat \ {0}
      /\ lookup.mod \in Module /\ lookup.ident # NoIdent
  BY TryTypes
<1>4. InTry(g, TRUE)
  BY <1>1 DEF InTry
<1>5. Looked(g)
  BY <1>1, NoConflict DEF Looked
<1>6. Walkers
  BY <1>2, <1>4, <1>5 DEF Walkers, InTry
<1>7. CachedIn({})
  <2>1. Asked \notin Used(lookup.try - 1)
    BY <1>3, TryFlags DEF Asked, Try
  <2> QED BY <1>3, <2>1 DEF CachedIn, CachedBy
<1>8. \A S : Passed(g, S)
  <2>1. \A i \in DOMAIN imports[g.mod] : ~(i < g.i)
    BY <1>1, <1>3, ImportTypes DEF TypeInv
  <2> QED BY <2>1 DEF Passed
<1>9. Walk({})
  BY <1>2, <1>7, <1>8 DEF Walk, Leads
<1>10. CachedBy(lookup.try)
  BY <1>3, UsedMore DEF CachedBy
<1> QED BY <1>2, <1>6, <1>9, <1>10

\* A first lookup begins with empty caches.
LEMMA StartFirst ==
    ASSUME TypeInv', NEW m \in Module, NEW x \in Ident, NEW tries, Start(m, x, tries),
           \A n \in Module : cache'[n].ident = NoIdent, errors \in Nat,
           tries = Unqualified({}) \/ \E k \in Module : tries = Qualified(m, k)
    PROVE  FirstLookup'
<1>1. /\ lookup' = [mod |-> m, ident |-> x, tries |-> tries, try |-> 1, errors |-> errors,
                    changes |-> Len(changed)]
      /\ stack' = <<Frame(m, x, tries[1])>> /\ UNCHANGED errors
  BY DEF Start
<1>2. /\ lookup'.mod = m /\ lookup'.ident = x /\ lookup'.tries = tries /\ lookup'.try = 1
      /\ lookup'.errors = errors
  BY <1>1
<1>3. FirstTries'
  BY <1>2 DEF FirstTries, Unqualified, Qualified
<1>4. \A t : CachedBy(t)'
  BY DEF CachedBy
<1>5. (\E g : g = Frame(lookup.mod, lookup.ident, Try) /\ stack = <<g>>)'
  <2>1. Try' = tries[1]
    BY <1>2 DEF Try
  <2>2. Frame(lookup.mod, lookup.ident, Try)' = Frame(m, x, tries[1])
    BY <1>2, <2>1 DEF Frame
  <2> QED BY <1>1, <2>2
<1>6. (stack # <<>> /\ Walkers /\ Walk({}))'
  <2>1. FreshWalks'
    BY FreshWalk, PTL
  <2>2. (lookup.try # 0 /\ CachedBy(lookup.try - 1))'
    BY <1>2, <1>4
  <2> QED BY <1>3, <1>5, <2>1, <2>2 DEF FreshWalks
<1>7. Walking'
  <2>1. (\A u \in 1..lookup.try - 1 : MeantBy(u) = {})'
    <3>1. lookup'.try - 1 = 0 /\ \A u \in 1..0 : FALSE
      BY <1>2
    <3> QED BY <3>1
  <2>2. CachedBy(lookup.try)'
    BY <1>4
  <2>3. (\E D \in SUBSET Module : Walk(D))'
    BY <1>6
  <2> QED BY <1>6, <2>1, <2>2, <2>3 DEF Walking
<1> QED BY <1>1, <1>2, <1>3, <1>7 DEF FirstLookup

\* Going on to the next try of a lookup, what is wanted stays.
LEMMA WantedLater ==
    ASSUME UNCHANGED <<decl, imports>>, lookup'.mod = lookup.mod,
           lookup'.ident = lookup.ident, lookup'.tries = lookup.tries
    PROVE  /\ Wanted' = Wanted /\ (FirstTries' <=> FirstTries)
           /\ \A t : MeantBy(t)' = MeantBy(t) /\ Used(t)' = Used(t)
           /\ \A S, x : Conflict(S, x)' <=> Conflict(S, x)
<1>1. \A t : MeantBy(t)' = MeantBy(t)
  BY MeantSame DEF MeantBy, Effective
<1>2. Hits' = Hits
  BY <1>1 DEF Hits
<1>3. WantedByTries'
  BY WantedIs, PTL
<1>4. WantedByTries
  BY WantedIs
<1>5. MeantBy(FirstIn(Hits))' = MeantBy(FirstIn(Hits))
  BY <1>1, <1>2
<1>6. Wanted' = Wanted
  BY <1>2, <1>3, <1>4, <1>5 DEF WantedByTries
<1>7. \A t : Used(t)' = Used(t)
  BY DEF Used, Effective, Inherited
<1>8. \A S, x : Conflict(S, x)' <=> Conflict(S, x)
  BY DEF Conflict, Overloadable
<1>9. FirstTries' <=> FirstTries
  BY DEF FirstTries, Unqualified, Qualified
<1> QED BY <1>1, <1>6, <1>7, <1>8, <1>9

\* A try ends: what it found is the answer, or it had nothing to find.
LEMMA NextFirst ==
    ASSUME TypeInv, TypeInv', FirstLookup, LookupNext
    PROVE  FirstLookup'
<1>0. PICK t : t = lookup.try
  OBVIOUS
<1> DEFINE again == ret = {} /\ t + 1 <= Len(lookup.tries)
<1>1. /\ stack = <<>> /\ t # 0
      /\ lookup' = [lookup EXCEPT !.try = IF again THEN t + 1 ELSE 0]
      /\ stack' = IF again THEN <<Frame(lookup.mod, lookup.ident, lookup.tries[t + 1])>> ELSE <<>>
      /\ UNCHANGED <<decl, imports, cache, ret, errors>>
  BY <1>0 DEF LookupNext
<1>2. /\ t \in DOMAIN lookup.tries /\ t \in Nat \ {0} /\ lookup.ident # NoIdent
      /\ DOMAIN lookup.tries = 1..Len(lookup.tries) /\ Len(lookup.tries) \in Nat
  BY <1>0, <1>1, TryTypes
<1>3. /\ lookup'.mod = lookup.mod /\ lookup'.ident = lookup.ident /\ lookup'.tries = lookup.tries
      /\ lookup'.errors = lookup.errors /\ lookup'.try = IF again THEN t + 1 ELSE 0
  <2>1. \A v : /\ [lookup EXCEPT !.try = v].mod = lookup.mod
               /\ [lookup EXCEPT !.try = v].ident = lookup.ident
               /\ [lookup EXCEPT !.try = v].tries = lookup.tries
               /\ [lookup EXCEPT !.try = v].errors = lookup.errors
    OBVIOUS
  <2>2. lookup'.try = IF again THEN t + 1 ELSE 0
    BY <1>1 DEF TypeInv, LookupInv
  <2> HIDE DEF again
  <2> QED BY <1>1, <2>1, <2>2
<1> HIDE DEF again
<1>4. /\ Wanted' = Wanted /\ FirstTries'
      /\ \A u : MeantBy(u)' = MeantBy(u) /\ Used(u)' = Used(u)
      /\ \A S, x : Conflict(S, x)' <=> Conflict(S, x)
  BY <1>1, <1>3, WantedLater DEF FirstLookup
<1>5. (lookup.ident \in Ident /\ lookup.errors \in Nat /\ lookup.errors <= errors)'
  BY <1>1, <1>3 DEF FirstLookup
<1>6. CASE Excused
  <2>1. Excused'
    BY <1>1, <1>3, <1>4, <1>6 DEF Excused
  <2> QED BY <1>4, <1>5, <2>1 DEF FirstLookup
<1>7. CASE Walking
  <2>1. /\ \A u \in 1..t-1 : MeantBy(u) = {}
        /\ CachedBy(t) /\ ret = MeantBy(t) /\ ~Conflict(ret, lookup.ident)
    BY <1>0, <1>1, <1>7 DEF Walking
  <2>2. CASE again
    <3>1. MeantBy(t) = {} /\ t + 1 <= Len(lookup.tries)
      BY <2>1, <2>2 DEF again
    <3>2. lookup'.try = t + 1 /\ lookup'.try - 1 = t /\ lookup'.try # 0
      BY <1>2, <1>3, <2>2
    <3>3. CachedBy(t)'
      BY <1>1, <1>4, <2>1 DEF CachedBy
    <3>4. (\E g : g = Frame(lookup.mod, lookup.ident, Try) /\ stack = <<g>>)'
      <4>1. Try' = lookup.tries[t + 1]
        BY <1>3, <3>2 DEF Try
      <4>2. Frame(lookup.mod, lookup.ident, Try)' = Frame(lookup.mod, lookup.ident, lookup.tries[t + 1])
        BY <1>3, <4>1 DEF Frame
      <4> QED BY <1>1, <2>2, <4>2
    <3>5. (stack # <<>> /\ Walkers /\ Walk({}) /\ CachedBy(lookup.try))'
      <4>1. FreshWalks'
        BY FreshWalk, PTL
      <4>2. CachedBy(lookup.try - 1)'
        BY <3>2, <3>3
      <4> QED BY <1>4, <3>2, <3>4, <4>1, <4>2 DEF FreshWalks
    <3>6. Walking'
      <4>1. \A u \in 1..t : u = t \/ u \in 1..t-1
        BY <1>2
      <4>2. \A u \in 1..t : MeantBy(u) = {}
        BY <2>1, <3>1, <4>1
      <4>3. (\A u \in 1..lookup.try - 1 : MeantBy(u) = {})'
        BY <1>4, <3>2, <4>2
      <4>4. (\E D \in SUBSET Module : Walk(D))'
        BY <3>5
      <4> QED BY <3>5, <4>3, <4>4 DEF Walking
    <3> QED BY <1>4, <1>5, <3>2, <3>6 DEF FirstLookup
  <2>3. CASE ~again
    <3>1. MeantBy(t) # {} \/ t = Len(lookup.tries)
      BY <1>2, <2>1, <2>3 DEF again
    <3>2. Wanted = MeantBy(t)
      BY <1>0, <1>1, <2>1, <3>1, WantedNow
    <3>3. (lookup.try = 0 /\ ret = Wanted /\ ~Conflict(Wanted, lookup.ident))'
      BY <1>1, <1>3, <1>4, <2>1, <2>3, <3>2
    <3> QED BY <1>4, <1>5, <3>3 DEF FirstLookup
  <2> QED BY <2>2, <2>3
<1> QED BY <1>0, <1>1, <1>6, <1>7 DEF FirstLookup

\* A step of a search is a step of the first lookup.
LEMMA SearchingFirst ==
    ASSUME TypeInv, FirstLookup, stack # <<>>, UNCHANGED <<decl, imports, changed, lookup>>,
           errors' \in Nat, errors <= errors', Walking => StepWalks
    PROVE  FirstLookup'
<1>1. lookup.try # 0 /\ errors \in Nat
  BY DEF TypeInv, LookupInv, Types
<1>2. (lookup.ident \in Ident /\ lookup.errors \in Nat /\ lookup.errors <= errors /\ FirstTries)'
  BY <1>1, TrySame DEF FirstLookup
<1>3. CASE Excused
  <2>1. Wanted' = Wanted
    BY WantedSame
  <2>2. Excused'
    BY <1>1, <1>3, <2>1, TrySame DEF Excused, FirstLookup
  <2> QED BY <1>2, <2>2 DEF FirstLookup
<1>4. CASE Walking
  BY <1>1, <1>2, <1>4 DEF FirstLookup, StepWalks
<1> QED BY <1>1, <1>3, <1>4 DEF FirstLookup

\* Every step keeps what is done with, searched and gathered by the first lookup.
LEMMA FirstInvInductive ==
    TypeInv /\ TypeInv' /\ MeantInv /\ FirstInv /\ [Next]_vars => FirstInv'
<1> SUFFICES ASSUME TypeInv, TypeInv', MeantInv, FirstInv, [Next]_vars, changed' = <<>>
             PROVE  /\ lookups' = 0 => NoLookup'
                    /\ lookups' = 1 => FirstLookup'
  BY DEF FirstInv
<1>1. lookups \in Nat /\ errors \in Nat /\ LookupInv /\ changed \in Seq(Module)
  BY DEF TypeInv, Types, LookupInv
<1>2. ASSUME stack # <<>>, UNCHANGED <<decl, imports, changed, lookup, lookups>>,
             errors' \in Nat, errors <= errors',
             StackMeant /\ FirstLookup /\ Walking => StepWalks
      PROVE  /\ lookups' = 0 => NoLookup'
             /\ lookups' = 1 => FirstLookup'
  <2>1. lookups # 0 /\ StackMeant /\ (lookups = 1 => FirstLookup)
    BY <1>2 DEF FirstInv, NoLookup, MeantInv
  <2> QED BY <1>2, <2>1, SearchingFirst
<1>3. CASE SearchAtOnce
  <2>1. stack # <<>> /\ UNCHANGED <<decl, imports, changed, lookup, lookups, errors>>
    BY <1>3 DEF SearchAtOnce, At
  <2> QED BY <1>1, <1>2, <1>3, <2>1, AtOnceWalk DEF FirstLookup
<1>4. CASE SearchEnter
  <2>1. stack # <<>> /\ UNCHANGED <<decl, imports, changed, lookup, lookups, errors>>
    BY <1>4 DEF SearchEnter, At
  <2> QED BY <1>1, <1>2, <1>4, <2>1, EnterWalk DEF FirstLookup
<1>5. CASE SearchImport
  <2>1. stack # <<>> /\ UNCHANGED <<decl, imports, changed, lookup, lookups, errors>>
    BY <1>5 DEF SearchImport, At
  <2> QED BY <1>1, <1>2, <1>5, <2>1, ImportWalk DEF FirstLookup
<1>6. CASE SearchMerge
  <2>1. stack # <<>> /\ UNCHANGED <<decl, imports, changed, lookup, lookups>>
    BY <1>6 DEF SearchMerge, At
  <2>2. errors' \in Nat /\ errors <= errors'
    BY <1>1, <1>6 DEF SearchMerge
  <2> QED BY <1>2, <1>6, <2>1, <2>2, MergeWalk DEF FirstLookup
<1>7. CASE SearchFound
  <2>1. stack # <<>> /\ UNCHANGED <<decl, imports, changed, lookup, lookups>>
    BY <1>7 DEF SearchFound, At
  <2>2. errors' \in Nat /\ errors <= errors'
    BY <1>1, <1>7 DEF SearchFound
  <2> QED BY <1>2, <1>7, <2>1, <2>2, FoundWalk DEF FirstLookup
<1>8. CASE SearchLeave
  <2>1. stack # <<>> /\ UNCHANGED <<decl, imports, changed, lookup, lookups, errors>>
    BY <1>8 DEF SearchLeave, At
  <2> QED BY <1>1, <1>2, <1>8, <2>1, LeaveWalk DEF FirstLookup
<1>9. CASE LookupNext
  <2>1. lookup.try # 0 /\ UNCHANGED <<lookups, changed>>
    BY <1>9 DEF LookupNext
  <2>2. lookups # 0 /\ (lookups = 1 => FirstLookup)
    BY <2>1 DEF FirstInv, NoLookup
  <2> QED BY <1>9, <2>1, <2>2, NextFirst
<1>10. ASSUME NEW m \in Module, NEW x \in bound.idents, NEW tries, Start(m, x, tries),
              NoLookup => /\ tries = Unqualified({}) \/ \E k \in Module : tries = Qualified(m, k)
                          /\ UNCHANGED cache
       PROVE  /\ lookups' = 0 => NoLookup'
              /\ lookups' = 1 => FirstLookup'
  <2>1. lookups' = lookups + 1 /\ UNCHANGED changed
    BY <1>10 DEF Start
  <2>2. lookups' # 0
    BY <1>1, <2>1
  <2>3. CASE lookups' = 1
    <3>1. lookups = 0 /\ NoLookup
      BY <1>1, <2>1, <2>3 DEF FirstInv
    <3>2. \A n \in Module : cache'[n].ident = NoIdent
      BY <1>10, <3>1 DEF NoLookup
    <3>3. x \in Ident
      BY <1>1 DEF LookupInv
    <3> QED BY <1>1, <1>10, <2>2, <3>1, <3>2, <3>3, StartFirst
  <2> QED BY <2>2, <2>3
<1>11. CASE \E m \in Module, x \in bound.idents : LookupUnqualified(m, x)
  BY <1>10, <1>11 DEF LookupUnqualified
<1>12. CASE \E m, k \in Module, x \in bound.idents : LookupQualified(m, k, x)
  BY <1>10, <1>12 DEF LookupQualified
<1>13. CASE \E x \in bound.idents : Suggest(x)
  <2>1. PICK x \in bound.idents : Suggest(x)
    BY <1>13
  <2>2. Start(lookup.mod, x, Unqualified({"IgnoreErrors"})) /\ ~NoLookup
    BY <2>1 DEF Suggest, NoLookup
  <2>3. lookup.mod \in Module
    BY <1>1 DEF LookupInv
  <2> QED BY <1>10, <2>2, <2>3
<1>14. ASSUME NEW m, Change(m) PROVE FALSE
  <2>1. changed' = Append(changed, m)
    BY <1>14 DEF Change
  <2>2. Append(changed, m) # <<>>
    OBVIOUS
  <2> QED BY <2>1, <2>2
<1>15. ~\E m \in Module, x \in bound.idents, kind \in {"variable", "function"} :
           SymtabInsert(m, x, kind)
  BY <1>14 DEF SymtabInsert
<1>16. ~\E m \in Module, new \in Import : ImportMember(m, new) \/ ImportScope(m, new)
  BY <1>14 DEF ImportMember, ImportScope
<1>17. CASE UNCHANGED vars
  <2>1. /\ UNCHANGED <<decl, imports, cache, stack, ret, errors, lookup, lookups, changed>>
    BY <1>17 DEF vars
  <2>2. (lookups' = 0 => NoLookup') /\ (lookups = 1 => FirstLookup)
    BY <2>1 DEF FirstInv, NoLookup
  <2>3. CASE stack # <<>>
    <3>1. StepWalks \/ ~Walking
      <4>1. ASSUME Walking PROVE Walking'
        <5>1. PICK D \in SUBSET Module : Walkers /\ Walk(D)
          BY <2>3, <4>1 DEF Walking
        <5>2. Walk(D)'
          BY <2>1, <5>1, TrySame, CachedKept, LookSame DEF Walk, Stacked, Gathered, Depth, At, Top
        <5>3. Walkers'
          BY <2>1, <5>1, TrySame, CachedKept, LookSame
             DEF Walkers, Depth, At, Top, Searching, Effective
        <5>4. CachedBy(lookup.try)'
          BY <2>1, <4>1, CachedKept DEF Walking
        <5> QED BY <2>1, <2>3, <4>1, <5>2, <5>3, <5>4, WalkingKept
      <4> QED BY <1>1, <2>1, <4>1 DEF StepWalks
    <3> QED BY <1>1, <1>2, <2>1, <2>3, <3>1
  <2>4. CASE stack = <<>>
    <3>1. ASSUME FirstLookup PROVE FirstLookup'
      <4>1. (lookup.ident \in Ident /\ lookup.errors \in Nat /\ lookup.errors <= errors
              /\ FirstTries)'
        BY <2>1, <3>1, TrySame DEF FirstLookup
      <4>2. Wanted' = Wanted
        BY <2>1, WantedSame
      <4>3. CASE Walking
        <5>1. ret' = MeantBy(lookup.try) /\ ~Conflict(ret', lookup.ident) /\ stack' = <<>>
          BY <2>1, <2>4, <4>3 DEF Walking
        <5>2. CachedBy(lookup.try)'
          BY <2>1, <4>3, CachedKept DEF Walking
        <5>3. Walking'
          BY <2>1, <4>3, <5>1, <5>2, WalkingKept
        <5>4. CASE lookup.try # 0
          BY <2>1, <4>1, <5>3, <5>4 DEF FirstLookup
        <5>5. CASE lookup.try = 0
          BY <2>1, <3>1, <4>1, <4>2, <5>5, TrySame DEF FirstLookup, Excused
        <5> QED BY <5>4, <5>5
      <4>4. CASE ~Walking
        BY <2>1, <3>1, <4>1, <4>2, <4>4, TrySame DEF FirstLookup, Excused
      <4> QED BY <4>3, <4>4
    <3> QED BY <2>1, <2>2, <3>1
  <2> QED BY <2>3, <2>4
<1> QED
  BY <1>3, <1>4, <1>5, <1>6, <1>7, <1>8, <1>9, <1>11, <1>12, <1>13, <1>15, <1>16, <1>17
     DEF Next, Search, Finished

\* At the start nothing was looked up.
LEMMA FirstInvInit == Init => FirstInv
<1> SUFFICES ASSUME Init PROVE lookups = 0 /\ NoLookup
  BY DEF FirstInv
<1>1. /\ cache = [m \in Module |-> NoCache] /\ stack = <<>> /\ lookups = 0
      /\ lookup = [mod |-> CHOOSE m \in Module : TRUE, ident |-> NoIdent,
                   tries |-> <<>>, try |-> 0, errors |-> 0, changes |-> 0]
  BY DEF Init
<1>2. \A m \in Module : cache[m].ident = NoIdent
  BY <1>1 DEF NoCache
<1> QED BY <1>1, <1>2 DEF NoLookup

\* A first lookup finds all that is meant, or reports that it is ambiguous, however the
\* modules import each other: what a search leaves out because insearch
\* (dmodule.d:1038) cuts it off, and what it caches without it (dmodule.d:1066), the
\* same lookup finds in the searches that are still in progress.
THEOREM FirstAnswersRight == Spec => []FirstAnswerRight
<1>1. TypeInv /\ FirstInv => FirstAnswerRight
  <2> SUFFICES ASSUME FirstLookup, Idle PROVE AnswerRight
    BY DEF FirstAnswerRight, FirstInv, AnswerRight, Answered
  <2> QED BY DEF FirstLookup, Excused, Idle, AnswerRight
<1> QED
  BY <1>1, TypeInvInit, TypeInvInductive, MeantInvInit, MeantInvInductive, FirstInvInit,
     FirstInvInductive, PTL DEF Spec
=============================================================================
