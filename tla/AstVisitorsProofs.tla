---- MODULE AstVisitorsProofs ----
(***************************************************************************)
(* Proofs about AstVisitors, for every tree, also one that contains        *)
(* itself, and for every client.                                           *)
(***************************************************************************)
EXTENDS AstVisitors, SequenceTheorems, FiniteSetTheorems, TLAPS

Depth == Len(calls)

\* A call has these fields, whatever the classes of the tree and its nodes are.
IsCall(c) == c = [by |-> c.by, node |-> c.node, method |-> c.method,
                  todo |-> c.todo, phase |-> c.phase, opens |-> c.opens]

IsStack(s) == \E S : s \in Seq(S) /\ \A c \in S : IsCall(c)

\* A sequence over a set is one over a larger set.
LEMMA WiderSeq ==
  ASSUME NEW S, NEW T, S \subseteq T, NEW s \in Seq(S)
  PROVE  s \in Seq(T)
<1>1. \A i \in 1..Len(s) : s[i] \in T
  BY ElementOfSeq
<1>2. s = [i \in 1..Len(s) |-> s[i]] /\ Len(s) \in Nat
  OBVIOUS
<1> QED BY <1>1, <1>2

(***************************************************************************)
(* The three ways an action changes the stack: the call on top returns; it *)
(* goes on as f; it goes on as f and makes the call g.                     *)
(***************************************************************************)
Popped ==
  /\ Depth \in Nat \ {0} /\ Depth' = Depth - 1
  /\ \A k \in 1..Depth - 1 : calls'[k] = calls[k]

WentOn(f) ==
  /\ Depth \in Nat \ {0} /\ Depth' = Depth /\ calls'[Depth] = f
  /\ \A k \in 1..Depth - 1 : calls'[k] = calls[k]

Called(f, g) ==
  /\ Depth \in Nat \ {0} /\ Depth' = Depth + 1
  /\ calls'[Depth] = f /\ calls'[Depth + 1] = g
  /\ \A k \in 1..Depth - 1 : calls'[k] = calls[k]

LEMMA TopShape ==
  ASSUME IsStack(calls), calls # <<>>
  PROVE  Depth \in Nat \ {0} /\ Top = calls[Depth] /\ IsCall(Top)
<1>1. PICK S : calls \in Seq(S) /\ \A c \in S : IsCall(c)
  BY DEF IsStack
<1>2. Depth \in Nat \ {0} /\ Depth \in 1..Depth
  BY <1>1, EmptySeq, LenProperties DEF Depth
<1>3. calls[Depth] \in S
  BY <1>1, <1>2, ElementOfSeq DEF Depth
<1> QED BY <1>1, <1>2, <1>3 DEF Top, Depth

LEMMA PopShape ==
  ASSUME IsStack(calls), calls # <<>>, calls' = Front(calls)
  PROVE  IsStack(calls') /\ Popped
<1>1. PICK S : calls \in Seq(S) /\ \A c \in S : IsCall(c)
  BY DEF IsStack
<1>2. Depth \in Nat \ {0} /\ \A k \in 1..Depth - 1 : calls[k] \in S
  BY <1>1, TopShape, ElementOfSeq DEF Depth
<1>3. calls' = SubSeq(calls, 1, Depth - 1)
  BY DEF Front, Depth
<1>4. /\ calls' \in Seq(S) /\ Len(calls') = Depth - 1
      /\ \A k \in 1..Depth - 1 : calls'[k] = calls[k]
  <2>1. /\ SubSeq(calls, 1, Depth - 1) \in Seq(S)
        /\ Len(SubSeq(calls, 1, Depth - 1)) =
             IF 1 <= Depth - 1 THEN (Depth - 1) - 1 + 1 ELSE 0
        /\ \A k \in 1..(Depth - 1) - 1 + 1 :
             SubSeq(calls, 1, Depth - 1)[k] = calls[1 + k - 1]
    BY <1>2, SubSeqProperties
  <2> QED BY <1>2, <1>3, <2>1
<1> QED BY <1>1, <1>2, <1>4 DEF IsStack, Popped, Depth

\* A stack with another call on top.
LEMMA ChangeTop ==
  ASSUME IsStack(calls), calls # <<>>, NEW f, IsCall(f)
  PROVE  /\ IsStack([calls EXCEPT ![Len(calls)] = f])
         /\ Len([calls EXCEPT ![Len(calls)] = f]) = Depth
         /\ [calls EXCEPT ![Len(calls)] = f][Depth] = f
         /\ \A k \in 1..Depth - 1 : [calls EXCEPT ![Len(calls)] = f][k] = calls[k]
<1>1. PICK S : calls \in Seq(S) /\ \A c \in S : IsCall(c)
  BY DEF IsStack
<1> DEFINE T == S \cup {f}
           s == [calls EXCEPT ![Len(calls)] = f]
<1>2. calls \in Seq(T) /\ \A c \in T : IsCall(c)
  BY <1>1, WiderSeq
<1>3. Len(calls) \in Nat \ {0} /\ Len(calls) \in 1..Len(calls) /\ f \in T
  BY TopShape DEF Depth
<1> HIDE DEF T
<1>4. /\ s \in Seq(T) /\ Len(s) = Len(calls)
      /\ \A j \in 1..Len(calls) : s[j] = IF j = Len(calls) THEN f ELSE calls[j]
  BY <1>2, <1>3, ExceptSeq
<1> HIDE DEF s
<1>5. /\ IsStack(s) /\ Len(s) = Depth /\ s[Depth] = f
      /\ \A k \in 1..Depth - 1 : s[k] = calls[k]
  BY <1>2, <1>3, <1>4 DEF IsStack, Depth
<1> QED BY <1>5 DEF s

\* A call on top of a stack.
LEMMA PushOn ==
  ASSUME NEW s, IsStack(s), NEW g, IsCall(g)
  PROVE  /\ IsStack(Append(s, g)) /\ Len(Append(s, g)) = Len(s) + 1
         /\ Append(s, g)[Len(s) + 1] = g
         /\ \A k \in 1..Len(s) : Append(s, g)[k] = s[k]
<1>1. PICK S : s \in Seq(S) /\ \A c \in S : IsCall(c)
  BY DEF IsStack
<1> DEFINE T == S \cup {g}
<1>2. s \in Seq(T) /\ \A c \in T : IsCall(c)
  BY <1>1, WiderSeq
<1>3. g \in T
  OBVIOUS
<1> HIDE DEF T
<1>4. /\ Append(s, g) \in Seq(T) /\ Len(Append(s, g)) = Len(s) + 1
      /\ \A k \in 1..Len(s) : Append(s, g)[k] = s[k]
      /\ Append(s, g)[Len(s) + 1] = g
  BY <1>2, <1>3, AppendProperties
<1> QED BY <1>2, <1>4 DEF IsStack

\* The call c once it has another method, or is in another phase.
Renamed(c, method) == [c EXCEPT !.method = method]
Going(c, phase, todo) == [c EXCEPT !.phase = phase, !.todo = todo]

LEMMA GoingFields ==
  ASSUME NEW c, IsCall(c), NEW phase, NEW todo
  PROVE  /\ IsCall(Going(c, phase, todo))
         /\ Going(c, phase, todo).by = c.by /\ Going(c, phase, todo).node = c.node
         /\ Going(c, phase, todo).method = c.method
         /\ Going(c, phase, todo).phase = phase
         /\ Going(c, phase, todo).opens = c.opens
<1> DEFINE t == [c EXCEPT !.phase = phase]
<1>1. t = [by |-> c.by, node |-> c.node, method |-> c.method, todo |-> c.todo,
           phase |-> phase, opens |-> c.opens]
  BY DEF IsCall
<1>2. Going(c, phase, todo) = [t EXCEPT !.todo = todo]
  BY DEF Going
<1> HIDE DEF t
<1>3. Going(c, phase, todo) =
        [by |-> c.by, node |-> c.node, method |-> c.method, todo |-> todo,
         phase |-> phase, opens |-> c.opens]
  BY <1>1, <1>2
<1> QED BY <1>3 DEF IsCall

LEMMA RenamedFields ==
  ASSUME NEW c, IsCall(c), NEW method
  PROVE  /\ IsCall(Renamed(c, method))
         /\ Renamed(c, method).by = c.by /\ Renamed(c, method).node = c.node
         /\ Renamed(c, method).phase = c.phase
         /\ Renamed(c, method).opens = c.opens
<1>1. Renamed(c, method) =
        [by |-> c.by, node |-> c.node, method |-> method, todo |-> c.todo,
         phase |-> c.phase, opens |-> c.opens]
  BY DEF Renamed, IsCall
<1> QED BY <1>1 DEF IsCall

LEMMA CallFields ==
  ASSUME NEW by, NEW node, NEW opens
  PROVE  /\ IsCall(Call(by, node, opens))
         /\ Call(by, node, opens).by = by /\ Call(by, node, opens).node = node
         /\ Call(by, node, opens).phase = "entered"
         /\ Call(by, node, opens).opens = opens
  BY DEF Call, IsCall

\* What With makes of the stack.
LEMMA WithIs ==
  ASSUME IsStack(calls), calls # <<>>, NEW phase, NEW todo
  PROVE  With(phase, todo) =
           [calls EXCEPT ![Len(calls)] = Going(Top, phase, todo)]
<1>1. PICK S : calls \in Seq(S) /\ \A c \in S : IsCall(c)
  BY DEF IsStack
<1>2. DOMAIN calls = 1..Len(calls) /\ Len(calls) \in 1..Len(calls)
  BY <1>1, TopShape, LenProperties DEF Depth
<1> QED BY <1>2 DEF With, Going, Top

LEMMA WithShape ==
  ASSUME IsStack(calls), calls # <<>>, NEW phase, NEW todo, calls' = With(phase, todo)
  PROVE  IsStack(calls') /\ WentOn(Going(Top, phase, todo))
<1> DEFINE f == Going(Top, phase, todo)
           s == [calls EXCEPT ![Len(calls)] = f]
<1>1. Depth \in Nat \ {0} /\ IsCall(f)
  BY TopShape, GoingFields
<1>2. calls' = s
  BY WithIs
<1> HIDE DEF f
<1>3. IsStack(s) /\ Len(s) = Depth /\ s[Depth] = f /\ \A k \in 1..Depth - 1 : s[k] = calls[k]
  BY <1>1, ChangeTop
<1> HIDE DEF s
<1>4. Depth' = Len(s) /\ IsStack(calls')
  BY <1>2, <1>3 DEF Depth
<1>5. WentOn(f)
  BY <1>1, <1>2, <1>3, <1>4 DEF WentOn
<1> QED BY <1>4, <1>5 DEF f

LEMMA CallShape ==
  ASSUME IsStack(calls), calls # <<>>, NEW phase, NEW todo, NEW g, IsCall(g),
         calls' = Append(With(phase, todo), g)
  PROVE  IsStack(calls') /\ Called(Going(Top, phase, todo), g)
<1> DEFINE f == Going(Top, phase, todo)
           s == [calls EXCEPT ![Len(calls)] = f]
<1>1. Depth \in Nat \ {0} /\ IsCall(f)
  BY TopShape, GoingFields
<1>2. calls' = Append(s, g)
  BY WithIs
<1> HIDE DEF f
<1>3. IsStack(s) /\ Len(s) = Depth /\ s[Depth] = f /\ \A k \in 1..Depth - 1 : s[k] = calls[k]
  BY <1>1, ChangeTop
<1> HIDE DEF s
<1>4. /\ IsStack(calls') /\ Len(calls') = Depth + 1 /\ calls'[Depth + 1] = g
      /\ \A k \in 1..Depth : calls'[k] = s[k]
  BY <1>2, <1>3, PushOn
<1>5. Called(f, g)
  BY <1>1, <1>3, <1>4 DEF Called, Depth
<1> QED BY <1>4, <1>5 DEF f

(***************************************************************************)
(* Who waits for whom.  A walker has a client for its node, a part of the  *)
(* node being walked, or neither; a client of an opening walker waits for  *)
(* its end.                                                                *)
(***************************************************************************)
KindOK(c) ==
  \/ c.by = "walker" /\ c.phase \in {"entered", "parts", "applied"}
  \/ c.by = "client" /\ c.phase = "entered" /\ c.opens = FALSE
  \/ /\ c.by = "client" /\ c.phase = "init" /\ c.opens = FALSE
     /\ c.method = "DeclarationExp"

Waits(f, g) ==
  IF g.by = "client" THEN f.by = "walker" /\ f.phase = "applied"
  ELSE IF g.opens THEN f.by = "client" /\ f.phase = "init"
  ELSE f.by = "walker" /\ f.phase = "parts"

StackInv ==
  /\ IsStack(calls)
  /\ \A k \in 1..Depth : KindOK(calls[k]) /\ calls[k].opens \in BOOLEAN
  /\ \A k \in 2..Depth : Waits(calls[k - 1], calls[k])

\* A walk is inside of a literal.
InLiteral(c) == c.method = "StructLiteralExp" /\ c.phase # "entered"

\* The flagged literals are those a walk is inside of, and no walk enters one twice.
FlagInv ==
  /\ \A j, k \in 1..Depth :
       InLiteral(calls[j]) /\ InLiteral(calls[k]) /\ calls[j].node = calls[k].node => j = k
  /\ \A n : n \in applying <=> \E k \in 1..Depth : InLiteral(calls[k]) /\ calls[k].node = n

LEMMA PopKeepsStack ==
  ASSUME StackInv, IsStack(calls'), Popped
  PROVE  StackInv'
<1>1. \A k \in 1..Depth' : k \in 1..Depth /\ calls'[k] = calls[k]
  BY DEF Popped
<1>2. \A k \in 2..Depth' : k \in 2..Depth /\ k - 1 \in 1..Depth' /\ calls'[k - 1] = calls[k - 1]
                           /\ calls'[k] = calls[k]
  BY <1>1 DEF Popped
<1> QED BY <1>1, <1>2 DEF StackInv

LEMMA GoKeepsStack ==
  ASSUME StackInv, IsStack(calls'), NEW f, WentOn(f), KindOK(f), f.opens \in BOOLEAN,
         f.by = calls[Depth].by, f.opens = calls[Depth].opens
  PROVE  StackInv'
<1>1. \A k \in 1..Depth' : k \in 1..Depth /\ (k = Depth \/ k \in 1..Depth - 1)
  BY DEF WentOn
<1>2. \A k \in 1..Depth' : KindOK(calls'[k]) /\ calls'[k].opens \in BOOLEAN
  BY <1>1 DEF StackInv, WentOn
<1>3. ASSUME NEW k \in 2..Depth' PROVE Waits(calls'[k - 1], calls'[k])
  <2>1. k \in 2..Depth /\ k - 1 \in 1..Depth - 1 /\ Waits(calls[k - 1], calls[k])
    BY DEF WentOn, StackInv
  <2>2. calls'[k - 1] = calls[k - 1]
    BY <2>1 DEF WentOn
  <2>3. calls'[k].by = calls[k].by /\ calls'[k].opens = calls[k].opens
    BY <1>1, <2>1 DEF WentOn
  <2> QED BY <2>1, <2>2, <2>3 DEF Waits
<1> QED BY <1>2, <1>3 DEF StackInv

LEMMA CallKeepsStack ==
  ASSUME StackInv, IsStack(calls'), NEW f, NEW g, Called(f, g),
         KindOK(f), f.opens \in BOOLEAN, KindOK(g), g.opens \in BOOLEAN, Waits(f, g),
         f.by = calls[Depth].by, f.opens = calls[Depth].opens
  PROVE  StackInv'
<1>1. \A k \in 1..Depth' : k = Depth + 1 \/ k = Depth \/ k \in 1..Depth - 1
  BY DEF Called
<1>2. \A k \in 1..Depth' : KindOK(calls'[k]) /\ calls'[k].opens \in BOOLEAN
  BY <1>1 DEF StackInv, Called
<1>3. ASSUME NEW k \in 2..Depth' PROVE Waits(calls'[k - 1], calls'[k])
  <2>1. CASE k = Depth + 1
    BY <2>1 DEF Called
  <2>2. CASE k # Depth + 1
    <3>1. k \in 2..Depth /\ k - 1 \in 1..Depth - 1 /\ Waits(calls[k - 1], calls[k])
      BY <2>2 DEF Called, StackInv
    <3>2. calls'[k - 1] = calls[k - 1]
      BY <3>1 DEF Called
    <3>3. calls'[k].by = calls[k].by /\ calls'[k].opens = calls[k].opens
      BY <1>1, <2>2, <3>1 DEF Called
    <3> QED BY <3>1, <3>2, <3>3 DEF Waits
  <2> QED BY <2>1, <2>2
<1> QED BY <1>2, <1>3 DEF StackInv

\* The flags when a call returns, when it goes on, and when it makes another.
LEMMA PopKeepsFlags ==
  ASSUME FlagInv, Popped,
         applying' = IF InLiteral(calls[Depth]) THEN applying \ {calls[Depth].node}
                     ELSE applying
  PROVE  FlagInv'
<1>1. \A k \in 1..Depth' : k \in 1..Depth /\ k # Depth /\ calls'[k] = calls[k]
  BY DEF Popped
<1>2. \A k \in 1..Depth : k = Depth \/ k \in 1..Depth'
  BY DEF Popped
<1>3. Depth \in 1..Depth
  BY DEF Popped
<1>4. \A j, k \in 1..Depth' :
        InLiteral(calls'[j]) /\ InLiteral(calls'[k]) /\ calls'[j].node = calls'[k].node => j = k
  BY <1>1 DEF FlagInv
<1>5. ASSUME NEW n
      PROVE  n \in applying' <=> \E k \in 1..Depth' : InLiteral(calls'[k]) /\ calls'[k].node = n
  <2>1. ASSUME n \in applying'
        PROVE  \E k \in 1..Depth' : InLiteral(calls'[k]) /\ calls'[k].node = n
    <3>1. n \in applying /\ ~(InLiteral(calls[Depth]) /\ calls[Depth].node = n)
      <4>1. CASE InLiteral(calls[Depth])
        BY <2>1, <4>1
      <4>2. CASE ~InLiteral(calls[Depth])
        BY <2>1, <4>2
      <4> QED BY <4>1, <4>2
    <3>2. PICK k \in 1..Depth : InLiteral(calls[k]) /\ calls[k].node = n
      BY <3>1 DEF FlagInv
    <3> QED BY <1>1, <1>2, <3>1, <3>2
  <2>2. ASSUME NEW k \in 1..Depth', InLiteral(calls'[k]), calls'[k].node = n
        PROVE  n \in applying'
    <3>1. k \in 1..Depth /\ k # Depth /\ InLiteral(calls[k]) /\ calls[k].node = n
      BY <1>1, <2>2
    <3>2. n \in applying /\ ~(InLiteral(calls[Depth]) /\ calls[Depth].node = n)
      BY <1>3, <3>1 DEF FlagInv
    <3> QED BY <3>2
  <2> QED BY <2>1, <2>2
<1> QED BY <1>4, <1>5 DEF FlagInv

LEMMA GoKeepsFlags ==
  ASSUME FlagInv, NEW f, WentOn(f), f.node = calls[Depth].node,
         InLiteral(calls[Depth]) => InLiteral(f),
         InLiteral(f) /\ ~InLiteral(calls[Depth]) => f.node \notin applying,
         applying' = IF InLiteral(f) THEN applying \cup {f.node} ELSE applying
  PROVE  FlagInv'
<1>1. /\ Depth' = Depth /\ Depth \in 1..Depth
      /\ \A k \in 1..Depth : k # Depth => calls'[k] = calls[k]
  BY DEF WentOn
<1>2. calls'[Depth] = f
  BY DEF WentOn
<1>3. ASSUME NEW j \in 1..Depth, NEW k \in 1..Depth, j # k, k # Depth,
             InLiteral(calls'[j]), InLiteral(calls'[k]), calls'[j].node = calls'[k].node
      PROVE  FALSE
  <2>1. calls'[k] = calls[k] /\ calls[k].node \in applying
    BY <1>1, <1>3 DEF FlagInv
  <2>2. CASE j # Depth
    BY <1>1, <1>3, <2>1, <2>2 DEF FlagInv
  <2>3. CASE j = Depth
    BY <1>1, <1>2, <1>3, <2>1, <2>3 DEF FlagInv
  <2> QED BY <2>2, <2>3
<1>4. \A j, k \in 1..Depth :
        InLiteral(calls'[j]) /\ InLiteral(calls'[k]) /\ calls'[j].node = calls'[k].node => j = k
  BY <1>3
<1>5. ASSUME NEW n
      PROVE  n \in applying' <=> \E k \in 1..Depth : InLiteral(calls'[k]) /\ calls'[k].node = n
  <2>1. ASSUME n \in applying'
        PROVE  \E k \in 1..Depth : InLiteral(calls'[k]) /\ calls'[k].node = n
    <3>1. CASE InLiteral(f) /\ n = f.node
      BY <1>1, <1>2, <3>1
    <3>2. CASE ~(InLiteral(f) /\ n = f.node)
      <4>1. n \in applying
        BY <2>1, <3>2
      <4>2. PICK k \in 1..Depth : InLiteral(calls[k]) /\ calls[k].node = n
        BY <4>1 DEF FlagInv
      <4>3. k # Depth
        BY <3>2, <4>2
      <4> QED BY <1>1, <4>2, <4>3
    <3> QED BY <3>1, <3>2
  <2>2. ASSUME NEW k \in 1..Depth, InLiteral(calls'[k]), calls'[k].node = n
        PROVE  n \in applying'
    <3>1. CASE k = Depth
      BY <1>2, <2>2, <3>1
    <3>2. CASE k # Depth
      <4>1. n \in applying
        BY <1>1, <2>2, <3>2 DEF FlagInv
      <4> QED BY <4>1
    <3> QED BY <3>1, <3>2
  <2> QED BY <2>1, <2>2
<1> QED BY <1>1, <1>4, <1>5 DEF FlagInv

LEMMA CallKeepsFlags ==
  ASSUME FlagInv, NEW f, NEW g, Called(f, g), f.node = calls[Depth].node,
         InLiteral(calls[Depth]) <=> InLiteral(f), ~InLiteral(g), applying' = applying
  PROVE  FlagInv'
<1>1. \A k \in 1..Depth' : k \in 1..Depth \/ k = Depth + 1
  BY DEF Called
<1>2. \A k \in 1..Depth : k \in 1..Depth' /\ (k = Depth \/ k \in 1..Depth - 1)
  BY DEF Called
<1>3. \A k \in 1..Depth : /\ InLiteral(calls'[k]) <=> InLiteral(calls[k])
                          /\ calls'[k].node = calls[k].node
  BY <1>2 DEF Called
<1>4. ~InLiteral(calls'[Depth + 1])
  BY DEF Called
<1>5. \A j, k \in 1..Depth' :
        InLiteral(calls'[j]) /\ InLiteral(calls'[k]) /\ calls'[j].node = calls'[k].node => j = k
  BY <1>1, <1>3, <1>4 DEF FlagInv
<1>6. \A n : n \in applying' <=> \E k \in 1..Depth' : InLiteral(calls'[k]) /\ calls'[k].node = n
  BY <1>1, <1>2, <1>3, <1>4 DEF FlagInv
<1> QED BY <1>5, <1>6 DEF FlagInv

LEMMA TopKind ==
  ASSUME StackInv, calls # <<>>
  PROVE  /\ Depth \in Nat \ {0} /\ Top = calls[Depth] /\ IsCall(Top)
         /\ KindOK(Top) /\ Top.opens \in BOOLEAN
         /\ Depth > 1 => Waits(calls[Depth - 1], Top)
<1>1. Depth \in Nat \ {0} /\ Top = calls[Depth] /\ IsCall(Top)
  BY TopShape DEF StackInv
<1>2. Depth \in 1..Depth /\ (Depth > 1 => Depth \in 2..Depth)
  BY <1>1
<1> QED BY <1>1, <1>2 DEF StackInv

\* A method that is not overridden.
LEMMA ForwardShape ==
  ASSUME StackInv, Forward
  PROVE  IsStack(calls') /\ WentOn(Renamed(Top, ForwardsTo[Top.method]))
<1> DEFINE f == Renamed(Top, ForwardsTo[Top.method])
           s == [calls EXCEPT ![Len(calls)] = f]
<1>1. calls # <<>> /\ IsStack(calls) /\ Depth \in Nat \ {0} /\ IsCall(f)
  BY TopKind, RenamedFields DEF Forward, StackInv
<1>2. calls' = s
  <2>1. PICK S : calls \in Seq(S) /\ \A c \in S : IsCall(c)
    BY DEF StackInv, IsStack
  <2>2. DOMAIN calls = 1..Len(calls) /\ Len(calls) \in 1..Len(calls)
    BY <1>1, <2>1, LenProperties DEF Depth
  <2> QED BY <2>2 DEF Forward, Renamed, Top
<1> HIDE DEF f
<1>3. IsStack(s) /\ Len(s) = Depth /\ s[Depth] = f /\ \A k \in 1..Depth - 1 : s[k] = calls[k]
  BY <1>1, ChangeTop
<1> HIDE DEF s
<1>4. Depth' = Len(s) /\ IsStack(calls')
  BY <1>2, <1>3 DEF Depth
<1>5. WentOn(f)
  BY <1>1, <1>2, <1>3, <1>4 DEF WentOn
<1> QED BY <1>4, <1>5 DEF f

LEMMA ForwardOK ==
  ASSUME StackInv, FlagInv, Forward
  PROVE  StackInv' /\ FlagInv'
<1> DEFINE f == Renamed(Top, ForwardsTo[Top.method])
<1>1. /\ calls # <<>> /\ Top.phase = "entered" /\ applying' = applying
      /\ IsStack(calls') /\ WentOn(f)
  BY ForwardShape DEF Forward
<1>2. Top = calls[Depth] /\ KindOK(Top) /\ Top.opens \in BOOLEAN /\ IsCall(Top)
  BY <1>1, TopKind
<1>3. f.by = Top.by /\ f.node = Top.node /\ f.phase = "entered" /\ f.opens = Top.opens
  BY <1>1, <1>2, RenamedFields
<1> HIDE DEF f
<1>4. KindOK(f) /\ ~InLiteral(f) /\ ~InLiteral(Top)
  BY <1>1, <1>2, <1>3 DEF KindOK, InLiteral
<1>5. StackInv'
  BY <1>1, <1>2, <1>3, <1>4, GoKeepsStack
<1>6. FlagInv'
  BY <1>1, <1>2, <1>3, <1>4, GoKeepsFlags
<1> QED BY <1>5, <1>6

\* A walker with a node that it walks already.
LEMMA LiteralAgainOK ==
  ASSUME StackInv, FlagInv, LiteralAgain
  PROVE  StackInv' /\ FlagInv'
<1>1. /\ calls # <<>> /\ Top.phase = "entered" /\ applying' = applying
      /\ calls' = Front(calls)
  BY DEF LiteralAgain, Dispatched, Active
<1>2. IsStack(calls') /\ Popped /\ Top = calls[Depth]
  BY <1>1, PopShape, TopKind DEF StackInv
<1>3. ~InLiteral(calls[Depth])
  BY <1>1, <1>2 DEF InLiteral
<1> QED BY <1>1, <1>2, <1>3, PopKeepsStack, PopKeepsFlags

\* A walker that enters a node.
LEMMA EnterNodeOK ==
  ASSUME StackInv, FlagInv, EnterNode
  PROVE  StackInv' /\ FlagInv'
<1> DEFINE todo == InAll(Top.node, Walked[Top.method])
           f == Going(Top, "parts", todo)
<1>1. /\ calls # <<>> /\ Top.by = "walker" /\ Top.phase = "entered"
      /\ ~(Top.method = "StructLiteralExp" /\ Top.node \in applying)
      /\ calls' = With("parts", todo)
      /\ applying' = IF Top.method = "StructLiteralExp"
                     THEN applying \cup {Top.node} ELSE applying
  BY DEF EnterNode, Dispatched, Active
<1> HIDE DEF todo
<1>2. Top = calls[Depth] /\ KindOK(Top) /\ Top.opens \in BOOLEAN /\ IsCall(Top)
  BY <1>1, TopKind
<1>3. /\ f.by = Top.by /\ f.node = Top.node /\ f.method = Top.method
      /\ f.phase = "parts" /\ f.opens = Top.opens
  BY <1>2, GoingFields
<1>4. IsStack(calls') /\ WentOn(f)
  BY <1>1, WithShape DEF StackInv
<1> HIDE DEF f
<1>5. /\ KindOK(f) /\ ~InLiteral(Top)
      /\ InLiteral(f) <=> Top.method = "StructLiteralExp"
  BY <1>1, <1>2, <1>3 DEF KindOK, InLiteral
<1>6. StackInv'
  BY <1>2, <1>3, <1>4, <1>5, GoKeepsStack
<1>7. FlagInv'
  BY <1>1, <1>2, <1>3, <1>4, <1>5, GoKeepsFlags
<1> QED BY <1>6, <1>7

\* A call for a part, of the client, or of a walker for an initializer.
LEMMA CallsOK ==
  ASSUME StackInv, FlagInv, calls # <<>>, applying' = applying,
         NEW phase, NEW todo, NEW by \in {"walker", "client"}, NEW node, NEW opens \in BOOLEAN,
         by = "client" => opens = FALSE,
         calls' = Append(With(phase, todo), Call(by, node, opens)),
         \/ Top.by = "walker" /\ Top.phase = "parts" /\ phase = "parts" /\ by = "walker" /\ ~opens
         \/ Top.by = "walker" /\ Top.phase = "parts" /\ phase = "applied" /\ by = "client"
         \/ /\ Top.by = "client" /\ Top.phase = "entered" /\ Top.method = "DeclarationExp"
            /\ phase = "init" /\ by = "walker" /\ opens
  PROVE  StackInv' /\ FlagInv'
<1> DEFINE f == Going(Top, phase, todo)
           g == Call(by, node, opens)
<1>1. Top = calls[Depth] /\ KindOK(Top) /\ Top.opens \in BOOLEAN /\ IsCall(Top)
  BY TopKind
<1>2. /\ f.by = Top.by /\ f.node = Top.node /\ f.method = Top.method
      /\ f.phase = phase /\ f.opens = Top.opens
  BY <1>1, GoingFields
<1>3. IsCall(g) /\ g.by = by /\ g.phase = "entered" /\ g.opens = opens
  BY CallFields
<1>4. IsStack(calls') /\ Called(f, g)
  BY <1>3, CallShape DEF StackInv
<1> HIDE DEF f, g
<1>5. KindOK(f) /\ KindOK(g) /\ Waits(f, g) /\ ~InLiteral(g)
  BY <1>1, <1>2, <1>3 DEF KindOK, Waits, InLiteral
<1>6. InLiteral(calls[Depth]) <=> InLiteral(f)
  BY <1>1, <1>2 DEF InLiteral
<1>7. StackInv'
  BY <1>1, <1>2, <1>3, <1>4, <1>5, CallKeepsStack
<1>8. FlagInv'
  BY <1>1, <1>2, <1>4, <1>5, <1>6, CallKeepsFlags
<1> QED BY <1>7, <1>8

LEMMA NextPartOK ==
  ASSUME StackInv, FlagInv, NextPart
  PROVE  StackInv' /\ FlagInv'
  BY CallsOK DEF NextPart, Active

LEMMA ApplyOK ==
  ASSUME StackInv, FlagInv, Apply
  PROVE  StackInv' /\ FlagInv'
  BY CallsOK DEF Apply, Active

\* The walker leaves a node.
LEMMA LeaveNodeOK ==
  ASSUME StackInv, FlagInv, LeaveNode
  PROVE  StackInv' /\ FlagInv'
<1>1. /\ calls # <<>> /\ Top.phase \in {"applied", "parts"} /\ calls' = Front(calls)
      /\ applying' = IF Top.method = "StructLiteralExp"
                     THEN applying \ {Top.node} ELSE applying
  BY DEF LeaveNode, Active
<1>2. IsStack(calls') /\ Popped /\ Top = calls[Depth]
  BY <1>1, PopShape, TopKind DEF StackInv
<1>3. InLiteral(calls[Depth]) <=> Top.method = "StructLiteralExp"
  BY <1>1, <1>2 DEF InLiteral
<1> QED BY <1>1, <1>2, <1>3, PopKeepsStack, PopKeepsFlags

\* A client's call ends without a walk of an initializer, or after it.
LEMMA ClientEnds ==
  ASSUME StackInv, FlagInv, calls # <<>>, Top.by = "client", calls' = Front(calls),
         applying' = applying
  PROVE  StackInv' /\ FlagInv'
<1>1. IsStack(calls') /\ Popped /\ Top = calls[Depth] /\ KindOK(Top)
  BY PopShape, TopKind DEF StackInv
<1>2. ~InLiteral(calls[Depth])
  BY <1>1 DEF InLiteral, KindOK
<1> QED BY <1>1, <1>2, PopKeepsStack, PopKeepsFlags

LEMMA ClientVisitOK ==
  ASSUME StackInv, FlagInv, ClientVisit
  PROVE  StackInv' /\ FlagInv'
<1>1. calls # <<>> /\ Top.by = "client" /\ Top.phase = "entered" /\ applying' = applying
  BY DEF ClientVisit, Dispatched, Active
<1>2. CASE WalksInit(Top.node, Top.method)
  <2>1. Top.method = "DeclarationExp"
    BY <1>2 DEF WalksInit
  <2>2. calls' = Append(With("init", <<>>), Call("walker", Initializer(Top.node)[1], TRUE))
    BY <1>2 DEF ClientVisit
  <2> QED BY <1>1, <2>1, <2>2, CallsOK
<1>3. CASE ~WalksInit(Top.node, Top.method)
  <2>1. calls' = Front(calls)
    BY <1>3 DEF ClientVisit
  <2> QED BY <1>1, <2>1, ClientEnds
<1> QED BY <1>2, <1>3

LEMMA InitWalkedOK ==
  ASSUME StackInv, FlagInv, InitWalked
  PROVE  StackInv' /\ FlagInv'
  BY ClientEnds DEF InitWalked, Active

LEMMA InitOK ==
  ASSUME VisitsAssumption, Init
  PROVE  StackInv /\ FlagInv
<1>1. PICK visit \in Visits :
        /\ calls = <<Call(IF visit.walk THEN "walker" ELSE "client", visit.tree.root,
                          visit.walk)>>
        /\ applying = {} /\ visit.walk \in BOOLEAN
  <2>1. PICK visit \in Visits :
          /\ tree = visit.tree
          /\ calls = <<Call(IF visit.walk THEN "walker" ELSE "client", tree.root,
                            visit.walk)>>
    BY DEF Init
  <2> QED BY <2>1 DEF Init, VisitsAssumption
<1> DEFINE by == IF visit.walk THEN "walker" ELSE "client"
           g == Call(by, visit.tree.root, visit.walk)
<1>2. IsCall(g) /\ g.by = by /\ g.phase = "entered" /\ g.opens = visit.walk
  BY CallFields
<1>3. calls = <<g>>
  BY <1>1
<1>4. KindOK(g) /\ g.opens \in BOOLEAN /\ ~InLiteral(g)
  BY <1>1, <1>2 DEF KindOK, InLiteral
<1> HIDE DEF g, by
<1>5. calls \in Seq({g}) /\ Depth = 1 /\ calls[1] = g
  BY <1>3 DEF Depth
<1>6. IsStack(calls) /\ \A k \in 1..Depth : calls[k] = g
  BY <1>2, <1>5 DEF IsStack
<1>7. StackInv
  BY <1>4, <1>5, <1>6 DEF StackInv
<1>8. FlagInv
  BY <1>1, <1>4, <1>5, <1>6 DEF FlagInv
<1> QED BY <1>7, <1>8

LEMMA NextOK ==
  ASSUME StackInv, FlagInv, [Next]_vars
  PROVE  StackInv' /\ FlagInv'
<1>1. CASE Forward
  BY <1>1, ForwardOK
<1>2. CASE LiteralAgain
  BY <1>2, LiteralAgainOK
<1>3. CASE EnterNode
  BY <1>3, EnterNodeOK
<1>4. CASE NextPart
  BY <1>4, NextPartOK
<1>5. CASE Apply
  BY <1>5, ApplyOK
<1>6. CASE LeaveNode
  BY <1>6, LeaveNodeOK
<1>7. CASE ClientVisit
  BY <1>7, ClientVisitOK
<1>8. CASE InitWalked
  BY <1>8, InitWalkedOK
<1>9. CASE UNCHANGED vars
  <2>1. calls' = calls /\ applying' = applying
    BY <1>9 DEF vars
  <2> QED BY <2>1 DEF StackInv, FlagInv, Depth
<1> QED BY <1>1, <1>2, <1>3, <1>4, <1>5, <1>6, <1>7, <1>8, <1>9 DEF Next, Done

LEMMA StackInvariant == Spec => [](StackInv /\ FlagInv)
<1>1. Init => StackInv /\ FlagInv
  BY InitOK, VisitsAssumption
<1>2. (StackInv /\ FlagInv) /\ [Next]_vars => (StackInv /\ FlagInv)'
  BY NextOK
<1> QED BY <1>1, <1>2, PTL DEF Spec

\* apply.d:131-136: a literal is flagged exactly while a walk is inside of it, also
\* when walks of initializers or literals in literals end early.
THEOREM FlagsCorrect == Spec => []FlagsFollowCalls
<1>1. StackInv /\ FlagInv => FlagsFollowCalls
  <2> SUFFICES ASSUME StackInv, FlagInv PROVE FlagsFollowCalls
    OBVIOUS
  <2>1. DOMAIN calls = 1..Depth
    <3>1. PICK S : calls \in Seq(S)
      BY DEF StackInv, IsStack
    <3> QED BY <3>1, LenProperties DEF Depth
  <2>2. \A n : n \in applying <=>
          n \in {calls[i].node : i \in {k \in DOMAIN calls :
                   calls[k].method = "StructLiteralExp" /\ calls[k].phase # "entered"}}
    BY <2>1 DEF FlagInv, InLiteral
  <2> QED BY <2>2 DEF FlagsFollowCalls
<1> QED BY <1>1, StackInvariant, PTL

-----------------------------------------------------------------------------
(***************************************************************************)
(* The walks under way.  Every call that opens a walk has its field stop,  *)
(* and every walker belongs to a walk.                                     *)
(***************************************************************************)
Opening == {k \in 1..Depth : calls[k].opens}

OpenInv ==
  /\ walks \in Seq(BOOLEAN) /\ Len(walks) = Cardinality(Opening)
  /\ \A k \in 1..Depth : calls[k].by = "walker" => \E j \in 1..k : calls[j].opens

LEMMA OpeningFinite ==
  ASSUME StackInv
  PROVE  IsFiniteSet(Opening) /\ Cardinality(Opening) \in Nat /\ Depth \in Nat
<1>1. Depth \in Nat
  BY LenProperties DEF StackInv, IsStack, Depth
<1>2. IsFiniteSet(1..Depth)
  BY <1>1, FS_Interval
<1>3. IsFiniteSet(Opening)
  BY <1>2, FS_Subset DEF Opening
<1> QED BY <1>1, <1>3, FS_CardinalityType

\* There is a walk whenever a walker is on top.
LEMMA WalkerWalks ==
  ASSUME StackInv, OpenInv, calls # <<>>, Top.by = "walker"
  PROVE  Len(walks) \in Nat \ {0}
<1>1. Depth \in 1..Depth /\ calls[Depth].by = "walker"
  BY TopKind
<1>2. Opening # {}
  BY <1>1 DEF OpenInv, Opening
<1>3. Cardinality(Opening) # 0
  BY <1>2, OpeningFinite, FS_EmptySet
<1> QED BY <1>3, OpeningFinite DEF OpenInv

LEMMA GoKeepsOpen ==
  ASSUME StackInv, OpenInv, NEW f, WentOn(f),
         f.by = calls[Depth].by, f.opens = calls[Depth].opens,
         walks' \in Seq(BOOLEAN), Len(walks') = Len(walks)
  PROVE  OpenInv'
<1>1. \A k \in 1..Depth : /\ calls'[k].by = calls[k].by
                          /\ calls'[k].opens = calls[k].opens
  <2>1. \A k \in 1..Depth : k = Depth \/ k \in 1..Depth - 1
    BY DEF WentOn
  <2> QED BY <2>1 DEF WentOn
<1>2. Depth' = Depth /\ Depth \in Nat
  BY DEF WentOn
<1>3. Opening' = Opening
  BY <1>1, <1>2 DEF Opening
<1>4. ASSUME NEW k \in 1..Depth, calls'[k].by = "walker"
      PROVE  \E j \in 1..k : calls'[j].opens
  <2>1. PICK j \in 1..k : calls[j].opens
    BY <1>1, <1>4 DEF OpenInv
  <2> QED BY <1>1, <1>2, <2>1
<1> QED BY <1>2, <1>3, <1>4 DEF OpenInv

LEMMA PopKeepsOpen ==
  ASSUME StackInv, OpenInv, Popped,
         walks' \in Seq(BOOLEAN),
         Len(walks') = IF calls[Depth].opens THEN Len(walks) - 1 ELSE Len(walks)
  PROVE  OpenInv'
<1>1. /\ Depth \in Nat \ {0} /\ Depth' = Depth - 1
      /\ \A k \in 1..Depth - 1 : calls'[k] = calls[k]
  BY DEF Popped
<1>2. Opening' = Opening \ {Depth}
  <2>1. \A k : k \in Opening' <=> k \in 1..Depth - 1 /\ calls[k].opens
    BY <1>1 DEF Opening
  <2>2. \A k : k \in 1..Depth - 1 <=> k \in 1..Depth /\ k # Depth
    BY <1>1
  <2> QED BY <2>1, <2>2 DEF Opening
<1>3. Cardinality(Opening') =
        IF calls[Depth].opens THEN Cardinality(Opening) - 1 ELSE Cardinality(Opening)
  <2>1. Depth \in Opening <=> calls[Depth].opens
    BY <1>1 DEF Opening
  <2> QED BY <1>2, <2>1, OpeningFinite, FS_RemoveElement
<1>4. ASSUME NEW k \in 1..Depth', calls'[k].by = "walker"
      PROVE  \E j \in 1..k : calls'[j].opens
  <2>1. k \in 1..Depth /\ calls[k].by = "walker"
    BY <1>1, <1>4
  <2>2. PICK j \in 1..k : calls[j].opens
    BY <2>1 DEF OpenInv
  <2>3. j \in 1..Depth - 1
    BY <1>1, <2>2
  <2> QED BY <1>1, <2>2, <2>3
<1>5. Len(walks') = Cardinality(Opening')
  BY <1>3 DEF OpenInv
<1> QED BY <1>4, <1>5 DEF OpenInv

LEMMA CallKeepsOpen ==
  ASSUME StackInv, OpenInv, NEW f, NEW g, Called(f, g),
         f.by = calls[Depth].by, f.opens = calls[Depth].opens,
         g.by = "walker" /\ ~g.opens => f.by = "walker",
         walks' \in Seq(BOOLEAN),
         Len(walks') = IF g.opens THEN Len(walks) + 1 ELSE Len(walks)
  PROVE  OpenInv'
<1>1. \A k \in 1..Depth : /\ calls'[k].by = calls[k].by
                          /\ calls'[k].opens = calls[k].opens
  <2>1. \A k \in 1..Depth : k = Depth \/ k \in 1..Depth - 1
    BY DEF Called
  <2> QED BY <2>1 DEF Called
<1>2. Depth' = Depth + 1 /\ Depth \in Nat \ {0} /\ calls'[Depth + 1] = g
  BY DEF Called
<1>3. Opening' = IF g.opens THEN Opening \cup {Depth + 1} ELSE Opening
  <2>1. \A k : k \in 1..Depth' <=> k \in 1..Depth \/ k = Depth + 1
    BY <1>2
  <2>2. \A k : k \in Opening' <=> k \in Opening \/ (k = Depth + 1 /\ g.opens)
    BY <1>1, <1>2, <2>1 DEF Opening
  <2> QED BY <2>2
<1>4. Cardinality(Opening') = IF g.opens THEN Cardinality(Opening) + 1 ELSE Cardinality(Opening)
  <2>1. Depth + 1 \notin Opening
    BY <1>2 DEF Opening
  <2> QED BY <1>3, <2>1, OpeningFinite, FS_AddElement
<1>5. ASSUME NEW k \in 1..Depth', calls'[k].by = "walker"
      PROVE  \E j \in 1..k : calls'[j].opens
  <2>1. CASE k \in 1..Depth
    <3>1. PICK j \in 1..k : calls[j].opens
      BY <1>1, <1>5, <2>1 DEF OpenInv
    <3> QED BY <1>1, <1>2, <2>1, <3>1
  <2>2. CASE k = Depth + 1 /\ g.opens
    BY <1>2, <2>2
  <2>3. CASE k = Depth + 1 /\ ~g.opens
    <3>1. Depth \in 1..Depth /\ calls[Depth].by = "walker"
      BY <1>2, <1>5, <2>3
    <3>2. PICK j \in 1..Depth : calls[j].opens
      BY <3>1 DEF OpenInv
    <3> QED BY <1>1, <1>2, <2>3, <3>2
  <2> QED BY <1>2, <2>1, <2>2, <2>3
<1> QED BY <1>4, <1>5 DEF OpenInv

(***************************************************************************)
(* The clients under way.  Only the last one can have said stop; then the  *)
(* call on top hands it on: a walker that has had the client's answer or   *)
(* whose walk has ended, or a client that waits for the walk of an         *)
(* initializer.                                                            *)
(***************************************************************************)
ObjectSet == [stop : BOOLEAN, finding : BOOLEAN]

Count == Len(objects)

ClientOK ==
  client.inits # "none" =>
    /\ client.stops => client.inits = "new" /\ "DeclarationExp" \in client.overwrites
    /\ "DeclarationExp" \notin client.halts

HandsOn ==
  \/ Top.by = "client" /\ Top.phase = "init"
  \/ Top.by = "walker" /\ Top.phase = "applied"
  \/ Top.by = "walker" /\ Top.phase = "parts" /\ Last(walks)

ObjectInv ==
  /\ ClientOK
  /\ objects \in Seq(ObjectSet) /\ objects # <<>>
  /\ \A i \in 1..Count - 1 : ~objects[i].stop
  /\ calls # <<>> /\ Object.stop => HandsOn

\* What a visit makes of the client.
LEMMA AfterFields ==
  ASSUME NEW object \in ObjectSet, NEW c, NEW node, NEW method
  PROVE  /\ After(object, c, node, method) \in ObjectSet
         /\ ~c.stops /\ ~object.stop /\ method \notin c.halts =>
              ~After(object, c, node, method).stop
         /\ c.stops /\ method \in c.overwrites /\ ~Finds(c, node, method) =>
              ~After(object, c, node, method).stop
<1>1. CASE c.stops
  <2>1. After(object, c, node, method) =
          [object EXCEPT !.stop = Finds(c, node, method)
                                    \/ (object.stop /\ method \notin c.overwrites)]
    BY <1>1 DEF After
  <2> QED BY <1>1, <2>1 DEF ObjectSet
<1>2. CASE ~c.stops
  <2>1. After(object, c, node, method) =
          [object EXCEPT !.finding = Finds(c, node, method)
                                    \/ (object.finding /\ method \notin c.overwrites),
                         !.stop = object.stop \/ method \in c.halts]
    BY <1>2 DEF After
  <2> QED BY <1>2, <2>1 DEF ObjectSet
<1> QED BY <1>1, <1>2

LEMMA ObjectShape ==
  ASSUME ObjectInv
  PROVE  /\ Count \in Nat \ {0} /\ Object = objects[Count] /\ Object \in ObjectSet
         /\ \A i \in 1..Count : i = Count \/ i \in 1..Count - 1
<1>1. Count \in Nat \ {0} /\ Count \in 1..Count
  BY EmptySeq, LenProperties DEF ObjectInv, Count
<1> QED BY <1>1, ElementOfSeq DEF ObjectInv, Object, Count

\* The clients after a visit, and with a new one.
LEMMA VisitObjects ==
  ASSUME ObjectInv, NEW o \in ObjectSet
  PROVE  \A now : now = [objects EXCEPT ![Len(objects)] = o] =>
           /\ now \in Seq(ObjectSet) /\ Len(now) = Count /\ now[Count] = o
           /\ now # <<>>
           /\ \A i \in 1..Count - 1 : ~now[i].stop
<1> DEFINE now == [objects EXCEPT ![Len(objects)] = o]
<1>1. Count \in Nat \ {0} /\ Len(objects) \in 1..Len(objects) /\ objects \in Seq(ObjectSet)
  BY ObjectShape DEF Count, ObjectInv
<1>2. /\ now \in Seq(ObjectSet) /\ Len(now) = Count
      /\ \A j \in 1..Count : now[j] = IF j = Count THEN o ELSE objects[j]
  BY <1>1, ExceptSeq DEF Count
<1> HIDE DEF now
<1>3. now # <<>> /\ now[Count] = o
  BY <1>1, <1>2, EmptySeq
<1>4. \A i \in 1..Count - 1 : ~now[i].stop
  <2>1. \A i \in 1..Count - 1 : i \in 1..Count /\ i # Count
    BY <1>1
  <2> QED BY <1>2, <2>1 DEF ObjectInv
<1> QED BY <1>2, <1>3, <1>4 DEF now

\* The client does not matter to a step that leaves the clients alone.
LEMMA SameObjects ==
  ASSUME ObjectInv, UNCHANGED <<client, objects>>,
         calls' # <<>> /\ Object.stop => HandsOn'
  PROVE  ObjectInv'
  BY DEF ObjectInv, ClientOK, Count, Object

\* The call below the top, once that returns.
LEMMA Below ==
  ASSUME StackInv, IsStack(calls'), Popped, calls' # <<>>
  PROVE  Waits(Top', Top)
<1>1. /\ Depth > 1 /\ Top' = calls'[Depth - 1]
  <2>1. \E S : calls' \in Seq(S)
    BY DEF IsStack
  <2>2. Depth' \in Nat \ {0} /\ Top' = calls'[Depth']
    BY <2>1, EmptySeq DEF Depth, Top
  <2> QED BY <2>2 DEF Popped
<1>2. calls # <<>>
  <2>1. Len(<<>>) = 0
    OBVIOUS
  <2> QED BY <1>1, <2>1 DEF Depth
<1>3. Waits(calls[Depth - 1], Top) /\ Depth \in Nat
  BY <1>1, <1>2, TopKind
<1>4. calls'[Depth - 1] = calls[Depth - 1]
  BY <1>1, <1>3 DEF Popped
<1> QED BY <1>1, <1>3, <1>4

\* Nothing has been said yet when a method is entered, or a part is next.
LEMMA NotStopped ==
  ASSUME StackInv, ObjectInv, calls # <<>>,
         \/ Top.phase = "entered"
         \/ Top.by = "walker" /\ Top.phase = "parts" /\ ~Last(walks)
  PROVE  ~Object.stop /\ \A i \in 1..Count : ~objects[i].stop
<1>1. ~Object.stop
  BY DEF ObjectInv, HandsOn
<1> QED BY <1>1, ObjectShape DEF ObjectInv

LEMMA ForwardStops ==
  ASSUME StackInv, OpenInv, ObjectInv, Forward
  PROVE  OpenInv' /\ ObjectInv'
<1> DEFINE f == Renamed(Top, ForwardsTo[Top.method])
<1>1. /\ calls # <<>> /\ Top.phase = "entered" /\ WentOn(f)
      /\ UNCHANGED <<client, walks, objects>>
  BY ForwardShape DEF Forward
<1>2. f.by = calls[Depth].by /\ f.opens = calls[Depth].opens
  BY <1>1, TopKind, RenamedFields
<1> HIDE DEF f
<1>3. OpenInv'
  BY <1>1, <1>2, GoKeepsOpen DEF OpenInv
<1>4. ObjectInv'
  BY <1>1, NotStopped, SameObjects
<1> QED BY <1>3, <1>4

\* The walk of the call on top ends, if it began there.
LEMMA FrontWalks ==
  ASSUME StackInv, OpenInv, calls # <<>>, Top.opens
  PROVE  Front(walks) \in Seq(BOOLEAN) /\ Len(Front(walks)) = Len(walks) - 1
<1>1. Len(walks) \in Nat \ {0}
  BY WalkerWalks, TopKind DEF KindOK
<1>2. \A i \in 1..Len(walks) - 1 : walks[i] \in BOOLEAN
  BY <1>1, ElementOfSeq DEF OpenInv
<1>3. /\ SubSeq(walks, 1, Len(walks) - 1) \in Seq(BOOLEAN)
      /\ Len(SubSeq(walks, 1, Len(walks) - 1)) =
           IF 1 <= Len(walks) - 1 THEN (Len(walks) - 1) - 1 + 1 ELSE 0
  BY <1>1, <1>2, SubSeqProperties
<1>4. Front(walks) = SubSeq(walks, 1, Len(walks) - 1)
  BY DEF Front
<1>5. Len(SubSeq(walks, 1, Len(walks) - 1)) = Len(walks) - 1
  <2>1. \A n \in Nat \ {0} : (IF 1 <= n - 1 THEN (n - 1) - 1 + 1 ELSE 0) = n - 1
    OBVIOUS
  <2> QED BY <1>1, <1>3, <2>1
<1> QED BY <1>3, <1>4, <1>5

LEMMA LiteralAgainStops ==
  ASSUME StackInv, OpenInv, ObjectInv, LiteralAgain
  PROVE  OpenInv' /\ ObjectInv'
<1>1. /\ calls # <<>> /\ Top.phase = "entered" /\ calls' = Front(calls)
      /\ walks' = IF Top.opens THEN Front(walks) ELSE walks
      /\ UNCHANGED <<client, objects>>
  BY DEF LiteralAgain, Dispatched, Active
<1>2. Popped /\ Top = calls[Depth]
  BY <1>1, PopShape, TopKind DEF StackInv
<1>3. OpenInv'
  BY <1>1, <1>2, FrontWalks, PopKeepsOpen DEF OpenInv
<1>4. ObjectInv'
  BY <1>1, NotStopped, SameObjects
<1> QED BY <1>3, <1>4

LEMMA EnterNodeStops ==
  ASSUME StackInv, OpenInv, ObjectInv, EnterNode
  PROVE  OpenInv' /\ ObjectInv'
<1> DEFINE todo == InAll(Top.node, Walked[Top.method])
           f == Going(Top, "parts", todo)
<1>1. /\ calls # <<>> /\ Top.phase = "entered" /\ calls' = With("parts", todo)
      /\ UNCHANGED <<client, walks, objects>>
  BY DEF EnterNode, Dispatched, Active
<1> HIDE DEF todo
<1>2. f.by = calls[Depth].by /\ f.opens = calls[Depth].opens
  BY <1>1, TopKind, GoingFields
<1>3. WentOn(f)
  BY <1>1, WithShape DEF StackInv
<1> HIDE DEF f
<1>4. OpenInv'
  BY <1>1, <1>2, <1>3, GoKeepsOpen DEF OpenInv
<1>5. ObjectInv'
  BY <1>1, NotStopped, SameObjects
<1> QED BY <1>4, <1>5

\* A call for a part, or of the client.
LEMMA PartStops ==
  ASSUME StackInv, OpenInv, ObjectInv, NextPart \/ Apply
  PROVE  OpenInv' /\ ObjectInv'
<1>1. PICK phase, todo, by, node :
        calls' = Append(With(phase, todo), Call(by, node, FALSE))
  <2>1. CASE NextPart
    BY <2>1 DEF NextPart
  <2>2. CASE Apply
    BY <2>2 DEF Apply
  <2> QED BY <2>1, <2>2
<1>2. /\ calls # <<>> /\ Top.by = "walker" /\ Top.phase = "parts" /\ ~Last(walks)
      /\ UNCHANGED <<client, walks, objects>>
  BY DEF NextPart, Apply, Active
<1> DEFINE f == Going(Top, phase, todo)
           g == Call(by, node, FALSE)
<1>3. IsCall(g) /\ g.opens = FALSE
  BY DEF Call, IsCall
<1>4. calls' = Append(With(phase, todo), g)
  BY <1>1
<1>5. f.by = calls[Depth].by /\ f.opens = calls[Depth].opens /\ calls[Depth].by = "walker"
  BY <1>2, TopKind, GoingFields
<1> HIDE DEF g
<1>6. Called(f, g)
  BY <1>2, <1>3, <1>4, CallShape DEF StackInv
<1> HIDE DEF f
<1>7. OpenInv'
  BY <1>2, <1>3, <1>5, <1>6, CallKeepsOpen DEF OpenInv
<1>8. ObjectInv'
  BY <1>2, NotStopped, SameObjects
<1> QED BY <1>7, <1>8

\* The walker leaves a node: it takes over the client's stop, and keeps its own.
LEMMA LeaveNodeStops ==
  ASSUME StackInv, OpenInv, ObjectInv, LeaveNode
  PROVE  OpenInv' /\ ObjectInv'
<1>1. /\ calls # <<>> /\ calls' = Front(calls) /\ UNCHANGED <<client, objects>>
      /\ Top.by = "walker"
      /\ Top.phase = "applied" \/ (Top.phase = "parts" /\ Last(walks))
      /\ walks' = IF Top.opens THEN Front(walks)
                  ELSE IF Top.phase = "applied"
                       THEN [walks EXCEPT ![Len(walks)] = Object.stop]
                  ELSE walks
  BY DEF LeaveNode, Active
<1>2. Popped /\ Top = calls[Depth] /\ IsStack(calls')
  BY <1>1, PopShape, TopKind DEF StackInv
<1>3. Len(walks) \in Nat \ {0} /\ walks \in Seq(BOOLEAN) /\ Len(walks) \in 1..Len(walks)
  BY <1>1, WalkerWalks DEF OpenInv
<1>4. Object.stop \in BOOLEAN
  BY ObjectShape DEF ObjectSet
<1>5. CASE Top.opens
  <2>1. OpenInv'
    BY <1>1, <1>2, <1>5, FrontWalks, PopKeepsOpen
  <2>2. calls' # <<>> => HandsOn'
    BY <1>1, <1>2, <1>5, Below DEF Waits, HandsOn
  <2> QED BY <1>1, <2>1, <2>2, SameObjects
<1>6. CASE ~Top.opens
  <2>1. walks' \in Seq(BOOLEAN) /\ Len(walks') = Len(walks) /\ (Object.stop => Last(walks'))
    <3>1. CASE Top.phase = "applied"
      <4> DEFINE w == [walks EXCEPT ![Len(walks)] = Object.stop]
      <4>1. /\ w \in Seq(BOOLEAN) /\ Len(w) = Len(walks)
            /\ w[Len(walks)] = Object.stop
        BY <1>3, <1>4, ExceptSeq
      <4>2. walks' = w
        BY <1>1, <1>6, <3>1
      <4> HIDE DEF w
      <4> QED BY <4>1, <4>2 DEF Last
    <3>2. CASE Top.phase # "applied"
      BY <1>1, <1>3, <1>6, <3>2
    <3> QED BY <3>1, <3>2
  <2>2. OpenInv'
    BY <1>2, <1>6, <2>1, PopKeepsOpen
  <2>3. calls' # <<>> /\ Object.stop => HandsOn'
    BY <1>1, <1>2, <1>6, <2>1, Below DEF Waits, HandsOn
  <2> QED BY <1>1, <2>2, <2>3, SameObjects
<1> QED BY <1>5, <1>6

LEMMA FindsBoolean ==
  ASSUME NEW c, NEW node, NEW method
  PROVE  Finds(c, node, method) \in BOOLEAN
  BY DEF Finds

\* A visit of the client.
LEMMA ClientVisitStops ==
  ASSUME StackInv, OpenInv, ObjectInv, ClientVisit
  PROVE  OpenInv' /\ ObjectInv'
<1> DEFINE o == After(Object, client, Top.node, Top.method)
           now == [objects EXCEPT ![Len(objects)] = o]
<1>1. /\ calls # <<>> /\ Top.by = "client" /\ Top.phase = "entered"
      /\ client' = client
  BY DEF ClientVisit, Dispatched, Active
<1>2. Object = objects[Len(objects)] /\ Object \in ObjectSet
  BY ObjectShape DEF Count
<1>3. /\ o \in ObjectSet
      /\ ~client.stops /\ Top.method \notin client.halts => ~o.stop
      /\ client.stops /\ Top.method \in client.overwrites
           /\ ~Finds(client, Top.node, Top.method) => ~o.stop
  BY <1>1, <1>2, AfterFields, NotStopped
<1>4. [objects EXCEPT ![Len(objects)] = After(@, client, Top.node, Top.method)] = now
  BY <1>2
<1> HIDE DEF o
<1>5. /\ now \in Seq(ObjectSet) /\ Len(now) = Count /\ now[Count] = o /\ now # <<>>
      /\ \A i \in 1..Count - 1 : ~now[i].stop
  BY <1>3, VisitObjects
<1>6. Count \in Nat \ {0} /\ \A i \in 1..Count : i = Count \/ i \in 1..Count - 1
  BY ObjectShape
<1>7. CASE WalksInit(Top.node, Top.method)
  <2> DEFINE f == Going(Top, "init", <<>>)
             g == Call("walker", Initializer(Top.node)[1], TRUE)
  <2>1. /\ calls' = Append(With("init", <<>>), g) /\ walks' = Append(walks, FALSE)
        /\ objects' = IF client.inits = "new" THEN Append(now, NewObject) ELSE now
        /\ client.inits # "none" /\ Top.method = "DeclarationExp"
        /\ ~(Top.method \in client.overwrites /\ Finds(client, Top.node, Top.method))
    BY <1>4, <1>7 DEF ClientVisit, WalksInit
  <2> HIDE DEF now
  <2>2. IsCall(g) /\ g.opens = TRUE /\ g.by = "walker" /\ g.phase = "entered"
    BY DEF Call, IsCall
  <2>3. f.by = calls[Depth].by /\ f.opens = calls[Depth].opens
    BY <1>1, TopKind, GoingFields
  <2> HIDE DEF g
  <2>4. Called(f, g) /\ IsStack(calls')
    BY <1>1, <2>1, <2>2, CallShape DEF StackInv
  <2> HIDE DEF f
  <2>5. OpenInv'
    <3>1. walks' \in Seq(BOOLEAN) /\ Len(walks') = Len(walks) + 1
      BY <2>1, AppendProperties DEF OpenInv
    <3> QED BY <2>2, <2>3, <2>4, <3>1, CallKeepsOpen
  <2>6. ~o.stop
    BY <1>3, <2>1 DEF ObjectInv, ClientOK
  <2>7. \A i \in 1..Count : ~now[i].stop
    BY <1>5, <1>6, <2>6
  <2>8. NewObject \in ObjectSet /\ ~NewObject.stop
    BY DEF NewObject, ObjectSet
  <2>9. CASE client.inits = "new"
    <3>1. objects' = Append(now, NewObject)
      BY <2>1, <2>9
    <3>2. /\ objects' \in Seq(ObjectSet) /\ objects' # <<>> /\ Len(objects') = Count + 1
          /\ \A i \in 1..Count : objects'[i] = now[i]
          /\ objects'[Count + 1] = NewObject
      BY <1>5, <2>8, <3>1, AppendProperties
    <3>3. \A i \in 1..Count + 1 : ~objects'[i].stop
      <4>1. \A i \in 1..Count + 1 : i = Count + 1 \/ i \in 1..Count
        BY <1>6
      <4> QED BY <2>7, <2>8, <3>2, <4>1
    <3>4. ~Object'.stop /\ Count' = Count + 1 /\ Count + 1 \in 1..Count + 1
      BY <1>6, <2>8, <3>2 DEF Object, Count
    <3>5. ClientOK'
      BY <1>1 DEF ClientOK, ObjectInv
    <3>6. \A i \in 1..Count' - 1 : i \in 1..Count + 1
      BY <1>6, <3>4
    <3>7. ObjectInv'
      BY <3>2, <3>3, <3>4, <3>5, <3>6 DEF ObjectInv
    <3> QED BY <2>5, <3>7
  <2>10. CASE client.inits # "new"
    <3>1. objects' = now
      BY <2>1, <2>10
    <3>2. Count' = Count /\ ~Object'.stop
      BY <1>5, <2>6, <3>1 DEF Object, Count
    <3>3. ClientOK'
      BY <1>1 DEF ClientOK, ObjectInv
    <3>4. ObjectInv'
      BY <1>1, <1>5, <3>1, <3>2, <3>3 DEF ObjectInv
    <3> QED BY <2>5, <3>4
  <2> QED BY <2>5, <2>9, <2>10
<1>8. CASE ~WalksInit(Top.node, Top.method)
  <2>1. calls' = Front(calls) /\ objects' = now /\ walks' = walks
    BY <1>4, <1>8 DEF ClientVisit
  <2> HIDE DEF now
  <2>2. Popped /\ Top = calls[Depth] /\ IsStack(calls') /\ calls[Depth].opens = FALSE
    BY <1>1, <2>1, PopShape, TopKind DEF StackInv, KindOK
  <2>3. OpenInv'
    BY <2>1, <2>2, PopKeepsOpen DEF OpenInv
  <2>4. calls' # <<>> => HandsOn'
    BY <1>1, <2>2, Below DEF Waits, HandsOn
  <2>5. Count' = Count
    BY <1>5, <2>1 DEF Count
  <2>6. ClientOK'
    BY <1>1 DEF ClientOK, ObjectInv
  <2>7. ObjectInv'
    BY <1>1, <1>5, <2>1, <2>4, <2>5, <2>6 DEF ObjectInv
  <2> QED BY <2>3, <2>7
<1> QED BY <1>7, <1>8

\* The walk of an initializer ends: its client's answer is taken over.
LEMMA InitWalkedStops ==
  ASSUME StackInv, OpenInv, ObjectInv, InitWalked
  PROVE  OpenInv' /\ ObjectInv'
<1>1. /\ calls # <<>> /\ Top.by = "client" /\ Top.phase = "init"
      /\ calls' = Front(calls) /\ client' = client /\ walks' = walks
  BY DEF InitWalked, Active
<1>2. Popped /\ Top = calls[Depth] /\ IsStack(calls') /\ calls[Depth].opens = FALSE
  BY <1>1, PopShape, TopKind DEF StackInv, KindOK
<1>3. OpenInv'
  BY <1>1, <1>2, PopKeepsOpen DEF OpenInv
<1>4. calls' # <<>> => HandsOn'
  BY <1>1, <1>2, Below DEF Waits, HandsOn
<1>5. /\ Count \in Nat \ {0} /\ Object \in ObjectSet /\ Object = objects[Count]
      /\ \A i \in 1..Count : i = Count \/ i \in 1..Count - 1
  BY ObjectShape
<1>6. ClientOK'
  BY <1>1 DEF ClientOK, ObjectInv
<1>7. CASE client.inits = "same"
  <2>1. objects' = objects
    BY <1>7 DEF InitWalked
  <2> QED BY <1>1, <1>3, <1>4, <2>1, SameObjects
<1>8. CASE client.inits # "same"
  <2> DEFINE rest == SubSeq(objects, 1, Len(objects) - 2)
             old == objects[Len(objects) - 1]
             kept == "DeclarationExp" \notin client.overwrites /\ old.finding
             o == [stop |-> old.stop \/ (client.stops /\ Object.stop),
                   finding |-> Object.finding \/ kept]
  <2>1. objects' = Append(rest, o)
    BY <1>8 DEF InitWalked
  <2>2. o \in ObjectSet
    BY DEF ObjectSet
  <2> HIDE DEF o
  <2>3. /\ rest \in Seq(ObjectSet) /\ Len(rest) \in Nat /\ Len(rest) <= Count - 1
        /\ \A i \in 1..Len(rest) : rest[i] = objects[i]
    <3>1. Len(objects) = Count /\ Count - 2 \in Int /\ 1 \in Int
      BY <1>5 DEF Count
    <3>2. \A i \in 1..Count - 2 : objects[i] \in ObjectSet
      BY <1>5, <3>1, ElementOfSeq DEF ObjectInv
    <3>3. /\ SubSeq(objects, 1, Count - 2) \in Seq(ObjectSet)
          /\ Len(SubSeq(objects, 1, Count - 2)) =
               IF 1 <= Count - 2 THEN (Count - 2) - 1 + 1 ELSE 0
          /\ \A i \in 1..(Count - 2) - 1 + 1 :
               SubSeq(objects, 1, Count - 2)[i] = objects[1 + i - 1]
      BY <3>1, <3>2, SubSeqProperties
    <3>4. rest = SubSeq(objects, 1, Count - 2)
      BY <3>1
    <3> HIDE DEF rest
    <3>5. Len(rest) \in Nat /\ Len(rest) <= Count - 1
      BY <1>5, <3>3, <3>4
    <3>6. \A i \in 1..Len(rest) : rest[i] = objects[i]
      BY <1>5, <3>3, <3>4
    <3> QED BY <3>3, <3>4, <3>5, <3>6
  <2> HIDE DEF rest
  <2>4. /\ objects' \in Seq(ObjectSet) /\ objects' # <<>> /\ Len(objects') = Len(rest) + 1
        /\ \A i \in 1..Len(rest) : objects'[i] = rest[i]
        /\ objects'[Len(rest) + 1] = o
    BY <2>1, <2>2, <2>3, AppendProperties
  <2>5. Count' = Len(rest) + 1 /\ Object' = o
    BY <2>4 DEF Count, Object
  <2>6. \A i \in 1..Count' - 1 : ~objects'[i].stop
    <3>1. \A i \in 1..Count' - 1 : i \in 1..Len(rest) /\ i \in 1..Count - 1
      BY <1>5, <2>3, <2>5
    <3> QED BY <2>3, <2>4, <3>1 DEF ObjectInv
  <2>7. ObjectInv'
    BY <1>4, <1>6, <2>4, <2>6 DEF ObjectInv
  <2> QED BY <1>3, <2>7
<1> QED BY <1>7, <1>8

LEMMA StopsInit ==
  ASSUME VisitsAssumption, Init
  PROVE  OpenInv /\ ObjectInv
<1>1. PICK visit \in Visits :
        /\ client = visit.client /\ visit.walk \in BOOLEAN
        /\ calls = <<Call(IF visit.walk THEN "walker" ELSE "client", visit.tree.root,
                          visit.walk)>>
        /\ walks = IF visit.walk THEN <<FALSE>> ELSE <<>>
  <2>1. PICK visit \in Visits :
          /\ tree = visit.tree /\ client = visit.client
          /\ calls = <<Call(IF visit.walk THEN "walker" ELSE "client", tree.root,
                            visit.walk)>>
          /\ walks = IF visit.walk THEN <<FALSE>> ELSE <<>>
    BY DEF Init
  <2> QED BY <2>1 DEF VisitsAssumption
<1> DEFINE by == IF visit.walk THEN "walker" ELSE "client"
           g == Call(by, visit.tree.root, visit.walk)
<1>2. g.by = by /\ g.opens = visit.walk
  BY CallFields
<1>3. calls = <<g>>
  BY <1>1
<1> HIDE DEF g
<1>4. Depth = 1 /\ calls[1] = g /\ 1 \in 1..1
  BY <1>3 DEF Depth
<1>5. OpenInv
  <2>1. Opening = IF visit.walk THEN {1} ELSE {}
    BY <1>2, <1>4 DEF Opening
  <2>2. Cardinality({}) = 0 /\ Cardinality({1}) = 1
    BY FS_EmptySet, FS_Singleton
  <2>3. walks \in Seq(BOOLEAN) /\ Len(walks) = Cardinality(Opening)
    <3>1. CASE visit.walk
      BY <1>1, <2>1, <2>2, <3>1
    <3>2. CASE ~visit.walk
      BY <1>1, <2>1, <2>2, <3>2
    <3> QED BY <3>1, <3>2
  <2>4. \A k \in 1..Depth : calls[k].by = "walker" => \E j \in 1..k : calls[j].opens
    BY <1>2, <1>4
  <2> QED BY <2>3, <2>4 DEF OpenInv
<1>6. /\ objects = <<NewObject>> /\ NewObject \in ObjectSet /\ ~NewObject.stop
  BY DEF Init, NewObject, ObjectSet
<1>7. /\ objects \in Seq(ObjectSet) /\ objects # <<>> /\ Count = 1 /\ Object = NewObject
      /\ \A i \in 1..Count : ~objects[i].stop
  BY <1>6 DEF Count, Object
<1>8. ClientOK
  BY <1>1 DEF ClientOK, VisitsAssumption
<1>9. ObjectInv
  BY <1>6, <1>7, <1>8 DEF ObjectInv
<1> QED BY <1>5, <1>9

LEMMA StopsNext ==
  ASSUME StackInv, OpenInv, ObjectInv, [Next]_vars
  PROVE  OpenInv' /\ ObjectInv'
<1>1. CASE Forward
  BY <1>1, ForwardStops
<1>2. CASE LiteralAgain
  BY <1>2, LiteralAgainStops
<1>3. CASE EnterNode
  BY <1>3, EnterNodeStops
<1>4. CASE NextPart \/ Apply
  BY <1>4, PartStops
<1>5. CASE LeaveNode
  BY <1>5, LeaveNodeStops
<1>6. CASE ClientVisit
  BY <1>6, ClientVisitStops
<1>7. CASE InitWalked
  BY <1>7, InitWalkedStops
<1>8. CASE UNCHANGED vars
  <2>1. UNCHANGED <<client, calls, walks, objects>>
    BY <1>8 DEF vars
  <2> QED BY <2>1 DEF OpenInv, Opening, Depth, ObjectInv, ClientOK, Count, Object, HandsOn, Top
<1> QED BY <1>1, <1>2, <1>3, <1>4, <1>5, <1>6, <1>7, <1>8 DEF Next, Done

\* While there is a client that has said stop nothing is visited, by it or by one
\* that it waits for: on the way back through walkers each takes over the stop before
\* it does anything else (apply.d:32-45), and canThrow hands it on to the client around
\* it (canthrow.d:57-60); VarWalker's ends with its own walk (dinterpret.d:435).
THEOREM StopsCorrect == Spec => StopHolds
<1> DEFINE Inv == StackInv /\ FlagInv /\ OpenInv /\ ObjectInv
           Stopped == \E i \in DOMAIN objects : objects[i].stop
           Step == [Stopped => UNCHANGED visited]_vars
<1>1. Init => Inv
  BY VisitsAssumption, InitOK, StopsInit
<1>2. Inv /\ [Next]_vars => Inv'
  BY NextOK, StopsNext
<1>3. Inv /\ [Next]_vars => Step
  <2> SUFFICES ASSUME Inv, Next, Stopped
               PROVE  visited' = visited
    BY DEF vars
  <2>1. CASE ClientVisit
    <3>1. \A i \in 1..Count : ~objects[i].stop
      BY <2>1, NotStopped DEF ClientVisit, Dispatched, Active
    <3>2. DOMAIN objects = 1..Count
      BY LenProperties DEF ObjectInv, Count
    <3> QED BY <3>1, <3>2
  <2>2. CASE ~ClientVisit
    BY <2>2 DEF Next, Forward, LiteralAgain, EnterNode, NextPart, Apply, LeaveNode,
                InitWalked, Done, vars
  <2> QED BY <2>1, <2>2
<1> HIDE DEF Inv
<1> QED BY <1>1, <1>2, <1>3, PTL DEF Spec, StopHolds
====
