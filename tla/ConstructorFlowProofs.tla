----------------------- MODULE ConstructorFlowProofs -----------------------
(* Proofs about ConstructorFlow, for all fields and bounds, if loops and    *)
(* switches contain no exits: an accepted constructor skips no field and    *)
(* constructs once, a field initialised twice is seen, no complaint about   *)
(* calls is a false alarm, and the order of branches does not matter.       *)
EXTENDS ConstructorFlow, SequenceTheorems, TLAPS

-----------------------------------------------------------------------------
(* The invariant.  Each flow is read as a statement about the executions P  *)
(* that it is the flow of.                                                  *)

Dead(P) == Running(P) = {}

GoodPath(p, v) == p.delegated \/ p.inits[v] > 0

Filled(P, v) == \A p \in Running(P) : GoodPath(p, v)

\* v was initialised before the part that frame i is at.
Below(fs, i, v) == \E j \in 1..i : Filled(fs[j].before, v)

\* What the flags x of v say: P, or what came before, initialises v; P has ended.
FieldSound(x, P, fs, i, v) ==
    /\ "this_ctor" \in x => Below(fs, i, v) \/ Filled(P, v)
    /\ "halt" \in x \/ "return_" \in x => Dead(P)

HasCalled(c) == "this_ctor" \in c \/ "super_ctor" \in c

\* What callSuper says of P, and what it says of the flags x of a field.
CallSound(c, x, P) ==
    /\ "halt" \in c => Dead(P)
    /\ "return_" \in c /\ "any_ctor" \in c => Dead(P)
    /\ HasCalled(c) => "any_ctor" \in c
    /\ HasCalled(c) /\ Dead(P) => "halt" \in c \/ "return_" \in c
    /\ "return_" \in c /\ "any_ctor" \in c => HasCalled(c) \/ "halt" \in c
    /\ "this_ctor" \in c => "this_ctor" \in x \/ Dead(P)

Sound(f, P, fs, i, v) == /\ FieldSound(f.fieldinit[v], P, fs, i, v)
                         /\ CallSound(f.callSuper, f.fieldinit[v], P)

\* What callSuper was when a part began (s) is not lost on the way to c.
Grows(s, c) ==
    /\ "return_" \in s => "any_ctor" \notin c /\ ("return_" \in c \/ "halt" \in c)
    /\ "any_ctor" \in s => "any_ctor" \in c \/ "halt" \in c
    /\ HasCalled(s) => HasCalled(c) \/ "halt" \in c

\* No field becomes initialised in a loop.
NothingNew(s, f, v) == "this_ctor" \in f.fieldinit[v] => "this_ctor" \in s.fieldinit[v]

NoExitKinds == {"for", "switch"}

\* The flow f, of the executions P, against the frames 1..n around it.
Follows(f, P, fs, n, v) ==
    \A j \in 1..n : /\ Grows(fs[j].scope.callSuper, f.callSuper)
                    /\ fs[j].kind \in LoopKinds => NothingNew(fs[j].scope, f, v)
                    /\ fs[j].kind \in NoExitKinds => ~Dead(P)

\* Executions that returned initialised v, unless it was before.
Returned(P, fs, i, v) ==
    \A p \in P : p.ended = "return" => Below(fs, i, v) \/ GoodPath(p, v)

SecondParts == {"else", "second"}

\* The executions that end in the saved flow.
SavedPart(frame) == IF frame.kind \in SecondParts THEN frame.siblings ELSE {Nothing}

FrameInv(fs, i, v) ==
    /\ ~Dead(fs[i].before)
    /\ Returned(fs[i].before, fs, i-1, v)
    /\ Returned(fs[i].siblings, fs, i, v)
    /\ fs[i].kind \in {"then", "first"} => fs[i].siblings = {}
    /\ Sound(fs[i].scope, {Nothing}, fs, i, v)
    /\ Sound(fs[i].saved, SavedPart(fs[i]), fs, i, v)
    /\ Follows(fs[i].scope, {Nothing}, fs, i-1, v)
    /\ Follows(fs[i].saved, SavedPart(fs[i]), fs, i-1, v)

Fits(f, P, fs, v) ==
    /\ Sound(f, P, fs, Len(fs), v)
    /\ Follows(f, P, fs, Len(fs), v)
    /\ Returned(P, fs, Len(fs), v)
    /\ \A i \in 1..Len(fs) : FrameInv(fs, i, v)

FlowInv == stage = "analysing" /\ errors = {}
               => \A v \in MustInit : Fits(flow, paths, frames, v)

IInv == Typed /\ FlowInv

-----------------------------------------------------------------------------
(* Executions one after the other. *)

\* Whether one of two executions in a row initialises v is told by the result.
LEMMA ThenPath ==
    ASSUME NEW p \in Path, NEW q \in Path
    PROVE  /\ Then(p, q) \in Path
           /\ Then(p, q).ended = q.ended
           /\ \A v \in Fields :
                 GoodPath(Then(p, q), v) <=> GoodPath(p, v) \/ GoodPath(q, v)
<1>1. \A m, n \in 0..2 :
         /\ AtMostTwice(m + n) \in 0..2
         /\ AtMostTwice(m + n) > 0 <=> m > 0 \/ n > 0
  BY DEF AtMostTwice
<1>2. /\ p.ctors \in 0..2 /\ q.ctors \in 0..2
      /\ p.inits \in [Fields -> 0..2] /\ q.inits \in [Fields -> 0..2]
      /\ p.delegated \in BOOLEAN /\ q.delegated \in BOOLEAN
      /\ q.ended \in {"no", "return", "halt"}
  BY DEF Path
<1>3. Then(p, q) \in Path
  <2>1. Then(p, q).ctors \in 0..2
    BY <1>1, <1>2 DEF Then
  <2>2. \A v \in Fields : (IF p.delegated THEN p.inits[v]
                           ELSE AtMostTwice(p.inits[v] + q.inits[v])) \in 0..2
    BY <1>1, <1>2
  <2>3. Then(p, q).inits \in [Fields -> 0..2]
    BY <2>2 DEF Then
  <2>4. (p.delegated \/ q.delegated) \in BOOLEAN
    OBVIOUS
  <2>5. QED
    BY <1>2, <2>1, <2>3, <2>4 DEF Then, Path
<1>4. ASSUME NEW v \in Fields
      PROVE  GoodPath(Then(p, q), v) <=> GoodPath(p, v) \/ GoodPath(q, v)
  <2>1. /\ p.inits[v] \in 0..2 /\ q.inits[v] \in 0..2
    BY <1>2
  <2>2. CASE p.delegated
    BY <2>2 DEF Then, GoodPath
  <2>3. CASE ~p.delegated
    <3>1. Then(p, q).inits[v] = AtMostTwice(p.inits[v] + q.inits[v])
      BY <2>3 DEF Then
    <3>2. Then(p, q).delegated <=> q.delegated
      BY <2>3 DEF Then
    <3>3. Then(p, q).inits[v] > 0 <=> p.inits[v] > 0 \/ q.inits[v] > 0
      BY <1>1, <2>1, <3>1
    <3>4. QED
      BY <2>3, <3>2, <3>3 DEF GoodPath
  <2>4. QED
    BY <2>2, <2>3
<1>5. QED
  BY <1>3, <1>4 DEF Then

\* The executions that go on after both P and Q.
LEMMA ExtendRuns ==
    ASSUME NEW P, P \subseteq Path, NEW Q, Q \subseteq Path
    PROVE  /\ Extend(P, Q) \subseteq Path
           /\ \A p \in Running(P), q \in Running(Q) :
                 Then(p, q) \in Running(Extend(P, Q))
           /\ \A r \in Running(Extend(P, Q)) :
                 \E p \in Running(P), q \in Running(Q) : r = Then(p, q)
  BY ThenPath DEF Extend, Running

LEMMA ExtendDead ==
    ASSUME NEW P, P \subseteq Path, NEW Q, Q \subseteq Path
    PROVE  Dead(Extend(P, Q)) <=> Dead(P) \/ Dead(Q)
  BY ExtendRuns DEF Dead

LEMMA ExtendFilled ==
    ASSUME NEW P, P \subseteq Path, NEW Q, Q \subseteq Path, NEW v \in Fields,
           Filled(P, v) \/ Filled(Q, v)
    PROVE  Filled(Extend(P, Q), v)
<1>1. Running(P) \subseteq Path /\ Running(Q) \subseteq Path
  BY DEF Running
<1>2. QED
  BY <1>1, ExtendRuns, ThenPath DEF Filled

\* What returned in Q has initialised v, if P has not.
LEMMA ExtendReturned ==
    ASSUME NEW P, P \subseteq Path, NEW Q, Q \subseteq Path, NEW v \in Fields,
           NEW fs, NEW i, Returned(P, fs, i, v),
           \A q \in Q : q.ended = "return" =>
               Below(fs, i, v) \/ Filled(P, v) \/ GoodPath(q, v)
    PROVE  Returned(Extend(P, Q), fs, i, v)
<1> SUFFICES ASSUME NEW r \in Extend(P, Q), r.ended = "return", ~Below(fs, i, v)
             PROVE  GoodPath(r, v)
  BY DEF Returned
<1>1. CASE r \in P
  BY <1>1 DEF Returned
<1>2. CASE r \notin P
  <2>1. PICK p \in Running(P), q \in Q : r = Then(p, q)
    BY <1>2 DEF Extend
  <2>2. p \in Path /\ q \in Path
    BY DEF Running
  <2>3. q.ended = "return"
    BY <2>1, <2>2, ThenPath
  <2>4. GoodPath(p, v) \/ GoodPath(q, v)
    BY <2>3 DEF Filled
  <2>5. QED
    BY <2>1, <2>2, <2>4, ThenPath
<1>3. QED
  BY <1>1, <1>2

\* Repeating P changes none of this.
LEMMA RepeatLike ==
    ASSUME NEW P, P \subseteq Path, NEW v \in Fields, NEW fs, NEW i
    PROVE  /\ Repeat(P) \subseteq Path
           /\ Dead(Repeat(P)) <=> Dead(P)
           /\ Filled(P, v) => Filled(Repeat(P), v)
           /\ Returned(P, fs, i, v) => Returned(Repeat(P), fs, i, v)
<1>1. Repeat(P) \subseteq Path
  BY ExtendRuns DEF Repeat
<1>2. Running(Repeat(P)) = Running(P) \cup Running(Extend(P, P))
  BY DEF Repeat, Running
<1>3. Dead(Repeat(P)) <=> Dead(P)
  BY <1>2, ExtendDead DEF Dead
<1>4. Filled(P, v) => Filled(Repeat(P), v)
  BY <1>2, ExtendFilled DEF Filled
<1>5. Returned(P, fs, i, v) => Returned(Repeat(P), fs, i, v)
  <2> SUFFICES ASSUME Returned(P, fs, i, v)
               PROVE  Returned(Repeat(P), fs, i, v)
    OBVIOUS
  <2>1. Returned(Extend(P, P), fs, i, v)
    <3>1. \A q \in P : q.ended = "return" =>
             Below(fs, i, v) \/ Filled(P, v) \/ GoodPath(q, v)
      BY DEF Returned
    <3>2. QED
      BY <3>1, ExtendReturned
  <2>2. QED
    BY <2>1 DEF Repeat, Returned
<1>6. QED
  BY <1>1, <1>3, <1>4, <1>5

\* An execution that has done nothing yet.
LEMMA NothingRuns ==
    /\ Nothing \in Path /\ Nothing.ended = "no" /\ {Nothing} \subseteq Path
    /\ ~Dead({Nothing})
    /\ \A v \in Fields : ~GoodPath(Nothing, v) /\ ~Filled({Nothing}, v)
    /\ \A fs, i, v : Returned({Nothing}, fs, i, v)
<1>1. Nothing \in Path /\ Nothing.ended = "no" /\ ~Nothing.delegated
  BY DEF Nothing, Path
<1>2. \A v \in Fields : Nothing.inits[v] = 0
  BY DEF Nothing
<1>3. Running({Nothing}) = {Nothing}
  BY <1>1 DEF Running
<1>4. QED
  BY <1>1, <1>2, <1>3 DEF Dead, Filled, GoodPath, Returned

\* The effects of the pieces.
LEMMA Effects ==
    /\ \A d \in BOOLEAN :
          LET q == [Nothing EXCEPT !.ctors = 1, !.delegated = d]
          IN  q \in Path /\ q.ended = "no" /\ (d => \A v : GoodPath(q, v))
    /\ \A w \in Fields :
          LET q == [Nothing EXCEPT !.inits[w] = 1]
          IN  q \in Path /\ q.ended = "no" /\ GoodPath(q, w)
    /\ \A how \in {"halt", "return"} :
          LET q == [Nothing EXCEPT !.ended = how]
          IN  q \in Path /\ q.ended = how
<1>1. Nothing \in Path /\ Nothing.ended = "no"
  BY NothingRuns
<1>2. 1 \in 0..2 /\ 1 > 0
  OBVIOUS
<1>3. ASSUME NEW d \in BOOLEAN
      PROVE  LET q == [Nothing EXCEPT !.ctors = 1, !.delegated = d]
             IN  q \in Path /\ q.ended = "no" /\ (d => \A v : GoodPath(q, v))
  BY <1>1, <1>2 DEF Path, GoodPath
<1>4. ASSUME NEW w \in Fields
      PROVE  LET q == [Nothing EXCEPT !.inits[w] = 1]
             IN  q \in Path /\ q.ended = "no" /\ GoodPath(q, w)
  BY <1>1, <1>2 DEF Path, GoodPath
<1>5. ASSUME NEW how \in {"halt", "return"}
      PROVE  LET q == [Nothing EXCEPT !.ended = how]
             IN  q \in Path /\ q.ended = how
  BY <1>1 DEF Path
<1>6. QED
  BY <1>3, <1>4, <1>5

-----------------------------------------------------------------------------
(* The flags. *)

LEMMA CtorsCalled ==
    ASSUME NEW c
    PROVE  c \cap Ctors # {} <=> HasCalled(c)
  BY DEF Ctors, HasCalled

\* Of two merged flags callSuper, the result says what both say.
LEMMA MergeCalls ==
    ASSUME NEW a, NEW b, NEW x, NEW y, NEW P, NEW Q,
           CallSound(a, x, P), CallSound(b, y, Q),
           "halt" \in x \/ "return_" \in x => Dead(P),
           "halt" \in y \/ "return_" \in y => Dead(Q),
           mergeCallSuper(a, b).ok, mergeFieldInit(x, y).ok
    PROVE  CallSound(mergeCallSuper(a, b).csx, mergeFieldInit(x, y).csx, P \cup Q)
<1> DEFINE c == mergeCallSuper(a, b).csx
           z == mergeFieldInit(x, y).csx
<1>1. Dead(P \cup Q) <=> Dead(P) /\ Dead(Q)
  BY DEF Dead, Running
<1>2. /\ "halt" \in c => Dead(P) /\ Dead(Q)
      /\ "return_" \in c /\ "any_ctor" \in c => Dead(P) /\ Dead(Q)
  BY CtorsCalled DEF CallSound, HasCalled, mergeCallSuper, Merged
<1>3. /\ HasCalled(c) => "any_ctor" \in c
      /\ "return_" \in c /\ "any_ctor" \in c => HasCalled(c) \/ "halt" \in c
      /\ HasCalled(c) /\ Dead(P) /\ Dead(Q) => "halt" \in c \/ "return_" \in c
  BY CtorsCalled DEF CallSound, HasCalled, mergeCallSuper, Merged
<1>4. "this_ctor" \in c => "this_ctor" \in z \/ (Dead(P) /\ Dead(Q))
  BY CtorsCalled DEF CallSound, HasCalled, mergeCallSuper, mergeFieldInit, Merged
<1>5. QED
  BY <1>1, <1>2, <1>3, <1>4 DEF CallSound

\* Of two merged flags of a field, too.
LEMMA MergeFields ==
    ASSUME NEW x, NEW y, NEW P, NEW Q, NEW fs, NEW i, NEW v,
           FieldSound(x, P, fs, i, v), FieldSound(y, Q, fs, i, v),
           mergeFieldInit(x, y).ok
    PROVE  FieldSound(mergeFieldInit(x, y).csx, P \cup Q, fs, i, v)
<1> DEFINE z == mergeFieldInit(x, y).csx
<1>1. /\ Dead(P \cup Q) <=> Dead(P) /\ Dead(Q)
      /\ Filled(P \cup Q, v) <=> Filled(P, v) /\ Filled(Q, v)
      /\ Dead(P) => Filled(P, v)
      /\ Dead(Q) => Filled(Q, v)
  BY DEF Dead, Filled, Running
<1>2. "this_ctor" \in z => Below(fs, i, v) \/ (Filled(P, v) /\ Filled(Q, v))
  BY <1>1 DEF FieldSound, mergeFieldInit, Merged
<1>3. "halt" \in z \/ "return_" \in z => Dead(P) /\ Dead(Q)
  BY DEF FieldSound, mergeFieldInit, Merged
<1>4. QED
  BY <1>1, <1>2, <1>3 DEF FieldSound

\* A merge loses nothing that both flows have from before.
LEMMA MergeGrows ==
    ASSUME NEW s, NEW a, NEW b, Grows(s, a), Grows(s, b)
    PROVE  Grows(s, mergeCallSuper(a, b).csx)
  BY CtorsCalled DEF Grows, HasCalled, mergeCallSuper, Merged

\* What a merge makes initialised, one of the two was.
LEMMA MergeOld ==
    ASSUME NEW x, NEW y, "this_ctor" \in mergeFieldInit(x, y).csx
    PROVE  "this_ctor" \in x \/ "this_ctor" \in y
  BY DEF mergeFieldInit, Merged

LEMMA MergeTypes ==
    ASSUME NEW a \in SUBSET CSX, NEW b \in SUBSET CSX
    PROVE  /\ mergeCallSuper(a, b).csx \in SUBSET CSX
           /\ mergeFieldInit(a, b).csx \in SUBSET CSX
<1>1. {"halt", "any_ctor", "label", "return_"} \subseteq CSX
  BY DEF CSX
<1>2. /\ mergeCallSuper(a, b).csx \subseteq
            a \cup b \cup {"halt", "any_ctor", "label", "return_"}
      /\ mergeFieldInit(a, b).csx \subseteq a \cup b \cup {"halt"}
  BY DEF mergeCallSuper, mergeFieldInit, Merged
<1>3. QED
  BY <1>1, <1>2

\* Flows whose flags differ in what no property here reads.
Alike(f, g, v) ==
    /\ \A bit \in {"this_ctor", "super_ctor", "any_ctor", "halt", "return_"} :
          bit \in f.callSuper <=> bit \in g.callSuper
    /\ \A bit \in {"this_ctor", "halt", "return_"} :
          bit \in f.fieldinit[v] <=> bit \in g.fieldinit[v]

LEMMA LabelAlike ==
    ASSUME NEW f, NEW v \in Fields
    PROVE  Alike(orCSX(f, "label"), f, v)
  BY DEF Alike, orCSX

LEMMA AlikeFlows ==
    ASSUME NEW f, NEW g, NEW P, NEW fs, NEW i, NEW v, Alike(f, g, v)
    PROVE  /\ Sound(g, P, fs, i, v) => Sound(f, P, fs, i, v)
           /\ \A n : Follows(g, P, fs, n, v) => Follows(f, P, fs, n, v)
<1>1. Sound(g, P, fs, i, v) => Sound(f, P, fs, i, v)
  BY DEF Alike, Sound, FieldSound, CallSound, HasCalled
<1>2. \A s : Grows(s, g.callSuper) => Grows(s, f.callSuper)
  BY DEF Alike, Grows, HasCalled
<1>3. \A s : NothingNew(s, g, v) => NothingNew(s, f, v)
  BY DEF Alike, NothingNew
<1>4. QED
  BY <1>1, <1>2, <1>3 DEF Follows

-----------------------------------------------------------------------------
(* The frames. *)

\* What is said of a frame depends on it and those around it only.
LEMMA SameBefore ==
    ASSUME NEW fs, NEW gs, NEW m \in Nat, NEW v,
           \A i \in 1..m : gs[i].before = fs[i].before
    PROVE  \A i \in 0..m : /\ Below(gs, i, v) <=> Below(fs, i, v)
                           /\ \A f, P : Sound(f, P, gs, i, v) <=> Sound(f, P, fs, i, v)
                           /\ \A P : Returned(P, gs, i, v) <=> Returned(P, fs, i, v)
<1>1. \A i \in 0..m : Below(gs, i, v) <=> Below(fs, i, v)
  BY DEF Below
<1>2. QED
  BY <1>1 DEF Sound, FieldSound, Returned

LEMMA SamePrefix ==
    ASSUME NEW fs, NEW gs, NEW m \in Nat, NEW v, \A i \in 1..m : gs[i] = fs[i]
    PROVE  /\ \A i \in 0..m : \A f, P : Follows(f, P, gs, i, v) <=> Follows(f, P, fs, i, v)
           /\ \A i \in 1..m : FrameInv(gs, i, v) <=> FrameInv(fs, i, v)
<1>1. ASSUME NEW i \in 0..m, NEW f, NEW P
      PROVE  Follows(f, P, gs, i, v) <=> Follows(f, P, fs, i, v)
  <2>1. \A j \in 1..i : gs[j] = fs[j]
    OBVIOUS
  <2>2. QED
    BY <2>1 DEF Follows
<1>2. ASSUME NEW i \in 1..m
      PROVE  FrameInv(gs, i, v) <=> FrameInv(fs, i, v)
  <2>1. i \in 0..m /\ i-1 \in 0..m /\ gs[i] = fs[i]
    OBVIOUS
  <2>2. \A f, P : Sound(f, P, gs, i, v) <=> Sound(f, P, fs, i, v)
    BY <2>1, SameBefore
  <2>3. /\ \A P : Returned(P, gs, i, v) <=> Returned(P, fs, i, v)
        /\ \A P : Returned(P, gs, i-1, v) <=> Returned(P, fs, i-1, v)
    BY <2>1, SameBefore
  <2>4. \A f, P : Follows(f, P, gs, i-1, v) <=> Follows(f, P, fs, i-1, v)
    BY <1>1, <2>1
  <2>5. QED
    BY <2>1, <2>2, <2>3, <2>4 DEF FrameInv
<1>3. QED
  BY <1>1, <1>2

\* A part ends: what it adds to the flags of its scope says of it what it said.
LEMMA PopSound ==
    ASSUME NEW s, NEW f, NEW P, NEW fs, NEW i, NEW v \in Fields,
           Sound(s, {Nothing}, fs, i, v), Sound(f, P, fs, i, v),
           Grows(s.callSuper, f.callSuper)
    PROVE  Sound(OR(s, f), P, fs, i, v)
<1>1. /\ OR(s, f).callSuper = s.callSuper \cup f.callSuper
      /\ OR(s, f).fieldinit[v] = s.fieldinit[v] \cup f.fieldinit[v]
  BY DEF OR
<1>2. ~Dead({Nothing}) /\ ~Filled({Nothing}, v)
  BY NothingRuns
<1>3. FieldSound(OR(s, f).fieldinit[v], P, fs, i, v)
  BY <1>1, <1>2 DEF Sound, FieldSound
<1>4. CallSound(OR(s, f).callSuper, OR(s, f).fieldinit[v], P)
  BY <1>1, <1>2 DEF Sound, CallSound, Grows, HasCalled, FieldSound
<1>5. QED
  BY <1>3, <1>4 DEF Sound

LEMMA PopFollows ==
    ASSUME NEW s, NEW f, NEW P, NEW fs, NEW n, NEW v \in Fields,
           Follows(s, {Nothing}, fs, n, v), Follows(f, P, fs, n, v)
    PROVE  Follows(OR(s, f), P, fs, n, v)
<1>1. /\ OR(s, f).callSuper = s.callSuper \cup f.callSuper
      /\ OR(s, f).fieldinit[v] = s.fieldinit[v] \cup f.fieldinit[v]
  BY DEF OR
<1>2. \A c : Grows(c, s.callSuper) /\ Grows(c, f.callSuper)
               => Grows(c, OR(s, f).callSuper)
  BY <1>1 DEF Grows, HasCalled
<1>3. \A t : NothingNew(t, s, v) /\ NothingNew(t, f, v) => NothingNew(t, OR(s, f), v)
  BY <1>1 DEF NothingNew
<1>4. QED
  BY <1>2, <1>3 DEF Follows

\* Two branches end together without a complaint.
LEMMA MergeSound ==
    ASSUME NEW f, NEW g, NEW P, NEW Q, NEW fs, NEW i, NEW n, NEW v \in MustInit,
           Sound(f, P, fs, i, v), Sound(g, Q, fs, i, v),
           Follows(f, P, fs, n, v), Follows(g, Q, fs, n, v),
           MergeErrors(f, g) = {}
    PROVE  /\ Sound(MergeFlow(f, g), P \cup Q, fs, i, v)
           /\ Follows(MergeFlow(f, g), P \cup Q, fs, n, v)
<1>1. v \in Fields
  BY FieldsAssumption
<1>2. /\ MergeFlow(f, g).callSuper = mergeCallSuper(f.callSuper, g.callSuper).csx
      /\ MergeFlow(f, g).fieldinit[v] = mergeFieldInit(f.fieldinit[v], g.fieldinit[v]).csx
  BY <1>1 DEF MergeFlow
<1>3. /\ mergeCallSuper(f.callSuper, g.callSuper).ok
      /\ mergeFieldInit(f.fieldinit[v], g.fieldinit[v]).ok
  BY DEF MergeErrors
<1>4. Sound(MergeFlow(f, g), P \cup Q, fs, i, v)
  <2>1. FieldSound(MergeFlow(f, g).fieldinit[v], P \cup Q, fs, i, v)
    BY <1>2, <1>3, MergeFields DEF Sound
  <2>2. CallSound(MergeFlow(f, g).callSuper, MergeFlow(f, g).fieldinit[v], P \cup Q)
    <3>1. /\ CallSound(f.callSuper, f.fieldinit[v], P)
          /\ CallSound(g.callSuper, g.fieldinit[v], Q)
          /\ "halt" \in f.fieldinit[v] \/ "return_" \in f.fieldinit[v] => Dead(P)
          /\ "halt" \in g.fieldinit[v] \/ "return_" \in g.fieldinit[v] => Dead(Q)
      BY DEF Sound, FieldSound
    <3>2. QED
      BY <1>2, <1>3, <3>1, MergeCalls
  <2>3. QED
    BY <2>1, <2>2 DEF Sound
<1>5. Follows(MergeFlow(f, g), P \cup Q, fs, n, v)
  <2>1. \A c : Grows(c, f.callSuper) /\ Grows(c, g.callSuper)
                 => Grows(c, MergeFlow(f, g).callSuper)
    BY <1>2, MergeGrows
  <2>2. \A t : NothingNew(t, f, v) /\ NothingNew(t, g, v)
                 => NothingNew(t, MergeFlow(f, g), v)
    BY <1>2, MergeOld DEF NothingNew
  <2>3. Dead(P \cup Q) => Dead(P) /\ Dead(Q)
    BY DEF Dead, Running
  <2>4. QED
    BY <2>1, <2>2, <2>3 DEF Follows
<1>6. QED
  BY <1>4, <1>5

\* A statement or an operator with parts begins.
LEMMA OpenFits ==
    ASSUME NEW fs \in Seq(Frame), NEW gs, NEW v \in Fields,
           NEW f, NEW P, NEW g, Fits(f, P, fs, v), ~Dead(P), Alike(g, f, v),
           NEW n, n = Len(gs), n-1 = Len(fs), n \in Nat,
           \A i \in 1..n-1 : gs[i] = fs[i],
           gs[n].kind \notin SecondParts, gs[n].scope = f, gs[n].saved = f,
           gs[n].before = P, gs[n].siblings = {}
    PROVE  Fits(g, {Nothing}, gs, v)
<1>1. /\ n-1 \in Nat /\ n-1 \in 0..n-1 /\ n \in 1..n /\ n \in 0..n
      /\ \A i \in 1..n : i \in 1..n-1 \/ i = n
  BY LenProperties
<1>2. /\ Sound(f, P, fs, n-1, v) /\ Follows(f, P, fs, n-1, v) /\ Returned(P, fs, n-1, v)
      /\ \A i \in 1..n-1 : FrameInv(fs, i, v)
  BY DEF Fits
<1>3. /\ \A i \in 1..n-1 : FrameInv(gs, i, v)
      /\ \A h, Q : Follows(h, Q, gs, n-1, v) <=> Follows(h, Q, fs, n-1, v)
      /\ Returned(P, gs, n-1, v)
      /\ Below(gs, n-1, v) <=> Below(fs, n-1, v)
  <2>1. \A i \in 1..n-1 : gs[i].before = fs[i].before
    OBVIOUS
  <2>2. QED
    BY <1>1, <1>2, <2>1, SamePrefix, SameBefore
<1>4. ~Dead({Nothing}) /\ \A h, i, w : Returned({Nothing}, h, i, w)
  BY NothingRuns
<1>5. Below(fs, n-1, v) \/ Filled(P, v) => Below(gs, n, v)
  BY <1>1, <1>3 DEF Below
<1>6. Sound(f, {Nothing}, gs, n, v)
  BY <1>2, <1>4, <1>5 DEF Sound, FieldSound, CallSound
<1>7. Follows(f, {Nothing}, gs, n-1, v)
  BY <1>2, <1>3, <1>4 DEF Follows
<1>8. FrameInv(gs, n, v)
  <2>1. SavedPart(gs[n]) = {Nothing}
    BY DEF SavedPart
  <2>2. Returned({}, gs, n, v)
    BY DEF Returned
  <2>3. QED
    BY <1>3, <1>6, <1>7, <2>1, <2>2 DEF FrameInv
<1>9. Follows(f, {Nothing}, gs, n, v)
  <2>1. Grows(f.callSuper, f.callSuper)
    BY <1>2 DEF Sound, CallSound, Grows
  <2>2. NothingNew(f, f, v)
    BY DEF NothingNew
  <2>3. QED
    BY <1>1, <1>4, <1>7, <2>1, <2>2 DEF Follows
<1>10. Sound(g, {Nothing}, gs, n, v) /\ Follows(g, {Nothing}, gs, n, v)
  BY <1>6, <1>9, AlikeFlows
<1>11. QED
  BY <1>1, <1>3, <1>4, <1>8, <1>10 DEF Fits

\* It ends, with the flow f and having done P as a whole.
LEMMA CloseFits ==
    ASSUME NEW fs \in Seq(Frame), NEW gs \in Seq(Frame), NEW v \in Fields,
           NEW n, n = Len(fs), n > 0, Len(gs) = n-1,
           \A i \in 1..n-1 : gs[i] = fs[i],
           \A i \in 1..n : FrameInv(fs, i, v),
           NEW f, NEW P, P \subseteq Path,
           Sound(f, P, fs, n, v), Follows(f, P, fs, n-1, v), Returned(P, fs, n, v)
    PROVE  Fits(f, Extend(fs[n].before, P), gs, v)
<1>1. n \in Nat /\ n \in 1..n /\ n-1 \in Nat /\ n-1 \in 0..n-1
  BY LenProperties
<1> DEFINE B == fs[n].before
           R == Extend(B, P)
<1>2. B \subseteq Path
  <2>1. fs[n] \in Frame
    BY <1>1, ElementOfSeq
  <2>2. QED
    BY <2>1 DEF Frame
<1>3. ~Dead(B) /\ Returned(B, fs, n-1, v)
  BY <1>1 DEF FrameInv
<1> HIDE DEF B
<1>4. Dead(R) <=> Dead(P)
  BY <1>2, <1>3, ExtendDead
<1>5. Below(fs, n, v) <=> Below(fs, n-1, v) \/ Filled(B, v)
  <2>1. \A j : j \in 1..n <=> j \in 1..n-1 \/ j = n
    BY <1>1
  <2>2. QED
    BY <2>1 DEF Below, B
<1>6. Below(fs, n, v) \/ Filled(P, v) => Below(fs, n-1, v) \/ Filled(R, v)
  BY <1>2, <1>5, ExtendFilled
<1>7. Returned(R, fs, n-1, v)
  <2>1. \A q \in P : q.ended = "return" =>
           Below(fs, n-1, v) \/ Filled(B, v) \/ GoodPath(q, v)
    BY <1>5 DEF Returned
  <2>2. QED
    BY <1>2, <1>3, <2>1, ExtendReturned
<1>8. Sound(f, R, fs, n-1, v)
  BY <1>4, <1>6 DEF Sound, FieldSound, CallSound
<1>9. Follows(f, R, fs, n-1, v)
  BY <1>4 DEF Follows
<1> HIDE DEF R
<1>10. /\ Sound(f, R, gs, n-1, v) /\ Follows(f, R, gs, n-1, v)
       /\ Returned(R, gs, n-1, v)
       /\ \A i \in 1..n-1 : FrameInv(gs, i, v)
  <2>1. \A i \in 1..n-1 : gs[i].before = fs[i].before
    OBVIOUS
  <2>2. \A i \in 1..n-1 : FrameInv(fs, i, v)
    BY <1>1
  <2>3. QED
    BY <1>1, <1>7, <1>8, <1>9, <2>1, <2>2, SameBefore, SamePrefix
<1>11. QED
  BY <1>10 DEF Fits, R, B

\* The first of two branches ends with the flow h, the second starts at the fork.
LEMMA BranchFits ==
    ASSUME NEW fs \in Seq(Frame), NEW gs \in Seq(Frame), NEW v \in Fields,
           NEW n, n = Len(fs), n > 0, Len(gs) = n,
           \A i \in 1..n-1 : gs[i] = fs[i],
           NEW f, NEW P, Fits(f, P, fs, v),
           fs[n].kind \in {"then", "first"}, gs[n].kind \in SecondParts,
           gs[n].before = fs[n].before, gs[n].siblings = fs[n].siblings \cup P,
           gs[n].scope = fs[n].saved,
           Sound(gs[n].saved, P, fs, n, v), Follows(gs[n].saved, P, fs, n-1, v)
    PROVE  Fits(fs[n].saved, {Nothing}, gs, v)
<1>1. /\ n \in Nat /\ n \in 1..n /\ n \in 0..n /\ n-1 \in Nat /\ n-1 \in 0..n-1 /\ n-1 \in 0..n
      /\ \A j \in 1..n : j \in 1..n-1 \/ j = n
  BY LenProperties
<1>2. \A i \in 1..n : gs[i].before = fs[i].before
  BY <1>1
<1>3. /\ \A h, Q : Sound(h, Q, gs, n, v) <=> Sound(h, Q, fs, n, v)
      /\ \A Q : Returned(Q, gs, n, v) <=> Returned(Q, fs, n, v)
      /\ \A Q : Returned(Q, gs, n-1, v) <=> Returned(Q, fs, n-1, v)
      /\ \A h, Q : Follows(h, Q, gs, n-1, v) <=> Follows(h, Q, fs, n-1, v)
      /\ \A i \in 1..n-1 : FrameInv(gs, i, v) <=> FrameInv(fs, i, v)
  BY <1>1, <1>2, SameBefore, SamePrefix
<1>4. FrameInv(fs, n, v) /\ \A i \in 1..n-1 : FrameInv(fs, i, v)
  BY <1>1 DEF Fits
<1>5. gs[n].siblings = P /\ SavedPart(fs[n]) = {Nothing} /\ SavedPart(gs[n]) = P
  BY <1>4 DEF FrameInv, SavedPart, SecondParts
<1> DEFINE fork == fs[n].saved
<1>6. Sound(fork, {Nothing}, fs, n, v) /\ Follows(fork, {Nothing}, fs, n-1, v)
  BY <1>4, <1>5 DEF FrameInv
<1>7. Returned(P, fs, n, v)
  BY DEF Fits
<1>8. FrameInv(gs, n, v)
  <2>1. ~Dead(fs[n].before) /\ Returned(fs[n].before, fs, n-1, v)
    BY <1>4 DEF FrameInv
  <2>2. gs[n].kind \notin {"then", "first"}
    BY DEF SecondParts
  <2>3. QED
    BY <1>3, <1>5, <1>6, <1>7, <2>1, <2>2 DEF FrameInv
<1>9. ~Dead({Nothing}) /\ Returned({Nothing}, gs, n, v)
  BY NothingRuns
<1>10. Follows(fork, {Nothing}, gs, n, v)
  <2>1. Grows(fork.callSuper, fork.callSuper)
    BY <1>6, <1>9 DEF Sound, CallSound, Grows
  <2>2. gs[n].kind \notin LoopKinds /\ gs[n].kind \notin NoExitKinds
    BY DEF SecondParts, LoopKinds, NoExitKinds
  <2>3. Follows(fork, {Nothing}, gs, n-1, v)
    BY <1>3, <1>6
  <2>4. QED
    BY <1>1, <2>1, <2>2, <2>3 DEF Follows
<1>11. QED
  BY <1>1, <1>3, <1>4, <1>6, <1>8, <1>9, <1>10 DEF Fits

\* In a loop without exits the flow tells as much of any executions that go on.
LEMMA LoopSound ==
    ASSUME NEW fs, NEW v \in Fields, NEW f, NEW P, NEW n \in Nat, n > 0,
           Sound(f, P, fs, n, v), Follows(f, P, fs, n, v), FrameInv(fs, n, v),
           fs[n].kind \in NoExitKinds, NEW Q, ~Dead(Q)
    PROVE  /\ Sound(f, Q, fs, n, v) /\ Sound(OR(fs[n].scope, f), Q, fs, n, v)
           /\ Follows(f, Q, fs, n, v) /\ Follows(OR(fs[n].scope, f), Q, fs, n-1, v)
<1> DEFINE s == fs[n].scope
<1>1. /\ ~Dead(P) /\ NothingNew(s, f, v) /\ Grows(s.callSuper, f.callSuper)
      /\ Sound(s, {Nothing}, fs, n, v) /\ Follows(s, {Nothing}, fs, n-1, v)
  <2>1. n \in 1..n /\ fs[n].kind \in LoopKinds
    BY DEF NoExitKinds, LoopKinds
  <2>2. QED
    BY <2>1 DEF Follows, FrameInv
<1>2. ~Filled({Nothing}, v)
  BY NothingRuns
<1>3. Sound(f, Q, fs, n, v)
  BY <1>1, <1>2 DEF Sound, FieldSound, CallSound, NothingNew
<1>4. Follows(f, Q, fs, n, v)
  BY DEF Follows
<1>5. Sound(OR(s, f), Q, fs, n, v)
  BY <1>1, <1>3, PopSound
<1>6. Follows(OR(s, f), Q, fs, n-1, v)
  <2>1. Follows(f, Q, fs, n-1, v)
    BY <1>4 DEF Follows
  <2>2. QED
    BY <1>1, <2>1, PopFollows
<1>7. QED
  BY <1>3, <1>4, <1>5, <1>6

\* The next case of a switch, which may start with a label in the flags.
LEMMA CaseFits ==
    ASSUME NEW fs \in Seq(Frame), NEW gs \in Seq(Frame), NEW v \in Fields,
           NEW n, n = Len(fs), n > 0, Len(gs) = n,
           \A i \in 1..n-1 : gs[i] = fs[i],
           NEW f, NEW P, Fits(f, P, fs, v), NEW g, Alike(g, f, v),
           fs[n].kind \in NoExitKinds,
           gs[n] = [fs[n] EXCEPT !.siblings = @ \cup P]
    PROVE  Fits(g, {Nothing}, gs, v)
<1>1. /\ n \in Nat /\ n \in 1..n /\ n \in 0..n /\ n-1 \in Nat /\ n-1 \in 0..n-1 /\ n-1 \in 0..n
      /\ \A j \in 1..n : j \in 1..n-1 \/ j = n
  BY LenProperties
<1>2. /\ gs[n].kind = fs[n].kind /\ gs[n].scope = fs[n].scope
      /\ gs[n].saved = fs[n].saved /\ gs[n].before = fs[n].before
      /\ gs[n].siblings = fs[n].siblings \cup P
  <2>1. fs[n] \in Frame
    BY <1>1, ElementOfSeq
  <2>2. QED
    BY <2>1 DEF Frame
<1>3. \A i \in 1..n : gs[i].before = fs[i].before
  BY <1>1, <1>2
<1>4. /\ \A h, Q : Sound(h, Q, gs, n, v) <=> Sound(h, Q, fs, n, v)
      /\ \A Q : Returned(Q, gs, n, v) <=> Returned(Q, fs, n, v)
      /\ \A Q : Returned(Q, gs, n-1, v) <=> Returned(Q, fs, n-1, v)
      /\ \A h, Q : Follows(h, Q, gs, n-1, v) <=> Follows(h, Q, fs, n-1, v)
      /\ \A i \in 1..n-1 : FrameInv(gs, i, v) <=> FrameInv(fs, i, v)
  BY <1>1, <1>3, SameBefore, SamePrefix
<1>5. FrameInv(fs, n, v) /\ \A i \in 1..n-1 : FrameInv(fs, i, v)
  BY <1>1 DEF Fits
<1>6. FrameInv(gs, n, v)
  <2>1. fs[n].kind \notin {"then", "first"} /\ fs[n].kind \notin SecondParts
    BY DEF NoExitKinds, SecondParts
  <2>2. SavedPart(gs[n]) = SavedPart(fs[n])
    BY <1>2, <2>1 DEF SavedPart
  <2>3. Returned(gs[n].siblings, fs, n, v)
    BY <1>2, <1>5 DEF FrameInv, Fits, Returned
  <2>4. QED
    BY <1>2, <1>4, <1>5, <2>1, <2>2, <2>3 DEF FrameInv
<1>7. ~Dead({Nothing}) /\ Returned({Nothing}, gs, n, v)
  BY NothingRuns
<1>8. Sound(f, {Nothing}, fs, n, v) /\ Follows(f, {Nothing}, fs, n, v)
  BY <1>1, <1>5, <1>7, LoopSound DEF Fits
<1>9. Follows(f, {Nothing}, gs, n, v)
  BY <1>1, <1>2, <1>8 DEF Follows
<1>10. Sound(g, {Nothing}, gs, n, v) /\ Follows(g, {Nothing}, gs, n, v)
  BY <1>4, <1>8, <1>9, AlikeFlows
<1>11. QED
  BY <1>1, <1>4, <1>5, <1>6, <1>7, <1>10 DEF Fits

-----------------------------------------------------------------------------
(* Types. *)

LEMMA FlowTypes ==
    ASSUME NEW f \in CtorFlow, NEW g \in CtorFlow
    PROVE  /\ \A bit \in CSX : orCSX(f, bit) \in CtorFlow
           /\ OR(f, g) \in CtorFlow
           /\ MergeFlow(f, g) \in CtorFlow
           /\ Delegated(f) \in CtorFlow
           /\ \A c \in SUBSET CSX : [f EXCEPT !.callSuper = @ \cup c] \in CtorFlow
           /\ \A v \in Fields : [f EXCEPT !.fieldinit[v] = @ \cup {"this_ctor"}] \in CtorFlow
<1>1. /\ f.callSuper \in SUBSET CSX /\ f.fieldinit \in [Fields -> SUBSET CSX]
      /\ g.callSuper \in SUBSET CSX /\ g.fieldinit \in [Fields -> SUBSET CSX]
      /\ \A v \in Fields : f.fieldinit[v] \in SUBSET CSX /\ g.fieldinit[v] \in SUBSET CSX
  BY DEF CtorFlow
<1>2. {"this_ctor", "deprecate_18719"} \subseteq CSX
  BY DEF CSX
<1>3. MergeFlow(f, g) \in CtorFlow
  <2>1. /\ mergeCallSuper(f.callSuper, g.callSuper).csx \in SUBSET CSX
        /\ \A v \in Fields :
              mergeFieldInit(f.fieldinit[v], g.fieldinit[v]).csx \in SUBSET CSX
    BY <1>1, MergeTypes
  <2>2. QED
    BY <2>1 DEF MergeFlow, CtorFlow
<1>4. \A bit \in CSX : orCSX(f, bit) \in CtorFlow
  BY <1>1 DEF orCSX, CtorFlow
<1>5. OR(f, g) \in CtorFlow
  BY <1>1 DEF OR, CtorFlow
<1>6. Delegated(f) \in CtorFlow
  BY <1>1, <1>2 DEF Delegated, CtorFlow
<1>7. \A c \in SUBSET CSX : [f EXCEPT !.callSuper = @ \cup c] \in CtorFlow
  BY <1>1 DEF CtorFlow
<1>8. \A v \in Fields : [f EXCEPT !.fieldinit[v] = @ \cup {"this_ctor"}] \in CtorFlow
  BY <1>1, <1>2 DEF CtorFlow
<1>9. QED
  BY <1>3, <1>4, <1>5, <1>6, <1>7, <1>8

\* The innermost frame and the sequence without it.
LEMMA TopFrame ==
    ASSUME Typed, frames # <<>>
    PROVE  /\ Len(frames) \in Nat /\ Len(frames) > 0 /\ frames \in Seq(Frame)
           /\ Top = frames[Len(frames)] /\ Top \in Frame
           /\ Front(frames) \in Seq(Frame) /\ Len(Front(frames)) = Len(frames) - 1
           /\ \A i \in 1..Len(frames)-1 : Front(frames)[i] = frames[i]
<1>1. /\ frames \in Seq(Frame) /\ Len(frames) \in Nat /\ Len(frames) > 0
  BY EmptySeq, LenProperties DEF Typed
<1>2. \A i \in 1..Len(frames) : frames[i] \in Frame
  BY <1>1, ElementOfSeq
<1>3. Top = frames[Len(frames)] /\ Top \in Frame
  BY <1>1, <1>2 DEF Top, Last
<1>4. /\ SubSeq(frames, 1, Len(frames)-1) \in Seq(Frame)
      /\ Len(SubSeq(frames, 1, Len(frames)-1)) = Len(frames) - 1
      /\ \A i \in 1..Len(frames)-1 : SubSeq(frames, 1, Len(frames)-1)[i] = frames[i]
  <2> DEFINE m == Len(frames) - 1
             t == SubSeq(frames, 1, m)
  <2>1. m \in Nat /\ m \in Int /\ 1 \in Int /\ \A i \in 1..m : frames[i] \in Frame
    BY <1>1, <1>2
  <2> HIDE DEF m
  <2>2. /\ t \in Seq(Frame) /\ Len(t) = IF 1 <= m THEN m-1+1 ELSE 0
        /\ \A i \in 1..m-1+1 : t[i] = frames[1+i-1]
    BY <2>1, SubSeqProperties
  <2>3. t \in Seq(Frame) /\ Len(t) = m /\ \A i \in 1..m : t[i] = frames[i]
    BY <2>1, <2>2
  <2>4. QED
    BY <2>3 DEF m
<1>5. QED
  BY <1>1, <1>3, <1>4 DEF Front

\* What every frame and state that an action leaves must be.
LEMMA PieceTypes ==
    ASSUME Typed, NEW q \in Path, Piece(q), flow' \in CtorFlow,
           ctorinit' \subseteq Fields, deprecated' \in BOOLEAN
    PROVE  Typed'
<1>1. {q} \subseteq Path /\ paths \subseteq Path
  BY DEF Typed
<1>2. paths' \subseteq Path
  BY <1>1, ExtendRuns DEF Piece
<1>3. statements' \in 0..MaxStatements
  BY BoundAssumption DEF Typed, Piece, CanAdd
<1>4. stage = "analysing" /\ UNCHANGED <<cd, frames, stage, implicit>>
  BY DEF Piece, CanAdd
<1>5. QED
  BY <1>2, <1>3, <1>4 DEF Typed

LEMMA WholeTypes ==
    ASSUME Typed
    PROVE  Whole \subseteq Path
<1>1. CASE frames = <<>>
  BY <1>1 DEF Whole, Typed
<1>2. CASE frames # <<>>
  <2>1. Top.whole \subseteq Path /\ paths \subseteq Path
    BY <1>2, TopFrame DEF Frame, Typed
  <2>2. QED
    BY <1>2, <2>1, ExtendRuns DEF Whole
<1>3. QED
  BY <1>1, <1>2

LEMMA OpenTypes ==
    ASSUME Typed, NEW k \in FrameKinds, NEW f \in CtorFlow, Open(k, f)
    PROVE  Typed'
<1>1. NewFrame(k) \in Frame
  BY WholeTypes DEF Typed, NewFrame, Frame
<1>2. frames' \in Seq(Frame)
  BY <1>1 DEF Typed, Open
<1>3. paths' \subseteq Path
  BY NothingRuns DEF Open
<1>4. statements' \in 0..MaxStatements
  BY BoundAssumption DEF Typed, Open, CanAdd
<1>5. /\ stage = "analysing" /\ flow' = f
      /\ UNCHANGED <<cd, ctorinit, errors, deprecated, stage, implicit>>
  BY DEF Open, CanAdd
<1>6. QED
  BY <1>2, <1>3, <1>4, <1>5 DEF Typed

LEMMA BranchTypes ==
    ASSUME Typed, Analysing, frames # <<>>, NEW k \in FrameKinds,
           NEW f \in CtorFlow, NEW g \in CtorFlow, NextBranch(k, f, g)
    PROVE  Typed'
<1> DEFINE top == [Top EXCEPT !.kind = k, !.scope = f, !.saved = g,
                              !.siblings = @ \cup paths]
<1>1. Front(frames) \in Seq(Frame) /\ Top \in Frame
  BY TopFrame
<1>2. top \in Frame
  BY <1>1 DEF Frame, Typed
<1>3. frames' = Append(Front(frames), top)
  BY DEF NextBranch
<1>4. frames' \in Seq(Frame)
  <2> HIDE DEF top
  <2>1. QED
    BY <1>1, <1>2, <1>3
<1>5. paths' \subseteq Path /\ flow' = f
  BY NothingRuns DEF NextBranch
<1>6. /\ stage = "analysing"
      /\ UNCHANGED <<cd, ctorinit, statements, errors, deprecated, stage, implicit>>
  BY DEF NextBranch, Analysing
<1>7. QED
  BY <1>4, <1>5, <1>6 DEF Typed

LEMMA CloseTypes ==
    ASSUME Typed, Analysing, frames # <<>>, NEW f \in CtorFlow,
           NEW P, P \subseteq Path, Close(f, P)
    PROVE  Typed'
<1>1. frames' \in Seq(Frame) /\ flow' = f
  BY TopFrame DEF Close
<1>2. Top.before \subseteq Path
  BY TopFrame DEF Frame
<1>3. paths' \subseteq Path
  BY <1>2, ExtendRuns DEF Close
<1>4. /\ stage = "analysing"
      /\ UNCHANGED <<cd, ctorinit, statements, deprecated, stage, implicit>>
  BY DEF Close, Analysing
<1>5. QED
  BY <1>1, <1>3, <1>4 DEF Typed

-----------------------------------------------------------------------------
(* The invariant is kept by every action. *)

\* What it says of a body under analysis.
LEMMA NowFits ==
    ASSUME IInv, Analysing, NEW v \in MustInit
    PROVE  /\ v \in Fields /\ Typed
           /\ Len(frames) \in Nat /\ frames \in Seq(Frame)
           /\ paths \subseteq Path /\ flow \in CtorFlow
           /\ Fits(flow, paths, frames, v)
           /\ Sound(flow, paths, frames, Len(frames), v)
           /\ Follows(flow, paths, frames, Len(frames), v)
           /\ Returned(paths, frames, Len(frames), v)
           /\ \A i \in 1..Len(frames) : FrameInv(frames, i, v)
<1>1. v \in Fields
  BY FieldsAssumption
<1>2. Fits(flow, paths, frames, v)
  BY DEF IInv, FlowInv, Analysing
<1>3. Len(frames) \in Nat
  BY LenProperties DEF IInv, Typed
<1>4. QED
  BY <1>1, <1>2, <1>3 DEF Fits, IInv, Typed

\* What it says of the innermost frame.
LEMMA TopFits ==
    ASSUME IInv, Analysing, frames # <<>>, NEW v \in MustInit
    PROVE  /\ Len(frames) \in 1..Len(frames) /\ Top = frames[Len(frames)]
           /\ FrameInv(frames, Len(frames), v)
           /\ Sound(Top.scope, {Nothing}, frames, Len(frames), v)
           /\ Follows(Top.scope, {Nothing}, frames, Len(frames)-1, v)
           /\ Grows(Top.scope.callSuper, flow.callSuper)
           /\ Follows(flow, paths, frames, Len(frames)-1, v)
           /\ Sound(Top.saved, SavedPart(Top), frames, Len(frames), v)
           /\ Follows(Top.saved, SavedPart(Top), frames, Len(frames)-1, v)
           /\ Returned(Top.siblings, frames, Len(frames), v)
           /\ Top \in Frame
<1>1. /\ Len(frames) \in Nat /\ Len(frames) > 0 /\ Top = frames[Len(frames)]
      /\ Top \in Frame
  BY TopFrame DEF IInv
<1>2. Len(frames) \in 1..Len(frames)
  BY <1>1
<1>3. FrameInv(frames, Len(frames), v)
  BY <1>2, NowFits
<1>4. Follows(flow, paths, frames, Len(frames), v)
  BY NowFits
<1>5. Follows(flow, paths, frames, Len(frames)-1, v)
  BY <1>1, <1>4 DEF Follows
<1>6. Grows(Top.scope.callSuper, flow.callSuper)
  BY <1>1, <1>2, <1>4 DEF Follows
<1>7. QED
  BY <1>1, <1>2, <1>3, <1>5, <1>6 DEF FrameInv

\* A piece with the effect q leads to flow', if that is right of the executions.
LEMMA PieceFits ==
    ASSUME IInv, CanAdd, NEW q \in Path, Piece(q), NEW v \in MustInit,
           q.ended = "return" => Below(frames, Len(frames), v) \/ Filled(paths, v),
           Sound(flow', paths', frames, Len(frames), v),
           Follows(flow', paths', frames, Len(frames), v)
    PROVE  Fits(flow', paths', frames', v)
<1>1. Analysing
  BY DEF CanAdd, Analysing
<1>2. {q} \subseteq Path /\ paths' = Extend(paths, {q}) /\ frames' = frames
  BY DEF Piece
<1>3. Returned(paths', frames, Len(frames), v)
  BY <1>1, <1>2, NowFits, ExtendReturned
<1>4. QED
  BY <1>1, <1>2, <1>3, NowFits DEF Fits

\* The executions after a piece, and what follows from it being reachable.
LEMMA PiecePaths ==
    ASSUME IInv, CanAdd, NEW q \in Path, Piece(q), NEW v \in MustInit
    PROVE  /\ ~Dead(paths)
           /\ Dead(paths') <=> q.ended # "no"
           /\ Filled(paths, v) => Filled(paths', v)
           /\ GoodPath(q, v) => Filled(paths', v)
           /\ "halt" \notin flow.callSuper
           /\ "return_" \in flow.callSuper => "any_ctor" \notin flow.callSuper
           /\ "halt" \notin flow.fieldinit[v] /\ "return_" \notin flow.fieldinit[v]
<1>1. Analysing /\ ~Dead(paths)
  BY DEF CanAdd, Analysing, Reachable, Dead
<1>2. {q} \subseteq Path /\ paths \subseteq Path /\ paths' = Extend(paths, {q})
  BY <1>1, NowFits DEF Piece
<1>3. v \in Fields
  BY <1>1, NowFits
<1>4. Dead({q}) <=> q.ended # "no"
  BY DEF Dead, Running
<1>5. Dead(paths') <=> q.ended # "no"
  BY <1>1, <1>2, <1>4, ExtendDead
<1>6. GoodPath(q, v) => Filled({q}, v)
  BY DEF Filled, Running
<1>7. (Filled(paths, v) \/ Filled({q}, v)) => Filled(paths', v)
  BY <1>2, <1>3, ExtendFilled
<1>8. Sound(flow, paths, frames, Len(frames), v)
  BY <1>1, NowFits
<1>9. QED
  BY <1>1, <1>5, <1>6, <1>7, <1>8 DEF Sound, FieldSound, CallSound

\* super() and this().
LEMMA CtorCallFits ==
    ASSUME IInv, NEW isSuper \in BOOLEAN, CtorCall(isSuper), errors' = {},
           NEW v \in MustInit
    PROVE  Fits(flow', paths', frames', v)
<1> DEFINE q == [Nothing EXCEPT !.ctors = 1, !.delegated = ~isSuper]
           bit == IF isSuper THEN "super_ctor" ELSE "this_ctor"
           f == IF isSuper THEN flow ELSE Delegated(flow)
<1>1. Piece(q) /\ CanAdd /\ Analysing
  BY DEF CtorCall, Piece, CanAdd, Analysing
<1>2. q \in Path /\ q.ended = "no" /\ (isSuper \/ GoodPath(q, v))
  BY Effects
<1>3. v \in Fields /\ flow \in CtorFlow
  BY <1>1, NowFits
<1>4. /\ ~Dead(paths')
      /\ Filled(paths, v) => Filled(paths', v)
      /\ GoodPath(q, v) => Filled(paths', v)
      /\ "halt" \notin flow.callSuper
      /\ "return_" \in flow.callSuper => "any_ctor" \notin flow.callSuper
      /\ "halt" \notin flow.fieldinit[v] /\ "return_" \notin flow.fieldinit[v]
  BY <1>1, <1>2, PiecePaths
<1>5. /\ flow' = [f EXCEPT !.callSuper = @ \cup {"any_ctor", bit}]
      /\ CtorCallErrors(flow.callSuper) = {}
  BY <1>4 DEF CtorCall, Report
<1>6. /\ ~inLoop /\ ~HasCalled(flow.callSuper)
      /\ "return_" \notin flow.callSuper
  BY <1>4, <1>5, CtorsCalled DEF CtorCallErrors
<1>7. /\ flow'.callSuper = flow.callSuper \cup {"any_ctor", bit}
      /\ flow'.fieldinit[v] = flow.fieldinit[v] \cup
             (IF isSuper THEN {} ELSE {"this_ctor", "deprecate_18719"})
  BY <1>3, <1>5 DEF Delegated, CtorFlow
<1>8. Sound(flow, paths, frames, Len(frames), v)
      /\ Follows(flow, paths, frames, Len(frames), v)
  BY <1>1, NowFits
<1>9. Sound(flow', paths', frames, Len(frames), v)
  <2>1. FieldSound(flow'.fieldinit[v], paths', frames, Len(frames), v)
    BY <1>2, <1>4, <1>7, <1>8 DEF Sound, FieldSound
  <2>2. CallSound(flow'.callSuper, flow'.fieldinit[v], paths')
    BY <1>4, <1>6, <1>7 DEF CallSound, HasCalled
  <2>3. QED
    BY <2>1, <2>2 DEF Sound
<1>10. Follows(flow', paths', frames, Len(frames), v)
  <2>1. \A s : Grows(s, flow.callSuper) => Grows(s, flow'.callSuper)
    BY <1>4, <1>6, <1>7 DEF Grows, HasCalled
  <2>2. \A j \in 1..Len(frames) : frames[j].kind \notin LoopKinds
    BY <1>6 DEF inLoop, Within
  <2>3. QED
    BY <1>4, <1>8, <2>1, <2>2 DEF Follows
<1>11. QED
  BY <1>1, <1>2, <1>9, <1>10, PieceFits

\* The initialisation of a field.
LEMMA FieldFits ==
    ASSUME IInv, NEW w \in Fields, modifyFieldVar(w), errors' = {}, NEW v \in MustInit
    PROVE  Fits(flow', paths', frames', v)
<1> DEFINE q == [Nothing EXCEPT !.inits[w] = 1]
<1>1. Piece(q) /\ CanAdd /\ Analysing
  BY DEF modifyFieldVar, Piece, CanAdd, Analysing
<1>2. v \in Fields /\ flow \in CtorFlow
  BY <1>1, NowFits
<1>3. q \in Path /\ q.ended = "no" /\ (v = w => GoodPath(q, v))
  BY Effects
<1>4. /\ ~Dead(paths')
      /\ Filled(paths, v) => Filled(paths', v)
      /\ GoodPath(q, v) => Filled(paths', v)
      /\ "halt" \notin flow.callSuper
      /\ "return_" \in flow.callSuper => "any_ctor" \notin flow.callSuper
      /\ "halt" \notin flow.fieldinit[v] /\ "return_" \notin flow.fieldinit[v]
  BY <1>1, <1>3, PiecePaths
<1>5. FieldErrors(w) = {}
  BY DEF modifyFieldVar, Report
<1>6. v = w => "this_ctor" \in flow.fieldinit[v] \/ ~inLoop
  BY <1>5 DEF FieldErrors
<1>7. /\ flow'.callSuper = flow.callSuper
      /\ flow'.fieldinit[v] = flow.fieldinit[v] \cup
             (IF v = w THEN {"this_ctor"} ELSE {})
  BY <1>2 DEF modifyFieldVar, CtorFlow
<1>8. Sound(flow, paths, frames, Len(frames), v)
      /\ Follows(flow, paths, frames, Len(frames), v)
  BY <1>1, NowFits
<1>9. Sound(flow', paths', frames, Len(frames), v)
  <2>1. FieldSound(flow'.fieldinit[v], paths', frames, Len(frames), v)
    BY <1>3, <1>4, <1>7, <1>8 DEF Sound, FieldSound
  <2>2. CallSound(flow'.callSuper, flow'.fieldinit[v], paths')
    BY <1>1, <1>3, <1>4, <1>7, <1>8, PiecePaths DEF Sound, CallSound
  <2>3. QED
    BY <2>1, <2>2 DEF Sound
<1>10. Follows(flow', paths', frames, Len(frames), v)
  <2>1. \A j \in 1..Len(frames) : frames[j].kind \in LoopKinds =>
           /\ inLoop
           /\ NothingNew(frames[j].scope, flow, v) => NothingNew(frames[j].scope, flow', v)
    BY <1>6, <1>7 DEF inLoop, Within, NothingNew
  <2>2. QED
    BY <1>4, <1>7, <1>8, <2>1 DEF Follows
<1>11. QED
  BY <1>1, <1>3, <1>9, <1>10, PieceFits

\* assert(0) and return, which here occur in no loop but do.
LEMMA ExitFits ==
    ASSUME IInv, ~ExitsInLoops, Halt \/ Return, errors' = {}, NEW v \in MustInit
    PROVE  Fits(flow', paths', frames', v)
<1> DEFINE how == IF Halt THEN "halt" ELSE "return"
           bit == IF Halt THEN "halt" ELSE "return_"
           q == [Nothing EXCEPT !.ended = how]
<1>1. Piece(q) /\ CanAdd /\ Analysing /\ flow' = orCSX(flow, bit)
  BY DEF Halt, Return, Piece, CanAdd, Analysing
<1>2. v \in Fields /\ flow \in CtorFlow
  BY <1>1, NowFits
<1>3. q \in Path /\ q.ended = how /\ how # "no"
  BY Effects
<1>4. Dead(paths') /\ Filled(paths', v)
  BY <1>1, <1>3, PiecePaths DEF Dead, Filled
<1>5. /\ flow'.callSuper = flow.callSuper \cup {bit}
      /\ flow'.fieldinit[v] = flow.fieldinit[v] \cup {bit}
  BY <1>1, <1>2 DEF orCSX
<1>6. Sound(flow, paths, frames, Len(frames), v)
      /\ Follows(flow, paths, frames, Len(frames), v)
  BY <1>1, NowFits
<1>7. how = "return" => Below(frames, Len(frames), v) \/ Filled(paths, v)
  <2>1. how = "return" => "this_ctor" \in flow.fieldinit[v]
    BY DEF Return, Report
  <2>2. QED
    BY <1>6, <2>1 DEF Sound, FieldSound
<1>8. Sound(flow', paths', frames, Len(frames), v)
  <2>1. how = "return" /\ "any_ctor" \in flow.callSuper => HasCalled(flow.callSuper)
    BY CtorsCalled DEF Return, Report, ReturnCtorErrors
  <2>2. QED
    BY <1>4, <1>5, <1>6, <2>1 DEF Sound, FieldSound, CallSound, HasCalled
<1>9. Follows(flow', paths', frames, Len(frames), v)
  <2>1. \A s : Grows(s, flow.callSuper) => Grows(s, flow'.callSuper)
    BY <1>5 DEF Grows, HasCalled
  <2>2. \A s : NothingNew(s, flow, v) => NothingNew(s, flow', v)
    BY <1>5 DEF NothingNew
  <2>3. \A j \in 1..Len(frames) : frames[j].kind \notin NoExitKinds
    BY DEF Halt, Return, MayExit, Within, NoExitKinds
  <2>4. QED
    BY <1>6, <2>1, <2>2, <2>3 DEF Follows
<1>10. QED
  BY <1>1, <1>3, <1>7, <1>8, <1>9, PieceFits

\* Whatever begins a statement or an operator with parts.
LEMMA OpenStep ==
    ASSUME IInv, NEW k, k \notin SecondParts, NEW f, Open(k, f), NEW v \in MustInit,
           Alike(f, flow, v)
    PROVE  Fits(flow', paths', frames', v)
<1>1. Analysing /\ ~Dead(paths)
  BY DEF Open, CanAdd, Analysing, Reachable, Dead
<1>2. /\ v \in Fields /\ frames \in Seq(Frame) /\ Len(frames) \in Nat
      /\ Fits(flow, paths, frames, v) /\ Typed
  BY <1>1, NowFits
<1>3. frames' = Append(frames, NewFrame(k)) /\ flow' = f /\ paths' = {Nothing}
  BY DEF Open
<1> DEFINE gs == Append(frames, NewFrame(k))
           n == Len(gs)
<1>4. /\ n \in Nat /\ n-1 = Len(frames) /\ gs[n] = NewFrame(k)
      /\ \A i \in 1..n-1 : gs[i] = frames[i]
  BY <1>2
<1>5. /\ NewFrame(k).kind = k /\ NewFrame(k).scope = flow /\ NewFrame(k).saved = flow
      /\ NewFrame(k).before = paths /\ NewFrame(k).siblings = {}
  BY DEF NewFrame
<1>6. Fits(f, {Nothing}, gs, v)
  <2> HIDE DEF gs
  <2>1. QED
    BY <1>1, <1>2, <1>4, <1>5, OpenFits
<1>7. QED
  BY <1>3, <1>6

LEMMA OpenActions ==
    ASSUME IInv, If \/ Question \/ AndAnd \/ For \/ Do \/ SwitchCase \/ Label,
           NEW v \in MustInit
    PROVE  Fits(flow', paths', frames', v)
<1>1. v \in Fields
  BY FieldsAssumption
<1>2. PICK k \in {"then", "first", "and", "for", "do", "switch", "label"} :
         Open(k, flow) \/ Open(k, orCSX(flow, "label"))
  BY DEF If, Question, AndAnd, For, Do, SwitchCase, Label
<1>3. k \notin SecondParts
  BY DEF SecondParts
<1>4. Alike(flow, flow, v) /\ Alike(orCSX(flow, "label"), flow, v)
  BY <1>1, LabelAlike DEF Alike
<1>5. QED
  BY <1>2, <1>3, <1>4, OpenStep

\* The first branch ends with the flow h.
LEMMA BranchStep ==
    ASSUME IInv, Analysing, NEW v \in MustInit, frames # <<>>,
           Top.kind \in {"then", "first"}, NEW k \in SecondParts, NEW h,
           NextBranch(k, Top.saved, h),
           Sound(h, paths, frames, Len(frames), v),
           Follows(h, paths, frames, Len(frames)-1, v),
           Typed'
    PROVE  Fits(flow', paths', frames', v)
<1> DEFINE n == Len(frames)
<1>1. /\ n \in Nat /\ n > 0 /\ n \in 1..n /\ frames \in Seq(Frame) /\ v \in Fields
      /\ Top = frames[n] /\ frames[n] \in Frame /\ Fits(flow, paths, frames, v)
  BY NowFits, TopFrame
<1>2. /\ frames' = Append(Front(frames), [Top EXCEPT !.kind = k, !.scope = Top.saved,
                                             !.saved = h, !.siblings = @ \cup paths])
      /\ paths' = {Nothing} /\ flow' = Top.saved
  BY DEF NextBranch
<1>3. frames' \in Seq(Frame)
  BY DEF Typed
<1> HIDE DEF n
<1>4. /\ Front(frames) \in Seq(Frame) /\ Len(Front(frames)) = n-1
      /\ \A i \in 1..n-1 : Front(frames)[i] = frames[i]
  BY TopFrame DEF n, IInv
<1>5. /\ Len(frames') = n /\ \A i \in 1..n-1 : frames'[i] = frames[i]
      /\ frames'[n] = [Top EXCEPT !.kind = k, !.scope = Top.saved, !.saved = h,
                                  !.siblings = @ \cup paths]
  BY <1>1, <1>2, <1>4
<1>6. /\ frames'[n].kind = k /\ frames'[n].scope = Top.saved /\ frames'[n].saved = h
      /\ frames'[n].before = frames[n].before
      /\ frames'[n].siblings = frames[n].siblings \cup paths
  BY <1>1, <1>5 DEF Frame
<1>7. Fits(frames[n].saved, {Nothing}, frames', v)
  BY <1>1, <1>3, <1>5, <1>6, BranchFits DEF n
<1>8. QED
  BY <1>1, <1>2, <1>7

LEMMA BranchActions ==
    ASSUME IInv, Else \/ Colon, Typed', NEW v \in MustInit
    PROVE  Fits(flow', paths', frames', v)
<1>1. Analysing /\ frames # <<>> /\ Top.kind \in {"then", "first"}
  BY DEF Else, Colon, TopIs
<1>2. /\ Sound(flow, paths, frames, Len(frames), v)
      /\ Follows(flow, paths, frames, Len(frames)-1, v) /\ v \in Fields
  BY <1>1, NowFits, TopFits
<1>3. CASE Else
  <2>1. NextBranch("else", Top.saved, OR(Top.scope, flow))
    BY <1>3 DEF Else
  <2>2. Sound(OR(Top.scope, flow), paths, frames, Len(frames), v)
    BY <1>1, <1>2, TopFits, PopSound
  <2>3. Follows(OR(Top.scope, flow), paths, frames, Len(frames)-1, v)
    BY <1>1, <1>2, TopFits, PopFollows
  <2>4. QED
    BY <1>1, <2>1, <2>2, <2>3, BranchStep DEF SecondParts
<1>4. CASE Colon
  <2>1. NextBranch("second", Top.saved, flow)
    BY <1>4 DEF Colon
  <2>2. QED
    BY <1>1, <1>2, <2>1, BranchStep DEF SecondParts
<1>5. QED
  BY <1>3, <1>4

\* The innermost frame ends with the flow f, having done P as a whole.
LEMMA CloseStep ==
    ASSUME IInv, Analysing, frames # <<>>, NEW v \in MustInit,
           NEW f, NEW P, P \subseteq Path, Close(f, P),
           Sound(f, P, frames, Len(frames), v),
           Follows(f, P, frames, Len(frames)-1, v),
           Returned(P, frames, Len(frames), v)
    PROVE  Fits(flow', paths', frames', v)
<1>1. /\ frames' = Front(frames) /\ flow' = f
      /\ paths' = Extend(frames[Len(frames)].before, P)
  BY TopFrame DEF Close, IInv
<1>2. /\ Len(frames) > 0 /\ Front(frames) \in Seq(Frame) /\ frames \in Seq(Frame)
      /\ Len(Front(frames)) = Len(frames) - 1
      /\ \A i \in 1..Len(frames)-1 : Front(frames)[i] = frames[i]
  BY TopFrame DEF IInv
<1>3. v \in Fields /\ \A i \in 1..Len(frames) : FrameInv(frames, i, v)
  BY NowFits
<1>4. Fits(f, Extend(frames[Len(frames)].before, P), Front(frames), v)
  BY <1>2, <1>3, CloseFits
<1>5. QED
  BY <1>1, <1>4

\* Both branches, or the second operand and its absence, end together.
LEMMA MergeActions ==
    ASSUME IInv, EndIf \/ EndCond \/ EndAndAnd, errors' = {}, NEW v \in MustInit
    PROVE  Fits(flow', paths', frames', v)
<1>1. Analysing /\ frames # <<>> /\ Top.kind \in {"else", "second", "and"}
  BY DEF EndIf, EndCond, EndAndAnd, TopIs
<1> DEFINE f == IF EndIf THEN OR(Top.scope, flow) ELSE flow
           Q == SavedPart(Top)
<1>2. CloseMerging(f, Top.saved, paths \cup Q)
  <2>1. CASE EndIf
    <3>1. CloseMerging(f, Top.saved, Top.siblings \cup paths) /\ Top.kind = "else"
      BY <2>1 DEF EndIf, TopIs
    <3>2. Q = Top.siblings /\ paths \cup Q = Top.siblings \cup paths
      BY <3>1 DEF SavedPart, SecondParts
    <3>3. QED
      BY <3>1, <3>2
  <2>2. CASE ~EndIf /\ EndCond
    <3>1. CloseMerging(f, Top.saved, Top.siblings \cup paths) /\ Top.kind = "second"
      BY <2>2 DEF EndCond, TopIs
    <3>2. Q = Top.siblings /\ paths \cup Q = Top.siblings \cup paths
      BY <3>1 DEF SavedPart, SecondParts
    <3>3. QED
      BY <3>1, <3>2
  <2>3. CASE ~EndIf /\ EndAndAnd
    <3>1. CloseMerging(f, Top.saved, {Nothing} \cup paths) /\ Top.kind = "and"
      BY <2>3 DEF EndAndAnd, TopIs
    <3>2. Q = {Nothing} /\ paths \cup Q = {Nothing} \cup paths
      BY <3>1 DEF SavedPart, SecondParts
    <3>3. QED
      BY <3>1, <3>2
  <2>4. QED
    BY <2>1, <2>2, <2>3
<1>3. /\ Sound(flow, paths, frames, Len(frames), v) /\ v \in Fields
      /\ Follows(flow, paths, frames, Len(frames)-1, v)
      /\ Returned(paths, frames, Len(frames), v) /\ paths \subseteq Path
  BY <1>1, NowFits, TopFits
<1>4. /\ Sound(f, paths, frames, Len(frames), v)
      /\ Follows(f, paths, frames, Len(frames)-1, v)
  BY <1>1, <1>3, TopFits, PopSound, PopFollows
<1>5. /\ Sound(Top.saved, Q, frames, Len(frames), v)
      /\ Follows(Top.saved, Q, frames, Len(frames)-1, v)
      /\ Returned(Q, frames, Len(frames), v) /\ Q \subseteq Path
  <2>1. Returned(Top.siblings, frames, Len(frames), v) /\ Top.siblings \subseteq Path
    BY <1>1, TopFits DEF Frame
  <2>2. Returned(Q, frames, Len(frames), v) /\ Q \subseteq Path
    BY <2>1, NothingRuns DEF SavedPart
  <2>3. QED
    BY <1>1, <2>2, TopFits
<1> HIDE DEF f, Q
<1>6. Close(MergeFlow(f, Top.saved), paths \cup Q) /\ MergeErrors(f, Top.saved) = {}
  BY <1>2 DEF CloseMerging, Report
<1>7. /\ Sound(MergeFlow(f, Top.saved), paths \cup Q, frames, Len(frames), v)
      /\ Follows(MergeFlow(f, Top.saved), paths \cup Q, frames, Len(frames)-1, v)
  BY <1>4, <1>5, <1>6, MergeSound
<1>8. paths \cup Q \subseteq Path /\ Returned(paths \cup Q, frames, Len(frames), v)
  BY <1>3, <1>5 DEF Returned
<1>9. QED
  BY <1>1, <1>6, <1>7, <1>8, CloseStep

\* A loop or a switch without exits ends.
LEMMA LoopActions ==
    ASSUME IInv, EndFor \/ EndSwitch, NEW v \in MustInit
    PROVE  Fits(flow', paths', frames', v)
<1>1. Analysing /\ frames # <<>> /\ Top.kind \in NoExitKinds
  BY DEF EndFor, EndSwitch, TopIs, NoExitKinds
<1>2. /\ Sound(flow, paths, frames, Len(frames), v) /\ v \in Fields
      /\ Follows(flow, paths, frames, Len(frames), v)
      /\ Returned(paths, frames, Len(frames), v) /\ paths \subseteq Path
      /\ Len(frames) \in Nat
  BY <1>1, NowFits
<1>3. /\ FrameInv(frames, Len(frames), v) /\ Top = frames[Len(frames)]
      /\ Len(frames) \in 1..Len(frames)
      /\ Returned(Top.siblings, frames, Len(frames), v) /\ Top.siblings \subseteq Path
  BY <1>1, TopFits DEF Frame
<1>4. ~Dead(paths)
  BY <1>1, <1>2, <1>3 DEF Follows
<1>5. PICK P : /\ Close(OR(Top.scope, flow), P) /\ P \subseteq Path /\ ~Dead(P)
               /\ Returned(P, frames, Len(frames), v)
  <2>1. CASE EndFor
    <3>1. Close(OR(Top.scope, flow), {Nothing} \cup Repeat(paths))
      BY <2>1 DEF EndFor, Pop
    <3>2. Repeat(paths) \subseteq Path /\ Returned(Repeat(paths), frames, Len(frames), v)
      BY <1>2, RepeatLike
    <3>3. /\ {Nothing} \cup Repeat(paths) \subseteq Path
          /\ ~Dead({Nothing} \cup Repeat(paths))
          /\ Returned({Nothing} \cup Repeat(paths), frames, Len(frames), v)
      BY <3>2, NothingRuns DEF Dead, Running, Returned
    <3>4. QED
      BY <3>1, <3>3
  <2>2. CASE EndSwitch
    <3>1. Close(OR(Top.scope, flow), Top.siblings \cup paths)
      BY <2>2 DEF EndSwitch, Pop
    <3>2. /\ Top.siblings \cup paths \subseteq Path
          /\ ~Dead(Top.siblings \cup paths)
          /\ Returned(Top.siblings \cup paths, frames, Len(frames), v)
      BY <1>2, <1>3, <1>4 DEF Dead, Running, Returned
    <3>3. QED
      BY <3>1, <3>2
  <2>3. QED
    BY <2>1, <2>2
<1>6. /\ Sound(OR(Top.scope, flow), P, frames, Len(frames), v)
      /\ Follows(OR(Top.scope, flow), P, frames, Len(frames)-1, v)
  BY <1>1, <1>2, <1>3, <1>5, LoopSound
<1>7. QED
  BY <1>1, <1>5, <1>6, CloseStep

\* A statement that may be repeated, but is run once at least, ends.
LEMMA RepeatActions ==
    ASSUME IInv, EndDo \/ EndLabel, NEW v \in MustInit
    PROVE  Fits(flow', paths', frames', v)
<1>1. Analysing /\ frames # <<>> /\ Close(OR(Top.scope, flow), Repeat(paths))
  BY DEF EndDo, EndLabel, TopIs, Pop
<1>2. /\ Sound(flow, paths, frames, Len(frames), v) /\ v \in Fields
      /\ Follows(flow, paths, frames, Len(frames)-1, v)
      /\ Returned(paths, frames, Len(frames), v) /\ paths \subseteq Path
  BY <1>1, NowFits, TopFits
<1>3. /\ Sound(OR(Top.scope, flow), paths, frames, Len(frames), v)
      /\ Follows(OR(Top.scope, flow), paths, frames, Len(frames)-1, v)
  BY <1>1, <1>2, TopFits, PopSound, PopFollows
<1>4. /\ Repeat(paths) \subseteq Path
      /\ Dead(Repeat(paths)) <=> Dead(paths)
      /\ Filled(paths, v) => Filled(Repeat(paths), v)
      /\ Returned(Repeat(paths), frames, Len(frames), v)
  BY <1>2, RepeatLike
<1>5. /\ Sound(OR(Top.scope, flow), Repeat(paths), frames, Len(frames), v)
      /\ Follows(OR(Top.scope, flow), Repeat(paths), frames, Len(frames)-1, v)
  BY <1>3, <1>4 DEF Sound, FieldSound, CallSound, Follows
<1>6. QED
  BY <1>1, <1>4, <1>5, CloseStep

LEMMA NextCaseFits ==
    ASSUME IInv, NextCase, Typed', NEW v \in MustInit
    PROVE  Fits(flow', paths', frames', v)
<1> DEFINE n == Len(frames)
<1>1. Analysing /\ frames # <<>> /\ Top.kind \in NoExitKinds
  BY DEF NextCase, TopIs, NoExitKinds
<1>2. /\ n \in Nat /\ n > 0 /\ n \in 1..n /\ frames \in Seq(Frame) /\ v \in Fields
      /\ Top = frames[n] /\ frames[n] \in Frame /\ Fits(flow, paths, frames, v)
  BY <1>1, NowFits, TopFrame
<1>3. /\ frames' = [frames EXCEPT ![n].siblings = @ \cup paths]
      /\ paths' = {Nothing} /\ flow' = orCSX(flow, "label")
  BY DEF NextCase
<1>4. frames' \in Seq(Frame)
  BY DEF Typed
<1> HIDE DEF n
<1>5. \A i \in 1..n-1 : frames'[i] = frames[i]
  BY <1>2, <1>3, LenProperties DEF n
<1>6. Len(frames') = n
  BY <1>2, <1>3, <1>4, LenProperties DEF n
<1>7. frames'[n] = [frames[n] EXCEPT !.siblings = @ \cup paths]
  BY <1>2, <1>3, LenProperties DEF n
<1>8. Alike(orCSX(flow, "label"), flow, v)
  BY <1>2, LabelAlike
<1>9. Fits(orCSX(flow, "label"), {Nothing}, frames', v)
  BY <1>1, <1>2, <1>4, <1>5, <1>6, <1>7, <1>8, CaseFits DEF n
<1>10. QED
  BY <1>3, <1>9

-----------------------------------------------------------------------------
(* The results. *)

LEMMA TypeInit == Init => Typed
<1> SUFFICES ASSUME Init
             PROVE  Typed
  OBVIOUS
<1>1. flow \in CtorFlow
  BY DEF Init, CtorFlow
<1>2. frames \in Seq(Frame) /\ paths \subseteq Path
  BY EmptySeq, NothingRuns DEF Init
<1>3. statements \in 0..MaxStatements /\ ctorinit \subseteq Fields
  BY BoundAssumption DEF Init
<1>4. /\ cd \in BOOLEAN /\ deprecated \in BOOLEAN /\ implicit \in BOOLEAN
      /\ stage = "analysing"
  BY DEF Init
<1>5. QED
  BY <1>1, <1>2, <1>3, <1>4 DEF Typed

LEMMA TypePieces ==
    ASSUME Typed,
           \/ \E isSuper \in BOOLEAN : CtorCall(isSuper)
           \/ \E w \in Fields : modifyFieldVar(w)
           \/ Halt \/ Return
    PROVE  Typed'
<1>1. flow \in CtorFlow /\ ctorinit \subseteq Fields /\ deprecated \in BOOLEAN
  BY DEF Typed
<1>2. {"this_ctor", "super_ctor", "any_ctor", "halt", "return_"} \subseteq CSX
  BY DEF CSX
<1>3. ASSUME NEW isSuper \in BOOLEAN, CtorCall(isSuper)
      PROVE  Typed'
  <2> DEFINE q == [Nothing EXCEPT !.ctors = 1, !.delegated = ~isSuper]
             bit == IF isSuper THEN "super_ctor" ELSE "this_ctor"
             f == IF isSuper THEN flow ELSE Delegated(flow)
  <2>1. Piece(q) /\ UNCHANGED <<ctorinit, deprecated>>
    BY <1>3 DEF CtorCall
  <2>2. q \in Path
    BY Effects
  <2>3. f \in CtorFlow /\ {"any_ctor", bit} \in SUBSET CSX
    BY <1>1, <1>2, FlowTypes
  <2>4. flow' = f \/ flow' = [f EXCEPT !.callSuper = @ \cup {"any_ctor", bit}]
    BY <1>3 DEF CtorCall
  <2> HIDE DEF q, f
  <2>5. flow' \in CtorFlow
    BY <2>3, <2>4, FlowTypes
  <2>6. QED
    BY <1>1, <2>1, <2>2, <2>5, PieceTypes
<1>4. ASSUME NEW w \in Fields, modifyFieldVar(w)
      PROVE  Typed'
  <2> DEFINE q == [Nothing EXCEPT !.inits[w] = 1]
  <2>1. Piece(q) /\ ctorinit' = ctorinit \cup {w} /\ deprecated' \in BOOLEAN
    BY <1>1, <1>4 DEF modifyFieldVar
  <2>2. q \in Path
    BY Effects
  <2>3. flow' \in CtorFlow
    BY <1>1, <1>4, FlowTypes DEF modifyFieldVar
  <2>4. QED
    BY <1>1, <2>1, <2>2, <2>3, PieceTypes
<1>5. ASSUME Halt \/ Return
      PROVE  Typed'
  <2>1. PICK how \in {"halt", "return"}, bit \in {"halt", "return_"} :
           /\ Piece([Nothing EXCEPT !.ended = how]) /\ flow' = orCSX(flow, bit)
           /\ UNCHANGED <<ctorinit, deprecated>>
    BY <1>5 DEF Halt, Return
  <2>2. [Nothing EXCEPT !.ended = how] \in Path
    BY Effects
  <2>3. flow' \in CtorFlow
    BY <1>1, <1>2, <2>1, FlowTypes
  <2>4. QED
    BY <1>1, <2>1, <2>2, <2>3, PieceTypes
<1>6. QED
  BY <1>3, <1>4, <1>5

LEMMA TypeOpens ==
    ASSUME Typed, If \/ Question \/ AndAnd \/ For \/ Do \/ SwitchCase \/ Label
    PROVE  Typed'
<1>1. flow \in CtorFlow /\ orCSX(flow, "label") \in CtorFlow
  BY FlowTypes DEF Typed, CSX
<1>2. PICK k \in FrameKinds : Open(k, flow) \/ Open(k, orCSX(flow, "label"))
  BY DEF If, Question, AndAnd, For, Do, SwitchCase, Label,
         FrameKinds, ExpressionKinds, LoopKinds
<1>3. QED
  BY <1>1, <1>2, OpenTypes

LEMMA TypeBranches ==
    ASSUME Typed, Else \/ Colon
    PROVE  Typed'
<1>1. Analysing /\ frames # <<>>
  BY DEF Else, Colon, TopIs
<1>2. /\ flow \in CtorFlow /\ Top.saved \in CtorFlow /\ Top.scope \in CtorFlow
      /\ OR(Top.scope, flow) \in CtorFlow
  BY <1>1, TopFrame, FlowTypes DEF Typed, Frame
<1>3. \/ NextBranch("else", Top.saved, OR(Top.scope, flow))
      \/ NextBranch("second", Top.saved, flow)
  BY DEF Else, Colon
<1>4. QED
  BY <1>1, <1>2, <1>3, BranchTypes DEF FrameKinds, ExpressionKinds

LEMMA TypeNextCase ==
    ASSUME Typed, NextCase
    PROVE  Typed'
<1> DEFINE n == Len(frames)
           top == [frames[n] EXCEPT !.siblings = @ \cup paths]
<1>1. Analysing /\ frames # <<>>
  BY DEF NextCase, TopIs
<1>2. n \in 1..n /\ frames \in Seq(Frame) /\ frames[n] \in Frame
  BY <1>1, TopFrame
<1>3. top \in Frame
  BY <1>2 DEF Frame, Typed
<1>4. frames' = [frames EXCEPT ![n] = top]
  BY DEF NextCase
<1>5. frames' \in Seq(Frame)
  <2> HIDE DEF top, n
  <2>1. QED
    BY <1>2, <1>3, <1>4, ExceptSeq DEF n
<1>6. paths' \subseteq Path
  BY NothingRuns DEF NextCase
<1>7. flow' \in CtorFlow
  BY FlowTypes DEF NextCase, Typed, CSX
<1>8. QED
  BY <1>1, <1>5, <1>6, <1>7 DEF Typed, NextCase, Analysing

LEMMA TypeCloses ==
    ASSUME Typed, EndIf \/ EndCond \/ EndAndAnd \/ EndFor \/ EndDo \/ EndSwitch \/ EndLabel
    PROVE  Typed'
<1>1. Analysing /\ frames # <<>>
  BY DEF EndIf, EndCond, EndAndAnd, EndFor, EndDo, EndSwitch, EndLabel, TopIs
<1>2. /\ flow \in CtorFlow /\ Top.saved \in CtorFlow /\ Top.scope \in CtorFlow
      /\ Top.siblings \subseteq Path /\ paths \subseteq Path
  BY <1>1, TopFrame DEF Typed, Frame
<1>3. /\ OR(Top.scope, flow) \in CtorFlow
      /\ MergeFlow(flow, Top.saved) \in CtorFlow
      /\ MergeFlow(OR(Top.scope, flow), Top.saved) \in CtorFlow
  BY <1>2, FlowTypes
<1>4. /\ Top.siblings \cup paths \subseteq Path
      /\ {Nothing} \cup paths \subseteq Path
      /\ Repeat(paths) \subseteq Path
      /\ {Nothing} \cup Repeat(paths) \subseteq Path
  BY <1>2, NothingRuns, ExtendRuns DEF Repeat
<1>5. PICK f \in CtorFlow, P \in SUBSET Path : Close(f, P)
  <2>1. CASE EndIf
    BY <2>1, <1>3, <1>4 DEF EndIf, CloseMerging
  <2>2. CASE EndCond
    BY <2>2, <1>3, <1>4 DEF EndCond, CloseMerging
  <2>3. CASE EndAndAnd
    BY <2>3, <1>3, <1>4 DEF EndAndAnd, CloseMerging
  <2>4. CASE EndFor
    BY <2>4, <1>3, <1>4 DEF EndFor, Pop
  <2>5. CASE EndDo \/ EndLabel
    BY <2>5, <1>3, <1>4 DEF EndDo, EndLabel, Pop
  <2>6. CASE EndSwitch
    BY <2>6, <1>3, <1>4 DEF EndSwitch, Pop
  <2>7. QED
    BY <2>1, <2>2, <2>3, <2>4, <2>5, <2>6
<1>6. QED
  BY <1>1, <1>5, CloseTypes

LEMMA TypeEndBody ==
    ASSUME Typed, EndBody
    PROVE  Typed'
<1>1. /\ stage' \in {"accepted", "rejected"} /\ frames' = <<>> /\ implicit' \in BOOLEAN
      /\ UNCHANGED <<cd, ctorinit, frames, paths, statements, deprecated>>
  BY DEF EndBody, InsertSuper, Typed
<1>2. flow' \in CtorFlow
  <2> DEFINE c == IF InsertSuper THEN {"any_ctor", "super_ctor"} ELSE flow.callSuper
  <2>1. c \in SUBSET CSX /\ flow \in CtorFlow
    BY DEF Typed, CtorFlow, CSX
  <2>2. flow' = [flow EXCEPT !.callSuper = c]
    BY DEF EndBody
  <2> HIDE DEF c
  <2>3. QED
    BY <2>1, <2>2 DEF CtorFlow
<1>3. QED
  BY <1>1, <1>2 DEF Typed

LEMMA TypeStep == Typed /\ [Next]_vars => Typed'
<1> SUFFICES ASSUME Typed, [Next]_vars
             PROVE  Typed'
  OBVIOUS
<1>1. CASE \/ \E isSuper \in BOOLEAN : CtorCall(isSuper)
           \/ \E w \in Fields : Assign(w) \/ TakeAddress(w)
           \/ Halt \/ Return
  BY <1>1, TypePieces DEF Assign, TakeAddress
<1>2. CASE If \/ Question \/ AndAnd \/ For \/ Do \/ SwitchCase \/ Label
  BY <1>2, TypeOpens
<1>3. CASE Else \/ Colon
  BY <1>3, TypeBranches
<1>4. CASE NextCase
  BY <1>4, TypeNextCase
<1>5. CASE EndIf \/ EndCond \/ EndAndAnd \/ EndFor \/ EndDo \/ EndSwitch \/ EndLabel
  BY <1>5, TypeCloses
<1>6. CASE EndBody
  BY <1>6, TypeEndBody
<1>7. CASE UNCHANGED vars
  BY <1>7 DEF Typed, vars
<1>8. QED
  BY <1>1, <1>2, <1>3, <1>4, <1>5, <1>6, <1>7 DEF Next

-----------------------------------------------------------------------------
(* No flag is set without the one it implies. *)

FramesFormed(fs) == \A i \in 1..Len(fs) : WellFormed(fs[i].scope) /\ WellFormed(fs[i].saved)

\* A merge makes no flag that goes without the one it implies.
LEMMA MergeFormed ==
    ASSUME NEW a, NEW b,
           a \cap Ctors # {} => "any_ctor" \in a, b \cap Ctors # {} => "any_ctor" \in b
    PROVE  LET c == mergeCallSuper(a, b).csx IN c \cap Ctors # {} => "any_ctor" \in c
  BY CtorsCalled DEF HasCalled, mergeCallSuper, Merged

LEMMA MergeFieldFormed ==
    ASSUME NEW x, NEW y,
           "deprecate_18719" \in x => "this_ctor" \in x,
           "deprecate_18719" \in y => "this_ctor" \in y
    PROVE  LET z == mergeFieldInit(x, y).csx IN "deprecate_18719" \in z => "this_ctor" \in z
  BY DEF mergeFieldInit, Merged

\* Nor does anything else that is done with flows.
LEMMA FlowsFormed ==
    ASSUME NEW f \in CtorFlow, NEW g \in CtorFlow, WellFormed(f), WellFormed(g)
    PROVE  /\ \A bit \in {"label", "halt", "return_"} : WellFormed(orCSX(f, bit))
           /\ WellFormed(OR(f, g))
           /\ WellFormed(MergeFlow(f, g))
           /\ WellFormed(Delegated(f))
           /\ \A bit : WellFormed([f EXCEPT !.callSuper = @ \cup {"any_ctor", bit}])
           /\ \A v \in Fields : WellFormed([f EXCEPT !.fieldinit[v] = @ \cup {"this_ctor"}])
<1>1. f.fieldinit \in [Fields -> SUBSET CSX] /\ g.fieldinit \in [Fields -> SUBSET CSX]
  BY DEF CtorFlow
<1>2. ASSUME NEW bit \in {"label", "halt", "return_"} PROVE WellFormed(orCSX(f, bit))
  BY <1>2 DEF WellFormed, orCSX, Ctors
<1>3. WellFormed(OR(f, g))
  BY DEF WellFormed, OR, Ctors
<1>4. WellFormed(MergeFlow(f, g))
  <2>1. LET c == mergeCallSuper(f.callSuper, g.callSuper).csx
        IN  c \cap Ctors # {} => "any_ctor" \in c
    BY MergeFormed DEF WellFormed
  <2>2. \A v \in Fields : LET z == mergeFieldInit(f.fieldinit[v], g.fieldinit[v]).csx
                          IN  "deprecate_18719" \in z => "this_ctor" \in z
    BY MergeFieldFormed DEF WellFormed
  <2>3. QED
    BY <2>1, <2>2 DEF WellFormed, MergeFlow
<1>5. WellFormed(Delegated(f))
  BY <1>1 DEF WellFormed, Delegated, CtorFlow
<1>6. ASSUME NEW bit PROVE WellFormed([f EXCEPT !.callSuper = @ \cup {"any_ctor", bit}])
  BY DEF WellFormed, CtorFlow
<1>7. ASSUME NEW v \in Fields
      PROVE  WellFormed([f EXCEPT !.fieldinit[v] = @ \cup {"this_ctor"}])
  BY <1>1 DEF WellFormed, CtorFlow
<1>8. QED
  BY <1>2, <1>3, <1>4, <1>5, <1>6, <1>7

LEMMA FormedPieces ==
    ASSUME TypeOK,
           \/ \E isSuper \in BOOLEAN : CtorCall(isSuper)
           \/ \E w \in Fields : modifyFieldVar(w)
           \/ Halt \/ Return
    PROVE  WellFormed(flow') /\ frames' = frames
<1>1. flow \in CtorFlow /\ WellFormed(flow)
  BY DEF TypeOK, Typed
<1>2. ASSUME NEW isSuper \in BOOLEAN, CtorCall(isSuper)
      PROVE  WellFormed(flow') /\ frames' = frames
  <2> DEFINE q == [Nothing EXCEPT !.ctors = 1, !.delegated = ~isSuper]
             bit == IF isSuper THEN "super_ctor" ELSE "this_ctor"
             f == IF isSuper THEN flow ELSE Delegated(flow)
  <2>1. f \in CtorFlow /\ WellFormed(f)
    BY <1>1, FlowTypes, FlowsFormed
  <2>2. flow' = f \/ flow' = [f EXCEPT !.callSuper = @ \cup {"any_ctor", bit}]
    BY <1>2 DEF CtorCall
  <2>3. Piece(q)
    BY <1>2 DEF CtorCall
  <2> HIDE DEF q, f, bit
  <2>4. QED
    BY <2>1, <2>2, <2>3, FlowsFormed DEF Piece
<1>3. ASSUME NEW w \in Fields, modifyFieldVar(w)
      PROVE  WellFormed(flow') /\ frames' = frames
  BY <1>1, <1>3, FlowsFormed DEF modifyFieldVar, Piece
<1>4. ASSUME Halt \/ Return
      PROVE  WellFormed(flow') /\ frames' = frames
  BY <1>1, <1>4, FlowsFormed DEF Halt, Return, Piece
<1>5. QED
  BY <1>2, <1>3, <1>4

LEMMA FormedOpens ==
    ASSUME TypeOK, If \/ Question \/ AndAnd \/ For \/ Do \/ SwitchCase \/ Label
    PROVE  WellFormed(flow') /\ FramesFormed(frames')
<1>1. flow \in CtorFlow /\ WellFormed(flow) /\ FramesFormed(frames) /\ frames \in Seq(Frame)
  BY DEF TypeOK, Typed, FramesFormed
<1>2. WellFormed(orCSX(flow, "label"))
  BY <1>1, FlowsFormed
<1>3. PICK k \in FrameKinds : Open(k, flow) \/ Open(k, orCSX(flow, "label"))
  BY DEF If, Question, AndAnd, For, Do, SwitchCase, Label,
         FrameKinds, ExpressionKinds, LoopKinds
<1>4. WellFormed(flow') /\ frames' = Append(frames, NewFrame(k))
  BY <1>1, <1>2, <1>3 DEF Open
<1>5. WellFormed(NewFrame(k).scope) /\ WellFormed(NewFrame(k).saved)
  BY <1>1 DEF NewFrame
<1> HIDE DEF NewFrame
<1>6. FramesFormed(Append(frames, NewFrame(k)))
  BY <1>1, <1>5, AppendProperties DEF FramesFormed
<1>7. QED
  BY <1>4, <1>6

\* Of the frame that is innermost the kept flows are in order, and of the others too.
LEMMA TopFormed ==
    ASSUME TypeOK, frames # <<>>
    PROVE  /\ flow \in CtorFlow /\ Top.scope \in CtorFlow /\ Top.saved \in CtorFlow
           /\ WellFormed(flow) /\ WellFormed(Top.scope) /\ WellFormed(Top.saved)
           /\ FramesFormed(Front(frames))
<1>1. Typed /\ WellFormed(flow) /\ FramesFormed(frames)
  BY DEF TypeOK, FramesFormed
<1>2. /\ Len(frames) \in Nat /\ Len(frames) > 0
      /\ Top = frames[Len(frames)] /\ Top \in Frame
      /\ Front(frames) \in Seq(Frame) /\ Len(Front(frames)) = Len(frames) - 1
      /\ \A i \in 1..Len(frames)-1 : Front(frames)[i] = frames[i]
  BY <1>1, TopFrame
<1>3. WellFormed(Top.scope) /\ WellFormed(Top.saved)
  BY <1>1, <1>2 DEF FramesFormed
<1>4. FramesFormed(Front(frames))
  BY <1>1, <1>2 DEF FramesFormed
<1>5. flow \in CtorFlow /\ Top.scope \in CtorFlow /\ Top.saved \in CtorFlow
  BY <1>1, <1>2 DEF Typed, Frame
<1>6. QED
  BY <1>1, <1>3, <1>4, <1>5

LEMMA FormedBranches ==
    ASSUME TypeOK, Else \/ Colon
    PROVE  WellFormed(flow') /\ FramesFormed(frames')
<1>1. frames # <<>>
  BY DEF Else, Colon, TopIs
<1>2. WellFormed(OR(Top.scope, flow))
  BY <1>1, TopFormed, FlowsFormed
<1>3. PICK k, g : NextBranch(k, Top.saved, g) /\ WellFormed(g)
  BY <1>1, <1>2, TopFormed DEF Else, Colon
<1> DEFINE top == [Top EXCEPT !.kind = k, !.scope = Top.saved, !.saved = g,
                              !.siblings = @ \cup paths]
<1>4. Top \in Frame /\ Front(frames) \in Seq(Frame)
  BY <1>1, TopFrame DEF TypeOK
<1>5. top.scope = Top.saved /\ top.saved = g
  BY <1>4 DEF Frame
<1>6. frames' = Append(Front(frames), top) /\ flow' = Top.saved
  BY <1>3 DEF NextBranch
<1> HIDE DEF top
<1>7. WellFormed(top.scope) /\ WellFormed(top.saved) /\ FramesFormed(Front(frames))
  BY <1>1, <1>3, <1>5, TopFormed
<1>8. FramesFormed(Append(Front(frames), top))
  BY <1>4, <1>7, AppendProperties DEF FramesFormed
<1>9. QED
  BY <1>1, <1>6, <1>8, TopFormed

LEMMA FormedNextCase ==
    ASSUME TypeOK, NextCase
    PROVE  WellFormed(flow') /\ FramesFormed(frames')
<1>1. frames # <<>> /\ FramesFormed(frames) /\ frames \in Seq(Frame)
  BY DEF NextCase, TopIs, TypeOK, Typed, FramesFormed
<1>2. \A i \in 1..Len(frames) : frames[i] \in Frame
  BY <1>1, ElementOfSeq
<1>3. Len(frames') = Len(frames) /\ \A i \in 1..Len(frames) :
         frames'[i].scope = frames[i].scope /\ frames'[i].saved = frames[i].saved
  BY <1>1, <1>2 DEF NextCase, Frame
<1>4. WellFormed(flow')
  BY <1>1, TopFormed, FlowsFormed DEF NextCase
<1>5. QED
  BY <1>1, <1>3, <1>4 DEF FramesFormed

LEMMA FormedCloses ==
    ASSUME TypeOK, EndIf \/ EndCond \/ EndAndAnd \/ EndFor \/ EndDo \/ EndSwitch \/ EndLabel
    PROVE  WellFormed(flow') /\ FramesFormed(frames')
<1>1. frames # <<>>
  BY DEF EndIf, EndCond, EndAndAnd, EndFor, EndDo, EndSwitch, EndLabel, TopIs
<1>2. /\ flow \in CtorFlow /\ Top.scope \in CtorFlow /\ Top.saved \in CtorFlow
      /\ WellFormed(flow) /\ WellFormed(Top.scope) /\ WellFormed(Top.saved)
      /\ FramesFormed(Front(frames))
  BY <1>1, TopFormed
<1>3. OR(Top.scope, flow) \in CtorFlow /\ WellFormed(OR(Top.scope, flow))
  BY <1>2, FlowTypes, FlowsFormed
<1>4. WellFormed(MergeFlow(flow, Top.saved)) /\ WellFormed(MergeFlow(OR(Top.scope, flow), Top.saved))
  BY <1>2, <1>3, FlowsFormed
<1>5. PICK f, P : Close(f, P) /\ WellFormed(f)
  BY <1>3, <1>4 DEF EndIf, EndCond, EndAndAnd, EndFor, EndDo, EndSwitch, EndLabel,
                    Pop, CloseMerging
<1>6. QED
  BY <1>2, <1>5 DEF Close

LEMMA FormedEndBody ==
    ASSUME TypeOK, EndBody
    PROVE  WellFormed(flow') /\ frames' = frames
<1> DEFINE c == IF InsertSuper THEN {"any_ctor", "super_ctor"} ELSE flow.callSuper
<1>1. flow \in CtorFlow /\ WellFormed(flow)
  BY DEF TypeOK, Typed
<1>2. flow' = [flow EXCEPT !.callSuper = c] /\ frames' = frames
  BY DEF EndBody
<1>3. c \cap Ctors # {} => "any_ctor" \in c
  BY <1>1 DEF WellFormed
<1> HIDE DEF c
<1>4. QED
  BY <1>1, <1>2, <1>3 DEF WellFormed, CtorFlow

LEMMA FormedStep == TypeOK /\ [Next]_vars => TypeOK'
<1> SUFFICES ASSUME TypeOK, [Next]_vars
             PROVE  TypeOK'
  OBVIOUS
<1>1. Typed' /\ FramesFormed(frames)
  BY TypeStep DEF TypeOK, FramesFormed
<1>2. WellFormed(flow') /\ FramesFormed(frames')
  <2>1. CASE \/ \E isSuper \in BOOLEAN : CtorCall(isSuper)
             \/ \E w \in Fields : Assign(w) \/ TakeAddress(w)
             \/ Halt \/ Return
    BY <1>1, <2>1, FormedPieces DEF Assign, TakeAddress
  <2>2. CASE If \/ Question \/ AndAnd \/ For \/ Do \/ SwitchCase \/ Label
    BY <2>2, FormedOpens
  <2>3. CASE Else \/ Colon
    BY <2>3, FormedBranches
  <2>4. CASE NextCase
    BY <2>4, FormedNextCase
  <2>5. CASE EndIf \/ EndCond \/ EndAndAnd \/ EndFor \/ EndDo \/ EndSwitch \/ EndLabel
    BY <2>5, FormedCloses
  <2>6. CASE EndBody
    BY <1>1, <2>6, FormedEndBody
  <2>7. CASE UNCHANGED vars
    BY <1>1, <2>7 DEF TypeOK, vars
  <2>8. QED
    BY <2>1, <2>2, <2>3, <2>4, <2>5, <2>6, <2>7 DEF Next
<1>3. QED
  BY <1>1, <1>2 DEF TypeOK, FramesFormed

LEMMA FormedInit == Init => TypeOK
<1> SUFFICES ASSUME Init
             PROVE  TypeOK
  OBVIOUS
<1>1. WellFormed(flow)
  BY DEF Init, WellFormed
<1>2. Typed /\ frames = <<>>
  BY TypeInit DEF Init
<1>3. QED
  BY <1>1, <1>2 DEF TypeOK

\* Every variable stays in its range, and of the flags none is ever set without the
\* one it implies: through the merges of ctorflow.d, the leaving of scopes and the
\* calls of this(), in all statements that are still open.
THEOREM TypeCorrect == Spec => []TypeOK
  BY FormedInit, FormedStep, PTL DEF Spec

LEMMA FlowInit == Init => FlowInv
<1> SUFFICES ASSUME Init, NEW v \in MustInit
             PROVE  Fits(flow, paths, frames, v)
  BY DEF FlowInv
<1>1. /\ flow.callSuper = {} /\ flow.fieldinit[v] = {} /\ Len(frames) = 0
      /\ paths = {Nothing}
  BY FieldsAssumption, EmptySeq DEF Init
<1>2. Sound(flow, paths, frames, Len(frames), v)
  BY <1>1 DEF Sound, FieldSound, CallSound, HasCalled
<1>3. 1..Len(frames) = {}
  BY <1>1
<1>4. Returned(paths, frames, Len(frames), v)
  BY <1>1, NothingRuns
<1>5. QED
  BY <1>2, <1>3, <1>4 DEF Fits, Follows

\* Each step of the analysis keeps what the flags say true.
LEMMA FlowStep ==
    ASSUME IInv, ~ExitsInLoops, Next, Typed'
    PROVE  FlowInv'
<1> SUFFICES ASSUME stage' = "analysing", errors' = {}, NEW v \in MustInit
             PROVE  Fits(flow', paths', frames', v)
  BY DEF FlowInv
<1>1. CASE \E isSuper \in BOOLEAN : CtorCall(isSuper)
  BY <1>1, CtorCallFits
<1>2. CASE \E w \in Fields : Assign(w) \/ TakeAddress(w)
  BY <1>2, FieldFits DEF Assign, TakeAddress
<1>3. CASE Halt \/ Return
  BY <1>3, ExitFits
<1>4. CASE If \/ Question \/ AndAnd \/ For \/ Do \/ SwitchCase \/ Label
  BY <1>4, OpenActions
<1>5. CASE Else \/ Colon
  BY <1>5, BranchActions
<1>6. CASE NextCase
  BY <1>6, NextCaseFits
<1>7. CASE EndIf \/ EndCond \/ EndAndAnd
  BY <1>7, MergeActions
<1>8. CASE EndFor \/ EndSwitch
  BY <1>8, LoopActions
<1>9. CASE EndDo \/ EndLabel
  BY <1>9, RepeatActions
<1>10. CASE EndBody
  BY <1>10 DEF EndBody
<1>11. QED
  BY <1>1, <1>2, <1>3, <1>4, <1>5, <1>6, <1>7, <1>8, <1>9, <1>10 DEF Next

\* When the end of the body is accepted, every path has done its part.
LEMMA AcceptedFilled ==
    ASSUME IInv, EndBody, stage' = "accepted",
           NEW p \in paths, NEW v \in MustInit, p.ended # "halt"
    PROVE  GoodPath(p, v)
<1>1. Analysing /\ Len(frames) = 0 /\ FieldsLeftOut = {}
  BY EmptySeq DEF EndBody
<1>2. /\ Sound(flow, paths, frames, Len(frames), v)
      /\ Returned(paths, frames, Len(frames), v) /\ paths \subseteq Path
  BY <1>1, NowFits
<1>3. ~Below(frames, 0, v)
  BY DEF Below
<1>4. CASE p.ended = "return"
  BY <1>1, <1>2, <1>3, <1>4 DEF Returned
<1>5. CASE p.ended = "no"
  <2>1. p \in Running(paths) /\ ~Dead(paths)
    BY <1>5 DEF Running, Dead
  <2>2. "this_ctor" \in flow.fieldinit[v]
    <3>1. CASE "this_ctor" \in flow.callSuper
      BY <1>2, <2>1, <3>1 DEF Sound, CallSound
    <3>2. CASE "this_ctor" \notin flow.callSuper
      BY <1>1, <3>2 DEF FieldsLeftOut
    <3>3. QED
      BY <3>1, <3>2
  <2>3. QED
    BY <1>1, <1>2, <1>3, <2>1, <2>2 DEF Sound, FieldSound, Filled
<1>6. QED
  BY <1>2, <1>4, <1>5 DEF Path

LEMMA SkipStep ==
    ASSUME IInv, NoFieldSkipped, [Next]_vars
    PROVE  NoFieldSkipped'
<1>1. CASE EndBody
  <2>1. SUFFICES ASSUME stage' = "accepted", NEW p \in paths', NEW v \in MustInit,
                        p.ended # "halt"
                 PROVE  p.delegated \/ p.inits[v] > 0
    BY DEF NoFieldSkipped, Accepted
  <2>2. p \in paths
    BY <1>1 DEF EndBody
  <2>3. QED
    BY <1>1, <2>1, <2>2, AcceptedFilled DEF GoodPath
<1>2. CASE UNCHANGED vars
  BY <1>2 DEF NoFieldSkipped, Accepted, vars
<1>3. CASE Next /\ ~EndBody
  <2>1. stage' = stage /\ stage = "analysing"
    BY <1>3 DEF Next, CtorCall, Assign, TakeAddress, modifyFieldVar, Halt, Return, Piece,
         If, Question, AndAnd, For, Do, SwitchCase, Label, Open, CanAdd, Analysing,
         Else, Colon, NextBranch, NextCase, EndIf, EndCond, EndAndAnd, CloseMerging,
         EndFor, EndDo, EndSwitch, EndLabel, Pop, Close
  <2>2. QED
    BY <2>1 DEF NoFieldSkipped, Accepted
<1>4. QED
  BY <1>1, <1>2, <1>3

\* A constructor is accepted only if each of its paths that ends normally has
\* initialised every field that has no default, or has called this(): the flags
\* of ctorflow.d, merged pair by pair, lose none, whatever the body, provided
\* that no loop or switch contains a return or an assert(0).
THEOREM NothingSkipped ==
    ASSUME ~ExitsInLoops
    PROVE  Spec => []NoFieldSkipped
<1> DEFINE Inv == IInv /\ NoFieldSkipped
<1>1. Init => Inv
  BY TypeInit, FlowInit DEF IInv, Init, NoFieldSkipped, Accepted
<1>2. Inv /\ [Next]_vars => Inv'
  <2> SUFFICES ASSUME Inv, [Next]_vars
               PROVE  Inv'
    OBVIOUS
  <2>1. Typed'
    BY TypeStep DEF IInv
  <2>2. FlowInv'
    <3>1. CASE Next
      BY <2>1, <3>1, FlowStep
    <3>2. CASE UNCHANGED vars
      BY <3>2 DEF IInv, FlowInv, vars
    <3>3. QED
      BY <3>1, <3>2
  <2>3. QED
    BY <2>1, <2>2, SkipStep DEF IInv
<1>3. QED
  BY <1>1, <1>2, PTL DEF Spec

-----------------------------------------------------------------------------
(* What the flags tell of the calls and of the fields in V, which are      *)
(* initialised once at most.  Here the executions W are those from the     *)
(* start of the body, so that two flows that are merged speak of the same. *)

Called(c) == IF HasCalled(c) THEN 1 ELSE 0

CallsTell(c, W) ==
    /\ "halt" \in c => Dead(W)
    /\ "return_" \in c /\ "any_ctor" \in c => Dead(W)
    /\ HasCalled(c) => "any_ctor" \in c
    /\ Dead(W) => "halt" \in c \/ "return_" \in c
    /\ "return_" \in c /\ "any_ctor" \in c => HasCalled(c) \/ "halt" \in c
    /\ \A p \in Running(W) : p.ctors = Called(c)
    /\ "halt" \in c => \E p \in W : p.ended = "halt"
    /\ ~ExitsDiffer(W) /\ (\E p \in W : p.ended = "return") =>
          "return_" \in c \/ "halt" \in c \/ "any_ctor" \in c
    /\ ~ExitsDiffer(W) => \A p \in W : p.ended = "return" =>
          p.ctors = IF "any_ctor" \in c THEN 1 ELSE 0
    /\ "any_ctor" \in c => \E p \in W : p.ctors > 0
    /\ "return_" \in c /\ "any_ctor" \notin c /\ "halt" \notin c =>
          \E p \in W : p.ended = "return" /\ p.ctors = 0

InitsTell(x, W, v) ==
    /\ "halt" \in x \/ "return_" \in x => Dead(W)
    /\ \A p \in W : p.inits[v] <= 1
    /\ "this_ctor" \notin x => \A p \in Running(W) : p.inits[v] = 0

Tells(V, f, W) == /\ CallsTell(f.callSuper, W)
                  /\ \A v \in V : InitsTell(f.fieldinit[v], W, v)

\* From the start of the body through frame i, and then P.
Prefix(fs, i) == IF i = 0 THEN {Nothing} ELSE fs[i].whole
From(fs, i, P) == Extend(Prefix(fs, i), P)

\* What is repeated calls no constructor and initialises no field of V.
RepeatKinds == LoopKinds \cup {"label"}

\* The flow f against the frames 1..n around it.
FlagsKept(V, f, fs, n) ==
    \A j \in 1..n :
        LET s == fs[j].scope.callSuper
            c == f.callSuper
        IN  /\ Grows(s, c)
            /\ fs[j].kind \in RepeatKinds =>
                  /\ HasCalled(c) => HasCalled(s)
                  /\ "any_ctor" \in c => "any_ctor" \in s
            /\ fs[j].kind = "label" =>
                  /\ "label" \in c \/ "halt" \in c
                  /\ \A v \in V : "label" \in f.fieldinit[v] \/ "halt" \in f.fieldinit[v]
            /\ fs[j].kind \in NoExitKinds => ("return_" \in c => "return_" \in s)

\* So do the executions P of a part of frame n.
PathsKept(V, P, fs, n) ==
    \A j \in 1..n :
        /\ fs[j].kind \in RepeatKinds => \A p \in P, v \in V : p.inits[v] = 0
        /\ fs[j].kind \in NoExitKinds => \A p \in P : p.ended = "no"

FrameTells(V, fs, i) ==
    LET frame == fs[i]
        Q == SavedPart(frame)
    IN  /\ ~Dead(frame.whole)
        /\ frame.whole = From(fs, i-1, frame.before)
        /\ frame.kind \in SecondParts => frame.siblings # {}
        /\ frame.kind \in {"then", "first"} => frame.siblings = {}
        /\ Tells(V, frame.scope, frame.whole)
        /\ Tells(V, frame.saved, From(fs, i, Q))
        /\ FlagsKept(V, frame.scope, fs, i-1) /\ FlagsKept(V, frame.saved, fs, i-1)
        /\ PathsKept(V, frame.before, fs, i-1) /\ PathsKept(V, Q, fs, i-1)
        /\ frame.kind \in NoExitKinds =>
              \A p \in frame.siblings : /\ p.ended = "no" /\ p.ctors = 0
                                        /\ \A v \in V : p.inits[v] = 0

BodyTells(V, f, P, fs) ==
    /\ P # {}
    /\ Tells(V, f, From(fs, Len(fs), P))
    /\ FlagsKept(V, f, fs, Len(fs)) /\ PathsKept(V, P, fs, Len(fs))
    /\ \A i \in 1..Len(fs) : FrameTells(V, fs, i)

\* A second initialisation that is deprecated only is let pass.
Watched == IF deprecated THEN {} ELSE Immutable

TellInv == Analysing => BodyTells(Watched, flow, paths, frames)

-----------------------------------------------------------------------------
(* More on executions one after the other. *)

\* An execution is told by its parts.
LEMMA PathParts ==
    ASSUME NEW p \in Path
    PROVE  /\ p.ctors \in 0..2 /\ p.inits \in [Fields -> 0..2] /\ p.delegated \in BOOLEAN
           /\ p.ended \in {"no", "return", "halt"}
           /\ p = [ctors |-> p.ctors, inits |-> p.inits, delegated |-> p.delegated,
                   ended |-> p.ended]
  BY DEF Path

LEMMA TwiceSums ==
    ASSUME NEW k \in 0..2, NEW m \in 0..2, NEW n \in 0..2
    PROVE  /\ AtMostTwice(k + m) \in 0..2
           /\ AtMostTwice(k + 0) = k /\ AtMostTwice(0 + k) = k
           /\ AtMostTwice(k + AtMostTwice(m + n)) = AtMostTwice(AtMostTwice(k + m) + n)
           /\ k + m <= 2 => AtMostTwice(k + m) = k + m
           /\ k > 0 \/ m > 0 => AtMostTwice(k + m) > 0
  BY DEF AtMostTwice

\* What comes of two executions in a row.
LEMMA ThenParts ==
    ASSUME NEW p \in Path, NEW q \in Path
    PROVE  /\ Then(p, q) \in Path
           /\ Then(p, q).ctors = AtMostTwice(p.ctors + q.ctors)
           /\ Then(p, q).ended = q.ended
           /\ Then(p, q).delegated <=> p.delegated \/ q.delegated
           /\ \A v \in Fields : Then(p, q).inits[v] =
                 IF p.delegated THEN p.inits[v] ELSE AtMostTwice(p.inits[v] + q.inits[v])
<1>1. Then(p, q) \in Path
  BY ThenPath
<1>2. QED
  BY <1>1 DEF Then

LEMMA SamePath ==
    ASSUME NEW p \in Path, NEW q \in Path, p.ctors = q.ctors, p.ended = q.ended,
           p.delegated <=> q.delegated, \A v \in Fields : p.inits[v] = q.inits[v]
    PROVE  p = q
<1>1. p.inits = q.inits
  <2>1. p.inits \in [Fields -> 0..2] /\ q.inits \in [Fields -> 0..2]
    BY PathParts
  <2>2. QED
    BY <2>1
<1>2. p.delegated = q.delegated
  BY PathParts
<1>3. QED
  BY <1>1, <1>2, PathParts

LEMMA ThenNothing ==
    ASSUME NEW p \in Path
    PROVE  Then(Nothing, p) = p /\ (p.ended = "no" => Then(p, Nothing) = p)
<1>1. /\ Nothing \in Path /\ Nothing.ctors = 0 /\ Nothing.delegated = FALSE
      /\ \A v \in Fields : Nothing.inits[v] = 0
  BY NothingRuns DEF Nothing
<1>2. \A k \in 0..2 : AtMostTwice(k + 0) = k /\ AtMostTwice(0 + k) = k
  BY TwiceSums
<1>3. /\ p.ctors \in 0..2 /\ p.delegated \in BOOLEAN /\ p.inits \in [Fields -> 0..2]
      /\ \A v \in Fields : p.inits[v] \in 0..2
  BY PathParts
<1>4. Then(Nothing, p) = p
  <2> DEFINE r == Then(Nothing, p)
  <2>1. r \in Path /\ r.ctors = p.ctors /\ r.ended = p.ended /\ (r.delegated <=> p.delegated)
    BY <1>1, <1>2, <1>3, ThenParts
  <2>2. \A v \in Fields : r.inits[v] = p.inits[v]
    BY <1>1, <1>2, <1>3, ThenParts
  <2> HIDE DEF r
  <2>3. r = p
    BY <2>1, <2>2, SamePath
  <2>4. QED
    BY <2>3 DEF r
<1>5. ASSUME p.ended = "no" PROVE Then(p, Nothing) = p
  <2> DEFINE r == Then(p, Nothing)
  <2>1. r \in Path /\ r.ctors = p.ctors /\ r.ended = p.ended /\ (r.delegated <=> p.delegated)
    BY <1>1, <1>2, <1>3, <1>5, NothingRuns, ThenParts
  <2>2. \A v \in Fields : r.inits[v] = p.inits[v]
    BY <1>1, <1>2, <1>3, ThenParts
  <2> HIDE DEF r
  <2>3. r = p
    BY <2>1, <2>2, SamePath
  <2>4. QED
    BY <2>3 DEF r
<1>6. QED
  BY <1>4, <1>5

LEMMA ThenAssociative ==
    ASSUME NEW p \in Path, NEW q \in Path, NEW r \in Path
    PROVE  Then(p, Then(q, r)) = Then(Then(p, q), r)
<1> DEFINE a == Then(p, Then(q, r))
           b == Then(Then(p, q), r)
<1>1. Then(p, q) \in Path /\ Then(q, r) \in Path /\ a \in Path /\ b \in Path
  BY ThenPath
<1>2. /\ p.ctors \in 0..2 /\ q.ctors \in 0..2 /\ r.ctors \in 0..2
      /\ \A v \in Fields : p.inits[v] \in 0..2 /\ q.inits[v] \in 0..2 /\ r.inits[v] \in 0..2
  BY PathParts
<1>3. a.ctors = b.ctors
  <2>1. /\ a.ctors = AtMostTwice(p.ctors + AtMostTwice(q.ctors + r.ctors))
        /\ b.ctors = AtMostTwice(AtMostTwice(p.ctors + q.ctors) + r.ctors)
    BY <1>1, ThenParts
  <2>2. QED
    BY <1>2, <2>1, TwiceSums
<1>4. a.ended = b.ended /\ (a.delegated <=> b.delegated)
  BY <1>1, ThenParts
<1>5. ASSUME NEW v \in Fields PROVE a.inits[v] = b.inits[v]
  <2> DEFINE m == p.inits[v]
             n == q.inits[v]
             k == r.inits[v]
  <2>1. /\ Then(q, r).inits[v] = IF q.delegated THEN n ELSE AtMostTwice(n + k)
        /\ Then(p, q).inits[v] = IF p.delegated THEN m ELSE AtMostTwice(m + n)
        /\ Then(p, q).delegated <=> p.delegated \/ q.delegated
    BY ThenParts
  <2>2. /\ a.inits[v] = IF p.delegated THEN m ELSE AtMostTwice(m + Then(q, r).inits[v])
        /\ b.inits[v] = IF Then(p, q).delegated THEN Then(p, q).inits[v]
                        ELSE AtMostTwice(Then(p, q).inits[v] + k)
    BY <1>1, ThenParts
  <2>3. AtMostTwice(m + AtMostTwice(n + k)) = AtMostTwice(AtMostTwice(m + n) + k)
    BY <1>2, TwiceSums
  <2>4. QED
    BY <2>1, <2>2, <2>3
<1> HIDE DEF a, b
<1>6. a = b
  BY <1>1, <1>3, <1>4, <1>5, SamePath
<1>7. QED
  BY <1>6 DEF a, b

\* What is in Extend(P, Q).
LEMMA ExtendMembers ==
    ASSUME NEW P, NEW Q, NEW r
    PROVE  r \in Extend(P, Q) <=> \/ r \in P /\ r.ended # "no"
                                 \/ \E p \in P, q \in Q : p.ended = "no" /\ r = Then(p, q)
  BY DEF Extend, Running

LEMMA ExtendNothing ==
    ASSUME NEW P, P \subseteq Path
    PROVE  Extend(P, {Nothing}) = P /\ Extend({Nothing}, P) = P
<1>1. Nothing.ended = "no"
  BY NothingRuns
<1>2. \A r : r \in Extend(P, {Nothing}) <=> r \in P
  BY ThenNothing, ExtendMembers
<1>3. \A r : r \in Extend({Nothing}, P) <=> r \in P
  BY <1>1, ThenNothing, ExtendMembers
<1>4. QED
  BY <1>2, <1>3

LEMMA ExtendUnion ==
    ASSUME NEW P, NEW Q, NEW R
    PROVE  Extend(P, Q \cup R) = Extend(P, Q) \cup Extend(P, R)
<1>1. \A r : r \in Extend(P, Q \cup R) <=> r \in Extend(P, Q) \cup Extend(P, R)
  BY ExtendMembers
<1>2. QED
  BY <1>1

LEMMA ExtendAssociative ==
    ASSUME NEW P, P \subseteq Path, NEW Q, Q \subseteq Path, NEW R, R \subseteq Path
    PROVE  Extend(P, Extend(Q, R)) = Extend(Extend(P, Q), R)
<1>1. ASSUME NEW s \in Extend(P, Extend(Q, R)) PROVE s \in Extend(Extend(P, Q), R)
  <2>1. CASE s \in P /\ s.ended # "no"
    BY <2>1, ExtendMembers
  <2>2. CASE \E p \in P, t \in Extend(Q, R) : p.ended = "no" /\ s = Then(p, t)
    <3>1. PICK p \in P, t \in Extend(Q, R) : p.ended = "no" /\ s = Then(p, t)
      BY <2>2
    <3>2. CASE t \in Q /\ t.ended # "no"
      <4>1. s \in Extend(P, Q) /\ s.ended # "no"
        BY <3>1, <3>2, ExtendMembers, ThenParts
      <4>2. QED
        BY <4>1, ExtendMembers
    <3>3. CASE \E q \in Q, r \in R : q.ended = "no" /\ t = Then(q, r)
      <4>1. PICK q \in Q, r \in R : q.ended = "no" /\ t = Then(q, r)
        BY <3>3
      <4>2. s = Then(Then(p, q), r)
        BY <3>1, <4>1, ThenAssociative
      <4>3. Then(p, q) \in Extend(P, Q) /\ Then(p, q).ended = "no"
        BY <3>1, <4>1, ExtendMembers, ThenParts
      <4>4. QED
        BY <4>1, <4>2, <4>3, ExtendMembers
    <3>4. QED
      BY <3>1, <3>2, <3>3, ExtendMembers
  <2>3. QED
    BY <2>1, <2>2, ExtendMembers
<1>2. ASSUME NEW s \in Extend(Extend(P, Q), R) PROVE s \in Extend(P, Extend(Q, R))
  <2>1. CASE s \in Extend(P, Q) /\ s.ended # "no"
    <3>1. CASE s \in P /\ s.ended # "no"
      BY <3>1, ExtendMembers
    <3>2. CASE \E p \in P, q \in Q : p.ended = "no" /\ s = Then(p, q)
      <4>1. PICK p \in P, q \in Q : p.ended = "no" /\ s = Then(p, q)
        BY <3>2
      <4>2. q.ended # "no"
        BY <2>1, <4>1, ThenParts
      <4>3. q \in Extend(Q, R)
        BY <4>2, ExtendMembers
      <4>4. QED
        BY <4>1, <4>3, ExtendMembers
    <3>3. QED
      BY <2>1, <3>1, <3>2, ExtendMembers
  <2>2. CASE \E t \in Extend(P, Q), r \in R : t.ended = "no" /\ s = Then(t, r)
    <3>1. PICK t \in Extend(P, Q), r \in R : t.ended = "no" /\ s = Then(t, r)
      BY <2>2
    <3>2. PICK p \in P, q \in Q : p.ended = "no" /\ t = Then(p, q)
      BY <3>1, ExtendMembers
    <3>3. q.ended = "no" /\ s = Then(p, Then(q, r))
      <4>1. p \in Path /\ q \in Path /\ r \in Path
        OBVIOUS
      <4>2. q.ended = "no"
        BY <3>1, <3>2, <4>1, ThenParts
      <4>3. Then(p, Then(q, r)) = Then(Then(p, q), r)
        BY <4>1, ThenAssociative
      <4>4. QED
        BY <3>1, <3>2, <4>2, <4>3
    <3>4. Then(q, r) \in Extend(Q, R)
      BY <3>3, ExtendMembers
    <3>5. QED
      BY <3>2, <3>3, <3>4, ExtendMembers
  <2>3. QED
    BY <2>1, <2>2, ExtendMembers
<1>3. QED
  BY <1>1, <1>2

-----------------------------------------------------------------------------
(* What the flags tell does not change with what they do not tell of.      *)

Matches(V, p, q) == /\ p.ctors = q.ctors /\ p.ended = q.ended
                    /\ \A v \in V : p.inits[v] = q.inits[v]

Same(V, W, X) == /\ \A p \in W : \E q \in X : Matches(V, p, q)
                 /\ \A q \in X : \E p \in W : Matches(V, p, q)

LEMMA SameTells ==
    ASSUME NEW V, NEW f, NEW W, NEW X, Same(V, W, X), Tells(V, f, W)
    PROVE  Tells(V, f, X)
<1>1. Dead(W) <=> Dead(X)
  BY DEF Same, Matches, Dead, Running
<1>2. ExitsDiffer(W) <=> ExitsDiffer(X)
  <2>1. {p.ended : p \in W} = {p.ended : p \in X}
    BY DEF Same, Matches
  <2>2. QED
    BY <2>1 DEF ExitsDiffer
<1>3. CallsTell(f.callSuper, X)
  <2> DEFINE c == f.callSuper
  <2>1. CallsTell(c, W)
    BY DEF Tells
  <2> HIDE DEF c
  <2>2. \A p \in Running(X) : p.ctors = Called(c)
    BY <2>1 DEF CallsTell, Same, Matches, Running
  <2>3. "halt" \in c => \E p \in X : p.ended = "halt"
    BY <2>1 DEF CallsTell, Same, Matches
  <2>4. (\E p \in X : p.ended = "return") => \E p \in W : p.ended = "return"
    BY DEF Same, Matches
  <2>5. ~ExitsDiffer(X) => \A p \in X : p.ended = "return" =>
           p.ctors = IF "any_ctor" \in c THEN 1 ELSE 0
    <3> SUFFICES ASSUME ~ExitsDiffer(X), NEW q \in X, q.ended = "return"
                 PROVE  q.ctors = IF "any_ctor" \in c THEN 1 ELSE 0
      OBVIOUS
    <3>1. PICK p \in W : Matches(V, p, q)
      BY DEF Same
    <3>2. QED
      BY <1>2, <2>1, <3>1 DEF CallsTell, Matches
  <2>6. "any_ctor" \in c => \E p \in X : p.ctors > 0
    BY <2>1 DEF CallsTell, Same, Matches
  <2>7. "return_" \in c /\ "any_ctor" \notin c /\ "halt" \notin c =>
           \E p \in X : p.ended = "return" /\ p.ctors = 0
    BY <2>1 DEF CallsTell, Same, Matches
  <2>8. CallsTell(c, X)
    BY <1>1, <1>2, <2>1, <2>2, <2>3, <2>4, <2>5, <2>6, <2>7 DEF CallsTell
  <2>9. QED
    BY <2>8 DEF c
<1>4. ASSUME NEW v \in V PROVE InitsTell(f.fieldinit[v], X, v)
  <2>1. InitsTell(f.fieldinit[v], W, v)
    BY DEF Tells
  <2>2. ASSUME NEW q \in X
        PROVE  /\ q.inits[v] <= 1
               /\ "this_ctor" \notin f.fieldinit[v] /\ q.ended = "no" => q.inits[v] = 0
    <3>1. PICK p \in W : Matches(V, p, q)
      BY DEF Same
    <3>2. QED
      BY <2>1, <3>1 DEF InitsTell, Matches, Running
  <2>3. QED
    BY <1>1, <2>1, <2>2 DEF InitsTell, Running
<1>5. QED
  BY <1>3, <1>4 DEF Tells

\* Executions that do nothing the flags tell of.
IdlePath(V, p) == p.ctors = 0 /\ \A v \in V : p.inits[v] = 0

LEMMA ThenIdle ==
    ASSUME NEW V, V \subseteq Fields, NEW p \in Path, NEW q \in Path, IdlePath(V, q)
    PROVE  /\ Then(p, q).ctors = p.ctors
           /\ \A v \in V : Then(p, q).inits[v] = p.inits[v]
<1>1. /\ p.ctors \in 0..2 /\ \A v \in V : p.inits[v] \in 0..2 /\ v \in Fields
  BY PathParts
<1>2. \A k \in 0..2 : AtMostTwice(k + 0) = k
  BY TwiceSums
<1>3. QED
  BY <1>1, <1>2, ThenParts DEF IdlePath

\* Idle executions that go on change nothing.
LEMMA IdleSame ==
    ASSUME NEW V, V \subseteq Fields, NEW W, W \subseteq Path, NEW Q, Q \subseteq Path, Q # {},
           \A q \in Q : q.ended = "no" /\ IdlePath(V, q)
    PROVE  Same(V, W, Extend(W, Q))
<1>1. ASSUME NEW p \in W, NEW q \in Q PROVE Matches(V, p, Then(p, q)) \/ p.ended # "no"
  <2>1. p \in Path /\ q \in Path /\ q.ended = "no" /\ IdlePath(V, q)
    OBVIOUS
  <2>2. Then(p, q).ended = "no"
    BY <2>1, ThenParts
  <2>3. Then(p, q).ctors = p.ctors /\ \A v \in V : Then(p, q).inits[v] = p.inits[v]
    BY <2>1, ThenIdle
  <2>4. QED
    BY <2>2, <2>3 DEF Matches
<1>2. \A p : Matches(V, p, p)
  BY DEF Matches
<1>3. ASSUME NEW p \in W PROVE \E r \in Extend(W, Q) : Matches(V, p, r)
  <2>1. CASE p.ended # "no"
    BY <1>2, <2>1, ExtendMembers
  <2>2. CASE p.ended = "no"
    <3>1. PICK q \in Q : TRUE
      OBVIOUS
    <3>2. Then(p, q) \in Extend(W, Q)
      BY <2>2, ExtendMembers
    <3>3. QED
      BY <1>1, <2>2, <3>2
  <2>3. QED
    BY <2>1, <2>2
<1>4. ASSUME NEW r \in Extend(W, Q) PROVE \E p \in W : Matches(V, p, r)
  BY <1>1, <1>2, ExtendMembers
<1>5. QED
  BY <1>3, <1>4 DEF Same

\* Repeating executions of which those that go on are idle changes nothing.
LEMMA RepeatSame ==
    ASSUME NEW V, V \subseteq Fields, NEW W, W \subseteq Path, NEW P, P \subseteq Path,
           \A p \in Running(P) : IdlePath(V, p),
           \A p \in P, v \in V : p.inits[v] = 0
    PROVE  Same(V, Extend(W, P), Extend(W, Repeat(P)))
<1>1. Extend(W, Repeat(P)) = Extend(W, P) \cup Extend(W, Extend(P, P))
  BY ExtendUnion DEF Repeat
<1>2. \A p : Matches(V, p, p)
  BY DEF Matches
<1>3. ASSUME NEW r \in Extend(W, Extend(P, P)) PROVE \E s \in Extend(W, P) : Matches(V, s, r)
  <2>1. CASE r \in W /\ r.ended # "no"
    BY <1>2, <2>1, ExtendMembers
  <2>2. CASE \E w \in W, t \in Extend(P, P) : w.ended = "no" /\ r = Then(w, t)
    <3>1. PICK w \in W, t \in Extend(P, P) : w.ended = "no" /\ r = Then(w, t)
      BY <2>2
    <3>2. PICK q \in P : q.ctors = t.ctors /\ q.ended = t.ended /\ \A v \in V : t.inits[v] = 0
      <4>1. CASE t \in P
        BY <4>1
      <4>2. CASE \E p \in P, q \in P : p.ended = "no" /\ t = Then(p, q)
        <5>1. PICK p \in P, q \in P : p.ended = "no" /\ t = Then(p, q)
          BY <4>2
        <5>2. p.ctors = 0 /\ p \in Path /\ q \in Path /\ q.ctors \in 0..2
          BY <5>1, PathParts DEF Running, IdlePath
        <5>3. t.ctors = q.ctors /\ t.ended = q.ended
          BY <5>1, <5>2, ThenParts, TwiceSums
        <5>4. \A v \in V : t.inits[v] = 0
          <6>1. AtMostTwice(0 + 0) = 0
            BY DEF AtMostTwice
          <6>2. QED
            BY <5>1, <5>2, <6>1, ThenParts
        <5>5. QED
          BY <5>3, <5>4
      <4>3. QED
        BY <4>1, <4>2, ExtendMembers
    <3>3. w \in Path /\ q \in Path /\ t \in Path /\ \A v \in V : q.inits[v] = 0
      BY ExtendRuns
    <3>4. Matches(V, Then(w, q), r)
      BY <3>1, <3>2, <3>3, ThenParts DEF Matches
    <3>5. Then(w, q) \in Extend(W, P)
      BY <3>1, ExtendMembers
    <3>6. QED
      BY <3>4, <3>5
  <2>3. QED
    BY <2>1, <2>2, ExtendMembers
<1>4. QED
  BY <1>1, <1>2, <1>3 DEF Same

\* Flows whose flags are alike in what is told tell the same of executions.
LEMMA AlikeCalls ==
    ASSUME NEW a, NEW b, NEW W, CallsTell(a, W),
           \A bit \in {"any_ctor", "halt", "return_"} : bit \in a <=> bit \in b,
           HasCalled(a) <=> HasCalled(b)
    PROVE  CallsTell(b, W)
<1>1. Called(a) = Called(b)
  BY DEF Called
<1>2. "any_ctor" \in a <=> "any_ctor" \in b
  OBVIOUS
<1>3. "halt" \in a <=> "halt" \in b
  OBVIOUS
<1>4. "return_" \in a <=> "return_" \in b
  OBVIOUS
<1>5. QED
  BY <1>1, <1>2, <1>3, <1>4 DEF CallsTell

LEMMA LabelTells ==
    ASSUME NEW V, V \subseteq Fields, NEW f, NEW W, Tells(V, f, W)
    PROVE  Tells(V, orCSX(f, "label"), W)
<1>1. /\ orCSX(f, "label").callSuper = f.callSuper \cup {"label"}
      /\ \A v \in V : orCSX(f, "label").fieldinit[v] = f.fieldinit[v] \cup {"label"}
  BY DEF orCSX
<1>2. CallsTell(orCSX(f, "label").callSuper, W)
  <2>1. CallsTell(f.callSuper, W)
    BY DEF Tells
  <2>2. HasCalled(f.callSuper) <=> HasCalled(f.callSuper \cup {"label"})
    BY DEF HasCalled
  <2>3. QED
    BY <1>1, <2>1, <2>2, AlikeCalls
<1>3. \A v \in V : InitsTell(orCSX(f, "label").fieldinit[v], W, v)
  BY <1>1 DEF Tells, InitsTell
<1>4. QED
  BY <1>2, <1>3 DEF Tells

-----------------------------------------------------------------------------
(* Where paths meet, and where a scope ends.                                *)

\* x left the body without having called: the paths that x is of returned.
Skips(x) == "halt" \notin x /\ "return_" \in x /\ "any_ctor" \notin x

LeftInOrder(x) == "halt" \in x \/ ("return_" \in x /\ HasCalled(x))

\* What becomes of the flags that are told of.
LEMMA MergeCases ==
    ASSUME NEW a, NEW b, mergeCallSuper(a, b).ok
    PROVE  LET c == mergeCallSuper(a, b).csx IN
           \/ a = b /\ c = a
           \/ "halt" \in a /\ "halt" \in b /\ c = {"halt"}
           \/ /\ ~("halt" \in a /\ "halt" \in b)
              /\ ~(Skips(b) /\ "any_ctor" \in a) /\ ~(Skips(a) /\ "any_ctor" \in b)
              /\ "any_ctor" \in c <=> "any_ctor" \in a \/ "any_ctor" \in b
              /\ \/ /\ LeftInOrder(b)
                    /\ HasCalled(c) <=> HasCalled(a)
                    /\ "halt" \in c <=> "halt" \in a
                    /\ "return_" \in c <=> "return_" \in a
                 \/ /\ LeftInOrder(a)
                    /\ HasCalled(c) <=> HasCalled(b)
                    /\ "halt" \in c <=> "halt" \in b
                    /\ "return_" \in c <=> "return_" \in b
                 \/ /\ ~LeftInOrder(a) /\ ~LeftInOrder(b)
                    /\ HasCalled(a) <=> HasCalled(b)
                    /\ HasCalled(c) <=> HasCalled(a)
                    /\ "halt" \notin c
                    /\ "return_" \in c <=>
                          "return_" \in a \/ ("return_" \in b /\ "any_ctor" \notin b)
  BY CtorsCalled DEF mergeCallSuper, Merged, Skips, LeftInOrder, HasCalled

LEMMA MergeCallsTell ==
    ASSUME NEW a, NEW b, NEW P, NEW Q, CallsTell(a, P), CallsTell(b, Q),
           mergeCallSuper(a, b).ok
    PROVE  CallsTell(mergeCallSuper(a, b).csx, P \cup Q)
<1> DEFINE c == mergeCallSuper(a, b).csx
           W == P \cup Q
           anyc == "any_ctor" \in c
<1>1. /\ Dead(W) <=> Dead(P) /\ Dead(Q)
      /\ Running(W) = Running(P) \cup Running(Q)
      /\ ~ExitsDiffer(W) => ~ExitsDiffer(P) /\ ~ExitsDiffer(Q)
  BY DEF Dead, Running, ExitsDiffer
<1>2. CASE a = b /\ c = a
  <2>1. CallsTell(c, P) /\ CallsTell(c, Q)
    BY <1>2
  <2> HIDE DEF c
  <2>2. /\ "halt" \in c => Dead(W) /\ \E p \in W : p.ended = "halt"
        /\ "return_" \in c /\ "any_ctor" \in c => Dead(W)
        /\ \A p \in Running(W) : p.ctors = Called(c)
        /\ Dead(W) => "halt" \in c \/ "return_" \in c
    BY <1>1, <2>1 DEF CallsTell
  <2>3. /\ "any_ctor" \in c => \E p \in W : p.ctors > 0
        /\ "return_" \in c /\ "any_ctor" \notin c /\ "halt" \notin c =>
             \E p \in W : p.ended = "return" /\ p.ctors = 0
        /\ ~ExitsDiffer(W) /\ (\E p \in W : p.ended = "return") =>
             "return_" \in c \/ "halt" \in c \/ "any_ctor" \in c
        /\ ~ExitsDiffer(W) => \A p \in W : p.ended = "return" =>
             p.ctors = IF "any_ctor" \in c THEN 1 ELSE 0
    BY <1>1, <2>1 DEF CallsTell
  <2>4. CallsTell(c, W)
    BY <2>1, <2>2, <2>3 DEF CallsTell
  <2>5. QED
    BY <2>4 DEF c
<1>3. ASSUME "halt" \in a, ~ExitsDiffer(W) PROVE \A p \in W : p.ended # "return"
  <2>1. \E p \in W : p.ended = "halt"
    BY <1>3 DEF CallsTell
  <2>2. QED
    BY <1>3, <2>1 DEF ExitsDiffer
<1>4. ASSUME "halt" \in b, ~ExitsDiffer(W) PROVE \A p \in W : p.ended # "return"
  <2>1. \E p \in W : p.ended = "halt"
    BY <1>4 DEF CallsTell
  <2>2. QED
    BY <1>4, <2>1 DEF ExitsDiffer
<1>5. CASE "halt" \in a /\ "halt" \in b /\ c = {"halt"}
  <2>1. Dead(W) /\ Running(W) = {} /\ \E p \in W : p.ended = "halt"
    BY <1>1, <1>5 DEF CallsTell, Dead
  <2>2. ~ExitsDiffer(W) => \A p \in W : p.ended # "return"
    BY <1>3, <1>5
  <2>3. "halt" \in c /\ "return_" \notin c /\ "any_ctor" \notin c /\ ~HasCalled(c)
    BY <1>5 DEF HasCalled
  <2> HIDE DEF c, W
  <2>4. CallsTell(c, W)
    BY <2>1, <2>2, <2>3 DEF CallsTell
  <2>5. QED
    BY <2>4 DEF c, W
<1>6. CASE /\ ~("halt" \in a /\ "halt" \in b)
           /\ ~(Skips(b) /\ "any_ctor" \in a) /\ ~(Skips(a) /\ "any_ctor" \in b)
           /\ "any_ctor" \in c <=> "any_ctor" \in a \/ "any_ctor" \in b
           /\ \/ /\ LeftInOrder(b)
                 /\ HasCalled(c) <=> HasCalled(a)
                 /\ "halt" \in c <=> "halt" \in a
                 /\ "return_" \in c <=> "return_" \in a
              \/ /\ LeftInOrder(a)
                 /\ HasCalled(c) <=> HasCalled(b)
                 /\ "halt" \in c <=> "halt" \in b
                 /\ "return_" \in c <=> "return_" \in b
              \/ /\ ~LeftInOrder(a) /\ ~LeftInOrder(b)
                 /\ HasCalled(a) <=> HasCalled(b)
                 /\ HasCalled(c) <=> HasCalled(a)
                 /\ "halt" \notin c
                 /\ "return_" \in c <=>
                       "return_" \in a \/ ("return_" \in b /\ "any_ctor" \notin b)
  <2> HIDE DEF c
  <2>1. /\ LeftInOrder(a) => Dead(P)
        /\ LeftInOrder(b) => Dead(Q)
    BY DEF LeftInOrder, CallsTell
  <2>2. "halt" \in c => Dead(W) /\ \E p \in W : p.ended = "halt"
    BY <1>1, <1>6, <2>1 DEF CallsTell
  <2>3. "return_" \in c /\ "any_ctor" \in c => Dead(W)
    BY <1>1, <1>6, <2>1 DEF CallsTell, Skips, LeftInOrder
  <2>4. HasCalled(c) => "any_ctor" \in c
    BY <1>6 DEF CallsTell
  <2>5. Dead(W) => "halt" \in c \/ "return_" \in c
    BY <1>1, <1>6 DEF CallsTell, LeftInOrder, Skips
  <2>6. "return_" \in c /\ "any_ctor" \in c => HasCalled(c) \/ "halt" \in c
    BY <1>6 DEF CallsTell, LeftInOrder, Skips
  <2>7. \A p \in Running(W) : p.ctors = Called(c)
    <3>1. \A p \in Running(P) : p.ctors = Called(c)
      BY <1>6, <2>1 DEF CallsTell, Called, Dead
    <3>2. \A p \in Running(Q) : p.ctors = Called(c)
      BY <1>6, <2>1 DEF CallsTell, Called, Dead
    <3>3. QED
      BY <1>1, <3>1, <3>2
  <2>8. "any_ctor" \in c => \E p \in W : p.ctors > 0
    BY <1>6 DEF CallsTell
  <2>9. "return_" \in c /\ "any_ctor" \notin c /\ "halt" \notin c =>
           \E p \in W : p.ended = "return" /\ p.ctors = 0
    BY <1>6 DEF CallsTell, LeftInOrder
  <2>10. ASSUME ~ExitsDiffer(W), NEW p \in W, p.ended = "return"
         PROVE  /\ "return_" \in c \/ "halt" \in c \/ "any_ctor" \in c
                /\ p.ctors = IF "any_ctor" \in c THEN 1 ELSE 0
    <3>1. "halt" \notin a /\ "halt" \notin b
      BY <1>3, <1>4, <2>10
    <3>2. p \in P => /\ "return_" \in a \/ "any_ctor" \in a
                     /\ p.ctors = IF "any_ctor" \in a THEN 1 ELSE 0
      BY <1>1, <2>10, <3>1 DEF CallsTell
    <3>3. p \in Q => /\ "return_" \in b \/ "any_ctor" \in b
                     /\ p.ctors = IF "any_ctor" \in b THEN 1 ELSE 0
      BY <1>1, <2>10, <3>1 DEF CallsTell
    <3>4. /\ "return_" \in a => ("any_ctor" \in c <=> "any_ctor" \in a)
          /\ "any_ctor" \in a => "any_ctor" \in c
          /\ "return_" \in b => ("any_ctor" \in c <=> "any_ctor" \in b)
          /\ "any_ctor" \in b => "any_ctor" \in c
      BY <1>6, <3>1 DEF Skips
    <3>5. "return_" \in a \/ "return_" \in b => "return_" \in c \/ "any_ctor" \in c
      BY <1>6, <3>1 DEF CallsTell, LeftInOrder
    <3>6. QED
      BY <3>2, <3>3, <3>4, <3>5
  <2>11. CallsTell(c, W)
    BY <2>2, <2>3, <2>4, <2>5, <2>6, <2>7, <2>8, <2>9, <2>10 DEF CallsTell
  <2>12. QED
    BY <2>11 DEF c
<1>7. QED
  BY <1>2, <1>5, <1>6, MergeCases

LEMMA MergeInitsTell ==
    ASSUME NEW x, NEW y, NEW P, NEW Q, NEW v, InitsTell(x, P, v), InitsTell(y, Q, v)
    PROVE  InitsTell(mergeFieldInit(x, y).csx, P \cup Q, v)
<1> DEFINE z == mergeFieldInit(x, y).csx
<1>1. /\ Dead(P \cup Q) <=> Dead(P) /\ Dead(Q)
      /\ Running(P \cup Q) = Running(P) \cup Running(Q)
      /\ Dead(P) <=> Running(P) = {}
      /\ Dead(Q) <=> Running(Q) = {}
  BY DEF Dead, Running
<1>2. \A p \in P \cup Q : p.inits[v] <= 1
  BY DEF InitsTell
<1>3. "halt" \in z \/ "return_" \in z => Dead(P) /\ Dead(Q)
  BY DEF InitsTell, mergeFieldInit, Merged
<1>4. "this_ctor" \notin z => /\ Dead(P) \/ "this_ctor" \notin x
                              /\ Dead(Q) \/ "this_ctor" \notin y
  BY DEF InitsTell, mergeFieldInit, Merged
<1>5. "this_ctor" \notin z => \A p \in Running(P \cup Q) : p.inits[v] = 0
  BY <1>1, <1>4 DEF InitsTell
<1>6. QED
  BY <1>1, <1>2, <1>3, <1>5 DEF InitsTell

\* Of two flows merged without a complaint about the calls the result tells what
\* both tell.
LEMMA MergeTells ==
    ASSUME NEW V, V \subseteq Fields, NEW f, NEW g, NEW P, NEW Q,
           Tells(V, f, P), Tells(V, g, Q), mergeCallSuper(f.callSuper, g.callSuper).ok
    PROVE  Tells(V, MergeFlow(f, g), P \cup Q)
<1>1. MergeFlow(f, g).callSuper = mergeCallSuper(f.callSuper, g.callSuper).csx
  BY DEF MergeFlow
<1>2. \A v \in V : MergeFlow(f, g).fieldinit[v]
                     = mergeFieldInit(f.fieldinit[v], g.fieldinit[v]).csx
  BY DEF MergeFlow
<1>3. QED
  BY <1>1, <1>2, MergeCallsTell, MergeInitsTell DEF Tells

LEMMA MergeKeeps ==
    ASSUME NEW V, V \subseteq Fields, NEW f, NEW g, NEW fs, NEW n,
           FlagsKept(V, f, fs, n), FlagsKept(V, g, fs, n)
    PROVE  FlagsKept(V, MergeFlow(f, g), fs, n)
<1> DEFINE a == f.callSuper
           b == g.callSuper
           c == MergeFlow(f, g).callSuper
<1>1. c = mergeCallSuper(a, b).csx
  BY DEF MergeFlow
<1>2. \A v \in V : MergeFlow(f, g).fieldinit[v]
                     = mergeFieldInit(f.fieldinit[v], g.fieldinit[v]).csx
  BY DEF MergeFlow
<1> HIDE DEF a, b, c
<1>3. /\ HasCalled(c) => HasCalled(a) \/ HasCalled(b)
      /\ "any_ctor" \in c => "any_ctor" \in a \/ "any_ctor" \in b
      /\ "return_" \in c => "return_" \in a \/ "return_" \in b
  BY <1>1, CtorsCalled DEF mergeCallSuper, Merged, HasCalled
<1>4. /\ "label" \in a \/ "halt" \in a
      /\ "label" \in b \/ "halt" \in b
      => "label" \in c \/ "halt" \in c
  BY <1>1 DEF mergeCallSuper, Merged
<1>5. ASSUME NEW x, NEW y, "label" \in x \/ "halt" \in x, "label" \in y \/ "halt" \in y
      PROVE  LET z == mergeFieldInit(x, y).csx IN "label" \in z \/ "halt" \in z
  BY <1>5 DEF mergeFieldInit, Merged
<1>6. ASSUME NEW j \in 1..n
      PROVE  LET s == fs[j].scope.callSuper
             IN  /\ Grows(s, c)
                 /\ fs[j].kind \in RepeatKinds =>
                       /\ HasCalled(c) => HasCalled(s)
                       /\ "any_ctor" \in c => "any_ctor" \in s
                 /\ fs[j].kind = "label" =>
                       /\ "label" \in c \/ "halt" \in c
                       /\ \A v \in V : \/ "label" \in MergeFlow(f, g).fieldinit[v]
                                       \/ "halt" \in MergeFlow(f, g).fieldinit[v]
                 /\ fs[j].kind \in NoExitKinds => ("return_" \in c => "return_" \in s)
  <2> DEFINE s == fs[j].scope.callSuper
  <2>1. Grows(s, c)
    <3>1. Grows(s, a) /\ Grows(s, b)
      BY DEF FlagsKept, a, b
    <3>2. QED
      BY <1>1, <3>1, MergeGrows
  <2>2. fs[j].kind \in RepeatKinds => /\ HasCalled(c) => HasCalled(s)
                                      /\ "any_ctor" \in c => "any_ctor" \in s
    BY <1>3 DEF FlagsKept, a, b
  <2>3. fs[j].kind \in NoExitKinds => ("return_" \in c => "return_" \in s)
    BY <1>3 DEF FlagsKept, a, b
  <2>4. fs[j].kind = "label" =>
           /\ "label" \in c \/ "halt" \in c
           /\ \A v \in V : \/ "label" \in MergeFlow(f, g).fieldinit[v]
                           \/ "halt" \in MergeFlow(f, g).fieldinit[v]
    BY <1>2, <1>4, <1>5 DEF FlagsKept, a, b
  <2>5. QED
    BY <2>1, <2>2, <2>3, <2>4
<1>7. QED
  BY <1>6 DEF FlagsKept, c

\* A part ends: what it adds to the flags of its scope tells of all that was done.
LEMMA PopTells ==
    ASSUME NEW V, V \subseteq Fields, NEW s, NEW f, NEW X, X \subseteq Path, ~Dead(X),
           NEW P, P \subseteq Path, P # {}, Tells(V, s, X), Tells(V, f, Extend(X, P)),
           Grows(s.callSuper, f.callSuper)
    PROVE  Tells(V, OR(s, f), Extend(X, P))
<1> DEFINE a == s.callSuper
           b == f.callSuper
           c == a \cup b
           W == Extend(X, P)
<1>1. /\ OR(s, f).callSuper = c
      /\ \A v \in V : OR(s, f).fieldinit[v] = s.fieldinit[v] \cup f.fieldinit[v]
  BY DEF OR
<1>2. CallsTell(a, X) /\ CallsTell(b, W) /\ Grows(a, b)
  BY DEF Tells
<1>3. "any_ctor" \in a => \E p \in W : p.ctors > 0
  <2> SUFFICES ASSUME "any_ctor" \in a
               PROVE  \E p \in W : p.ctors > 0
    OBVIOUS
  <2>1. PICK p \in X : p.ctors > 0
    BY <1>2 DEF CallsTell
  <2>2. CASE p.ended # "no"
    BY <2>1, <2>2, ExtendMembers
  <2>3. CASE p.ended = "no"
    <3>1. PICK q \in P : TRUE
      OBVIOUS
    <3>2. Then(p, q) \in W
      BY <2>3, ExtendMembers
    <3>3. p \in Path /\ q \in Path /\ p.ctors \in 0..2 /\ q.ctors \in 0..2
      BY PathParts
    <3>4. Then(p, q).ctors = AtMostTwice(p.ctors + q.ctors)
      BY <3>3, ThenParts
    <3>5. Then(p, q).ctors > 0
      BY <2>1, <3>3, <3>4, TwiceSums
    <3>6. QED
      BY <3>2, <3>5
  <2>4. QED
    BY <2>2, <2>3
<1> HIDE DEF W
<1>4. "halt" \notin a /\ ~("return_" \in a /\ "any_ctor" \in a)
  BY <1>2 DEF CallsTell
<1>5. HasCalled(c) <=> HasCalled(a) \/ HasCalled(b)
  BY DEF HasCalled
<1>6. CallsTell(c, W)
  <2> HIDE DEF a, b
  <2>1. /\ "halt" \in c => Dead(W) /\ \E p \in W : p.ended = "halt"
        /\ "return_" \in c /\ "any_ctor" \in c => Dead(W)
    BY <1>2, <1>4 DEF CallsTell, Grows
  <2>2. /\ HasCalled(c) => "any_ctor" \in c
        /\ Dead(W) => "halt" \in c \/ "return_" \in c
        /\ "return_" \in c /\ "any_ctor" \in c => HasCalled(c) \/ "halt" \in c
    BY <1>2, <1>4, <1>5 DEF CallsTell, Grows
  <2>3. \A p \in Running(W) : p.ctors = Called(c)
    <3>1. ~Dead(W) => Called(c) = Called(b)
      BY <1>2, <1>5 DEF CallsTell, Grows, Called
    <3>2. QED
      BY <1>2, <3>1 DEF CallsTell, Dead
  <2>4. ~ExitsDiffer(W) /\ (\E p \in W : p.ended = "return") =>
           "return_" \in c \/ "halt" \in c \/ "any_ctor" \in c
    BY <1>2 DEF CallsTell
  <2>5. ASSUME ~ExitsDiffer(W), NEW p \in W, p.ended = "return"
        PROVE  p.ctors = IF "any_ctor" \in c THEN 1 ELSE 0
    <3>1. "halt" \notin b
      BY <1>2, <2>5 DEF CallsTell, ExitsDiffer
    <3>2. "any_ctor" \in c <=> "any_ctor" \in b
      BY <1>2, <3>1 DEF Grows
    <3>3. p.ctors = IF "any_ctor" \in b THEN 1 ELSE 0
      BY <1>2, <2>5 DEF CallsTell
    <3>4. QED
      BY <3>2, <3>3
  <2>6. "any_ctor" \in c => \E p \in W : p.ctors > 0
    BY <1>2, <1>3 DEF CallsTell
  <2>7. "return_" \in c /\ "any_ctor" \notin c /\ "halt" \notin c =>
           \E p \in W : p.ended = "return" /\ p.ctors = 0
    BY <1>2 DEF CallsTell, Grows
  <2>8. QED
    BY <2>1, <2>2, <2>3, <2>4, <2>5, <2>6, <2>7 DEF CallsTell
<1>7. ASSUME NEW v \in V PROVE InitsTell(OR(s, f).fieldinit[v], W, v)
  <2>1. InitsTell(s.fieldinit[v], X, v) /\ InitsTell(f.fieldinit[v], W, v)
    BY DEF Tells, W
  <2>2. QED
    BY <1>1, <2>1 DEF InitsTell
<1>8. QED
  BY <1>1, <1>6, <1>7 DEF Tells, W

LEMMA PopKept ==
    ASSUME NEW V, V \subseteq Fields, NEW s, NEW f, NEW fs, NEW n,
           FlagsKept(V, s, fs, n), FlagsKept(V, f, fs, n)
    PROVE  FlagsKept(V, OR(s, f), fs, n)
<1> DEFINE c == OR(s, f).callSuper
<1>1. c = s.callSuper \cup f.callSuper
  BY DEF OR
<1>2. \A v \in V : OR(s, f).fieldinit[v] = s.fieldinit[v] \cup f.fieldinit[v]
  BY DEF OR
<1>3. \A t : Grows(t, s.callSuper) /\ Grows(t, f.callSuper) => Grows(t, c)
  BY <1>1 DEF Grows, HasCalled
<1>4. HasCalled(c) <=> HasCalled(s.callSuper) \/ HasCalled(f.callSuper)
  BY <1>1 DEF HasCalled
<1> HIDE DEF c
<1>5. ASSUME NEW j \in 1..n
      PROVE  LET t == fs[j].scope.callSuper
             IN  /\ Grows(t, c)
                 /\ fs[j].kind \in RepeatKinds =>
                       /\ HasCalled(c) => HasCalled(t)
                       /\ "any_ctor" \in c => "any_ctor" \in t
                 /\ fs[j].kind = "label" =>
                       /\ "label" \in c \/ "halt" \in c
                       /\ \A v \in V : \/ "label" \in OR(s, f).fieldinit[v]
                                       \/ "halt" \in OR(s, f).fieldinit[v]
                 /\ fs[j].kind \in NoExitKinds => ("return_" \in c => "return_" \in t)
  <2> DEFINE t == fs[j].scope.callSuper
  <2>1. Grows(t, c)
    BY <1>3 DEF FlagsKept
  <2>2. fs[j].kind \in RepeatKinds => /\ HasCalled(c) => HasCalled(t)
                                      /\ "any_ctor" \in c => "any_ctor" \in t
    BY <1>1, <1>4 DEF FlagsKept
  <2>3. fs[j].kind = "label" =>
           /\ "label" \in c \/ "halt" \in c
           /\ \A v \in V : \/ "label" \in OR(s, f).fieldinit[v]
                           \/ "halt" \in OR(s, f).fieldinit[v]
    BY <1>1, <1>2 DEF FlagsKept
  <2>4. fs[j].kind \in NoExitKinds => ("return_" \in c => "return_" \in t)
    BY <1>1 DEF FlagsKept
  <2>5. QED
    BY <2>1, <2>2, <2>3, <2>4
<1>6. QED
  BY <1>5 DEF FlagsKept, c

-----------------------------------------------------------------------------
(* The frames, as what the flags tell has them.                             *)

\* What is told of a frame depends on it and those around it only.
ToldAlike(V, gs, fs, m) ==
    /\ \A P : From(gs, m, P) = From(fs, m, P)
    /\ \A f : FlagsKept(V, f, gs, m) <=> FlagsKept(V, f, fs, m)
    /\ \A P : PathsKept(V, P, gs, m) <=> PathsKept(V, P, fs, m)
    /\ \A i \in 1..m : FrameTells(V, gs, i) <=> FrameTells(V, fs, i)

LEMMA SameTold ==
    ASSUME NEW V, NEW fs, NEW gs, NEW m \in Nat, \A i \in 1..m : gs[i] = fs[i]
    PROVE  ToldAlike(V, gs, fs, m)
<1>1. ASSUME NEW i \in 0..m
      PROVE  /\ \A P : From(gs, i, P) = From(fs, i, P)
             /\ \A f : FlagsKept(V, f, gs, i) <=> FlagsKept(V, f, fs, i)
             /\ \A P : PathsKept(V, P, gs, i) <=> PathsKept(V, P, fs, i)
  <2>1. \A j \in 1..i : gs[j] = fs[j]
    OBVIOUS
  <2>2. i # 0 => gs[i] = fs[i]
    OBVIOUS
  <2>3. Prefix(gs, i) = Prefix(fs, i)
    BY <2>2 DEF Prefix
  <2>4. ASSUME NEW f PROVE FlagsKept(V, f, gs, i) <=> FlagsKept(V, f, fs, i)
    BY <2>1 DEF FlagsKept
  <2>5. ASSUME NEW P PROVE PathsKept(V, P, gs, i) <=> PathsKept(V, P, fs, i)
    BY <2>1 DEF PathsKept
  <2>6. QED
    BY <2>3, <2>4, <2>5 DEF From
<1>2. ASSUME NEW i \in 1..m
      PROVE  FrameTells(V, gs, i) <=> FrameTells(V, fs, i)
  <2>1. i \in 0..m /\ i-1 \in 0..m /\ gs[i] = fs[i]
    OBVIOUS
  <2>2. /\ \A P : From(gs, i, P) = From(fs, i, P) /\ From(gs, i-1, P) = From(fs, i-1, P)
        /\ \A f : FlagsKept(V, f, gs, i-1) <=> FlagsKept(V, f, fs, i-1)
        /\ \A P : PathsKept(V, P, gs, i-1) <=> PathsKept(V, P, fs, i-1)
    BY <1>1, <2>1
  <2>3. QED
    BY <2>1, <2>2 DEF FrameTells
<1>3. m \in 0..m
  OBVIOUS
<1>4. QED
  BY <1>1, <1>2, <1>3 DEF ToldAlike

LEMMA LabelKept ==
    ASSUME NEW V, V \subseteq Fields, NEW f, NEW fs, NEW n, FlagsKept(V, f, fs, n)
    PROVE  FlagsKept(V, orCSX(f, "label"), fs, n)
<1>1. /\ orCSX(f, "label").callSuper = f.callSuper \cup {"label"}
      /\ \A v \in V : orCSX(f, "label").fieldinit[v] = f.fieldinit[v] \cup {"label"}
  BY DEF orCSX
<1>2. \A t : Grows(t, f.callSuper) => Grows(t, f.callSuper \cup {"label"})
  BY DEF Grows, HasCalled
<1>3. HasCalled(f.callSuper \cup {"label"}) <=> HasCalled(f.callSuper)
  BY DEF HasCalled
<1>4. QED
  BY <1>1, <1>2, <1>3 DEF FlagsKept

LEMMA NothingKept ==
    ASSUME NEW V, V \subseteq Fields, NEW fs, NEW n
    PROVE  PathsKept(V, {Nothing}, fs, n) /\ IdlePath(V, Nothing)
<1>1. Nothing.ended = "no" /\ Nothing.ctors = 0 /\ \A v \in V : Nothing.inits[v] = 0
  BY DEF Nothing
<1>2. QED
  BY <1>1 DEF PathsKept, IdlePath

\* Neither do two in a row initialise or end, if neither of them does.
LEMMA ExtendKept ==
    ASSUME NEW V, V \subseteq Fields, NEW P, P \subseteq Path, NEW Q, Q \subseteq Path,
           NEW fs, NEW n, PathsKept(V, P, fs, n), PathsKept(V, Q, fs, n)
    PROVE  PathsKept(V, Extend(P, Q), fs, n)
<1> SUFFICES ASSUME NEW j \in 1..n, NEW r \in Extend(P, Q)
             PROVE  /\ fs[j].kind \in RepeatKinds => \A v \in V : r.inits[v] = 0
                    /\ fs[j].kind \in NoExitKinds => r.ended = "no"
  BY DEF PathsKept
<1>1. CASE r \in P
  BY <1>1 DEF PathsKept
<1>2. CASE \E p \in P, q \in Q : p.ended = "no" /\ r = Then(p, q)
  <2>1. PICK p \in P, q \in Q : r = Then(p, q)
    BY <1>2
  <2>2. p \in Path /\ q \in Path /\ AtMostTwice(0 + 0) = 0
    BY DEF AtMostTwice
  <2>3. /\ r.ended = q.ended
        /\ \A v \in V : p.inits[v] = 0 /\ q.inits[v] = 0 => r.inits[v] = 0
    BY <2>1, <2>2, ThenParts
  <2>4. QED
    BY <2>3 DEF PathsKept
<1>3. QED
  BY <1>1, <1>2, ExtendMembers

LEMMA PrefixRuns ==
    ASSUME NEW V, NEW fs \in Seq(Frame), \A i \in 1..Len(fs) : FrameTells(V, fs, i),
           NEW i \in 0..Len(fs)
    PROVE  Prefix(fs, i) \subseteq Path /\ ~Dead(Prefix(fs, i))
<1>1. CASE i = 0
  BY <1>1, NothingRuns DEF Prefix
<1>2. CASE i # 0
  <2>1. i \in 1..Len(fs)
    BY <1>2, LenProperties
  <2>2. fs[i] \in Frame
    BY <2>1, ElementOfSeq
  <2>3. QED
    BY <1>2, <2>1, <2>2 DEF Prefix, FrameTells, Frame
<1>3. QED
  BY <1>1, <1>2

\* A statement or an operator with parts begins.
LEMMA OpenTells ==
    ASSUME NEW V, V \subseteq Fields, NEW fs \in Seq(Frame), NEW gs \in Seq(Frame),
           NEW f, NEW P, P \subseteq Path, NEW g, BodyTells(V, f, P, fs), ~Dead(P),
           NEW n, n = Len(gs), n-1 = Len(fs), n \in Nat,
           \A i \in 1..n-1 : gs[i] = fs[i],
           gs[n].kind \notin SecondParts, gs[n].scope = f, gs[n].saved = f,
           gs[n].before = P, gs[n].siblings = {}, gs[n].whole = From(fs, n-1, P),
           g = orCSX(f, "label") \/ (g = f /\ gs[n].kind # "label")
    PROVE  BodyTells(V, g, {Nothing}, gs)
<1>1. /\ n-1 \in Nat /\ n-1 \in 0..n-1 /\ n \in 1..n /\ n # 0
      /\ \A i \in 1..n : i \in 1..n-1 \/ i = n
  BY LenProperties
<1> DEFINE W == From(fs, n-1, P)
<1>2. /\ Tells(V, f, W) /\ FlagsKept(V, f, fs, n-1) /\ PathsKept(V, P, fs, n-1)
      /\ \A i \in 1..n-1 : FrameTells(V, fs, i)
  BY DEF BodyTells
<1>3. /\ \A i \in 1..n-1 : FrameTells(V, gs, i)
      /\ \A Q : From(gs, n-1, Q) = From(fs, n-1, Q)
      /\ \A h : FlagsKept(V, h, gs, n-1) <=> FlagsKept(V, h, fs, n-1)
      /\ \A Q : PathsKept(V, Q, gs, n-1) <=> PathsKept(V, Q, fs, n-1)
  <2>1. ToldAlike(V, gs, fs, n-1)
    BY <1>1, SameTold
  <2>2. QED
    BY <1>2, <2>1 DEF ToldAlike
<1>4. W \subseteq Path /\ ~Dead(W)
  <2>1. Prefix(fs, n-1) \subseteq Path /\ ~Dead(Prefix(fs, n-1))
    BY <1>1, <1>2, PrefixRuns
  <2>2. QED
    BY <2>1, ExtendRuns, ExtendDead DEF From
<1>5. From(gs, n, {Nothing}) = W
  BY <1>1, <1>4, ExtendNothing DEF From, Prefix
<1> HIDE DEF W
<1>6. PathsKept(V, {Nothing}, gs, n-1) /\ PathsKept(V, {Nothing}, gs, n)
  BY NothingKept
<1>7. FrameTells(V, gs, n)
  <2>1. SavedPart(gs[n]) = {Nothing}
    BY DEF SavedPart
  <2>2. gs[n].whole = W /\ gs[n].whole = From(gs, n-1, gs[n].before)
    BY <1>3 DEF W
  <2>3. FlagsKept(V, f, gs, n-1) /\ PathsKept(V, P, gs, n-1)
    BY <1>2, <1>3
  <2>4. QED
    BY <1>2, <1>4, <1>5, <1>6, <2>1, <2>2, <2>3 DEF FrameTells
<1>8. "halt" \notin f.callSuper /\ ("return_" \in f.callSuper => "any_ctor" \notin f.callSuper)
  BY <1>2, <1>4 DEF Tells, CallsTell
<1>9. Tells(V, g, W)
  BY <1>2, LabelTells
<1>10. FlagsKept(V, g, gs, n)
  <2>1. FlagsKept(V, g, gs, n-1)
    BY <1>2, <1>3, LabelKept
  <2>2. /\ g.callSuper = f.callSuper \/ g.callSuper = f.callSuper \cup {"label"}
        /\ gs[n].kind = "label" => /\ "label" \in g.callSuper
                                   /\ \A v \in V : "label" \in g.fieldinit[v]
    BY DEF orCSX
  <2>3. /\ Grows(f.callSuper, g.callSuper)
        /\ HasCalled(g.callSuper) => HasCalled(f.callSuper)
        /\ "any_ctor" \in g.callSuper => "any_ctor" \in f.callSuper
        /\ "return_" \in g.callSuper => "return_" \in f.callSuper
    BY <1>8, <2>2 DEF Grows, HasCalled
  <2>4. QED
    BY <1>1, <2>1, <2>2, <2>3 DEF FlagsKept
<1>11. QED
  BY <1>1, <1>3, <1>5, <1>6, <1>7, <1>9, <1>10 DEF BodyTells

\* When a frame ends, the executions from the start of the body stay what they are.
LEMMA CloseFrom ==
    ASSUME NEW fs \in Seq(Frame), NEW gs, NEW n, n = Len(fs), n > 0,
           \A i \in 1..n-1 : gs[i] = fs[i],
           fs[n].whole = From(fs, n-1, fs[n].before), NEW P, P \subseteq Path
    PROVE  From(gs, n-1, Extend(fs[n].before, P)) = From(fs, n, P)
<1>1. n \in Nat /\ n \in 1..n /\ n # 0 /\ n-1 \in Nat /\ n-1 \in 0..n
  BY LenProperties
<1> DEFINE B == fs[n].before
           X == Prefix(fs, n-1)
<1>2. B \subseteq Path /\ X \subseteq Path
  <2>1. \A i \in 1..n : fs[i] \in Frame
    BY ElementOfSeq
  <2>2. B \subseteq Path /\ (n-1 # 0 => fs[n-1].whole \subseteq Path)
    BY <1>1, <2>1 DEF Frame
  <2>3. QED
    BY <2>2, NothingRuns DEF Prefix
<1>3. fs[n].whole = Extend(X, B)
  BY DEF From
<1>4. From(fs, n, P) = From(fs, n-1, Extend(B, P))
  BY <1>1, <1>2, <1>3, ExtendAssociative DEF From, Prefix
<1>5. ToldAlike({}, gs, fs, n-1)
  BY <1>1, SameTold
<1>6. QED
  BY <1>4, <1>5 DEF ToldAlike

\* It ends, with the flow f and having done P as a whole.
LEMMA CloseTells ==
    ASSUME NEW V, V \subseteq Fields, NEW fs \in Seq(Frame), NEW gs \in Seq(Frame),
           NEW n, n = Len(fs), n > 0, Len(gs) = n-1,
           \A i \in 1..n-1 : gs[i] = fs[i],
           \A i \in 1..n : FrameTells(V, fs, i),
           NEW f, NEW P, P \subseteq Path, P # {}, Tells(V, f, From(fs, n, P)),
           FlagsKept(V, f, fs, n-1), PathsKept(V, P, fs, n-1)
    PROVE  BodyTells(V, f, Extend(fs[n].before, P), gs)
<1>1. n \in Nat /\ n \in 1..n /\ n # 0 /\ n-1 \in Nat /\ n-1 \in 0..n-1 /\ n-1 \in 0..n
  BY LenProperties
<1>2. fs[n].whole = From(fs, n-1, fs[n].before)
  BY <1>1 DEF FrameTells
<1>3. From(gs, n-1, Extend(fs[n].before, P)) = From(fs, n, P)
  BY <1>2, CloseFrom
<1> DEFINE B == fs[n].before
           R == Extend(B, P)
           X == Prefix(fs, n-1)
<1>4. B \subseteq Path /\ X \subseteq Path
  <2>1. fs[n] \in Frame
    BY <1>1, ElementOfSeq
  <2>2. QED
    BY <1>1, <2>1, PrefixRuns DEF Frame
<1>5. fs[n].whole = Extend(X, B) /\ ~Dead(fs[n].whole) /\ PathsKept(V, B, fs, n-1)
  BY <1>1 DEF FrameTells, From
<1>6. From(gs, n-1, R) = From(fs, n, P)
  BY <1>3
<1>7. R # {}
  <2>1. ~Dead(B)
    <3> HIDE DEF B, X
    <3>1. ~Dead(Extend(X, B))
      BY <1>5 DEF B, X
    <3>2. QED
      BY <1>4, <3>1, ExtendDead
  <2>2. PICK p \in B, q \in P : p.ended = "no"
    BY <2>1 DEF Dead, Running
  <2>3. Then(p, q) \in R
    BY <2>2, ExtendMembers
  <2>4. QED
    BY <2>3
<1>8. PathsKept(V, R, fs, n-1)
  BY <1>4, <1>5, ExtendKept
<1>9. /\ FlagsKept(V, f, gs, n-1) /\ PathsKept(V, R, gs, n-1)
      /\ \A i \in 1..n-1 : FrameTells(V, gs, i)
  <2>1. \A i \in 1..n-1 : FrameTells(V, fs, i)
    BY <1>1
  <2>2. ToldAlike(V, gs, fs, n-1)
    BY <1>1, SameTold
  <2> HIDE DEF R
  <2>3. QED
    BY <1>8, <2>1, <2>2 DEF ToldAlike
<1> HIDE DEF R
<1>10. QED
  BY <1>6, <1>7, <1>9 DEF BodyTells, R

\* The first of two branches ends with the flow h, the second starts at the fork.
LEMMA BranchTells ==
    ASSUME NEW V, V \subseteq Fields, NEW fs \in Seq(Frame), NEW gs \in Seq(Frame),
           NEW n, n = Len(fs), n > 0, Len(gs) = n,
           \A i \in 1..n-1 : gs[i] = fs[i],
           NEW f, NEW P, BodyTells(V, f, P, fs),
           fs[n].kind \in {"then", "first"}, gs[n].kind \in SecondParts,
           gs[n].before = fs[n].before, gs[n].whole = fs[n].whole,
           gs[n].siblings = fs[n].siblings \cup P, gs[n].scope = fs[n].saved,
           Tells(V, gs[n].saved, From(fs, n, P)), FlagsKept(V, gs[n].saved, fs, n-1)
    PROVE  BodyTells(V, fs[n].saved, {Nothing}, gs)
<1>1. /\ n \in Nat /\ n \in 1..n /\ n # 0 /\ n-1 \in Nat /\ n-1 \in 0..n-1
      /\ \A j \in 1..n : j \in 1..n-1 \/ j = n
  BY LenProperties
<1> DEFINE fork == fs[n].saved
           X == fs[n].whole
<1>2. FrameTells(V, fs, n) /\ \A i \in 1..n-1 : FrameTells(V, fs, i)
  BY <1>1 DEF BodyTells
<1>3. /\ \A i \in 1..n-1 : FrameTells(V, gs, i)
      /\ \A Q : From(gs, n-1, Q) = From(fs, n-1, Q)
      /\ \A h : FlagsKept(V, h, gs, n-1) <=> FlagsKept(V, h, fs, n-1)
      /\ \A Q : PathsKept(V, Q, gs, n-1) <=> PathsKept(V, Q, fs, n-1)
  <2>1. ToldAlike(V, gs, fs, n-1)
    BY <1>1, SameTold
  <2>2. QED
    BY <1>2, <2>1 DEF ToldAlike
<1>4. \A Q : From(gs, n, Q) = Extend(X, Q) /\ From(fs, n, Q) = Extend(X, Q)
  BY <1>1 DEF From, Prefix
<1>5. gs[n].siblings = P /\ SavedPart(fs[n]) = {Nothing} /\ SavedPart(gs[n]) = P
  BY <1>2 DEF FrameTells, SavedPart, SecondParts
<1>6. X \subseteq Path /\ Extend(X, {Nothing}) = X
  <2>1. fs[n] \in Frame
    BY <1>1, ElementOfSeq
  <2>2. QED
    BY <2>1, ExtendNothing DEF Frame
<1>7. Tells(V, fork, X) /\ FlagsKept(V, fork, fs, n-1) /\ ~Dead(X)
  BY <1>2, <1>4, <1>5, <1>6 DEF FrameTells
<1>8. P # {} /\ PathsKept(V, P, fs, n-1)
  BY <1>1 DEF BodyTells, PathsKept
<1>9. gs[n].kind \notin {"then", "first"} /\ gs[n].kind \notin RepeatKinds
      /\ gs[n].kind \notin NoExitKinds /\ gs[n].kind # "label"
  BY DEF SecondParts, RepeatKinds, LoopKinds, NoExitKinds
<1>10. FrameTells(V, gs, n)
  <2>1. X = From(fs, n-1, fs[n].before) /\ PathsKept(V, fs[n].before, fs, n-1)
    BY <1>2 DEF FrameTells
  <2>2. Tells(V, gs[n].saved, From(gs, n, P))
    BY <1>4
  <2>3. QED
    BY <1>3, <1>5, <1>7, <1>8, <1>9, <2>1, <2>2 DEF FrameTells
<1>11. FlagsKept(V, fork, gs, n)
  <2>1. Grows(fork.callSuper, fork.callSuper)
    BY <1>7 DEF Tells, CallsTell, Grows
  <2>2. FlagsKept(V, fork, gs, n-1)
    BY <1>3, <1>7
  <2>3. QED
    BY <1>1, <1>9, <2>1, <2>2 DEF FlagsKept
<1>12. Tells(V, fork, From(gs, n, {Nothing}))
  BY <1>4, <1>6, <1>7
<1>13. PathsKept(V, {Nothing}, gs, n)
  BY NothingKept
<1>14. QED
  BY <1>1, <1>3, <1>10, <1>11, <1>12, <1>13 DEF BodyTells

LEMMA IdleKept ==
    ASSUME NEW V, NEW P, \A p \in P : p.ended = "no" /\ IdlePath(V, p), NEW fs, NEW n
    PROVE  PathsKept(V, P, fs, n)
  BY DEF IdlePath, PathsKept

LEMMA IdleRepeat ==
    ASSUME NEW V, V \subseteq Fields, NEW P, P \subseteq Path,
           \A p \in P : p.ended = "no" /\ IdlePath(V, p)
    PROVE  \A p \in Repeat(P) : p.ended = "no" /\ IdlePath(V, p)
<1> SUFFICES ASSUME NEW r \in Extend(P, P)
             PROVE  r.ended = "no" /\ IdlePath(V, r)
  BY DEF Repeat
<1>1. PICK p \in P, q \in P : r = Then(p, q)
  BY ExtendMembers
<1>2. p \in Path /\ q \in Path /\ IdlePath(V, p) /\ IdlePath(V, q) /\ q.ended = "no"
  OBVIOUS
<1>3. r.ended = "no"
  BY <1>1, <1>2, ThenParts
<1>4. r.ctors = p.ctors /\ \A v \in V : r.inits[v] = p.inits[v]
  BY <1>1, <1>2, ThenIdle
<1>5. QED
  BY <1>2, <1>3, <1>4 DEF IdlePath

\* In a loop or a switch without exits nothing happens that the flags tell of, so
\* that they tell the same of what was before.
LEMMA LoopTells ==
    ASSUME NEW V, V \subseteq Fields, NEW fs \in Seq(Frame), NEW n, n = Len(fs), n > 0,
           fs[n].kind \in NoExitKinds, NEW f, NEW P, P \subseteq Path,
           BodyTells(V, f, P, fs)
    PROVE  /\ \A p \in P : p.ended = "no" /\ IdlePath(V, p)
           /\ Tells(V, f, fs[n].whole) /\ Tells(V, OR(fs[n].scope, f), fs[n].whole)
           /\ FlagsKept(V, OR(fs[n].scope, f), fs, n-1)
<1> DEFINE s == fs[n].scope
           a == s.callSuper
           b == f.callSuper
           X == fs[n].whole
           W == Extend(X, P)
<1>1. n \in Nat /\ n \in 1..n /\ n # 0 /\ n-1 \in Nat
  BY LenProperties
<1>2. X \subseteq Path /\ From(fs, n, P) = W
  <2>1. fs[n] \in Frame
    BY <1>1, ElementOfSeq
  <2>2. QED
    BY <1>1, <2>1 DEF Frame, From, Prefix
<1>3. /\ ~Dead(X) /\ Tells(V, s, X) /\ FlagsKept(V, s, fs, n-1)
      /\ Tells(V, f, W) /\ P # {}
  BY <1>1, <1>2 DEF BodyTells, FrameTells
<1>4. /\ Grows(a, b) /\ (HasCalled(b) => HasCalled(a))
      /\ "any_ctor" \in b => "any_ctor" \in a
      /\ "return_" \in b => "return_" \in a
  <2>1. fs[n].kind \in RepeatKinds
    BY DEF NoExitKinds, RepeatKinds, LoopKinds
  <2>2. QED
    BY <1>1, <2>1 DEF BodyTells, FlagsKept
<1>5. \A p \in P : p.ended = "no" /\ \A v \in V : p.inits[v] = 0
  <2>1. fs[n].kind \in RepeatKinds
    BY DEF NoExitKinds, RepeatKinds, LoopKinds
  <2>2. QED
    BY <1>1, <2>1 DEF BodyTells, PathsKept
<1>6. CallsTell(a, X) /\ CallsTell(b, W)
  BY <1>3 DEF Tells
<1> HIDE DEF s, a, b, X, W
<1>7. ~Dead(W)
  <2>1. ~Dead(P)
    BY <1>3, <1>5 DEF Dead, Running
  <2>2. QED
    BY <1>2, <1>3, <2>1, ExtendDead DEF W
<1>8. "halt" \notin a /\ "halt" \notin b
  BY <1>3, <1>6, <1>7 DEF CallsTell
<1>9. /\ \A bit \in {"any_ctor", "halt", "return_"} : bit \in a <=> bit \in b
      /\ HasCalled(a) <=> HasCalled(b)
  BY <1>4, <1>8 DEF Grows
<1>10. ASSUME NEW p \in P PROVE IdlePath(V, p)
  <2>1. PICK w \in X : w.ended = "no"
    BY <1>3 DEF Dead, Running
  <2>2. w \in Path /\ p \in Path /\ w.ctors \in 0..2 /\ p.ctors \in 0..2
    BY <1>2, PathParts
  <2>3. /\ Then(w, p) \in W /\ Then(w, p).ended = "no"
        /\ Then(w, p).ctors = AtMostTwice(w.ctors + p.ctors)
    BY <1>5, <2>1, <2>2, ExtendMembers, ThenParts DEF W
  <2>4. w.ctors = Called(a) /\ AtMostTwice(w.ctors + p.ctors) = Called(b)
    BY <1>6, <2>1, <2>3 DEF CallsTell, Running
  <2>5. Called(a) = Called(b) /\ Called(a) \in 0..1
    BY <1>9 DEF Called
  <2>6. p.ctors = 0
    BY <2>2, <2>4, <2>5 DEF AtMostTwice
  <2>7. QED
    BY <1>5, <2>6 DEF IdlePath
<1>11. \A p \in P : p.ended = "no" /\ IdlePath(V, p)
  BY <1>5, <1>10
<1>12. CallsTell(b, X)
  BY <1>6, <1>9, AlikeCalls
<1>13. CallsTell(a \cup b, X)
  <2>1. HasCalled(a) <=> HasCalled(a \cup b)
    BY <1>9 DEF HasCalled
  <2>2. \A bit \in {"any_ctor", "halt", "return_"} : bit \in a <=> bit \in a \cup b
    BY <1>9
  <2>3. QED
    BY <1>6, <2>1, <2>2, AlikeCalls
<1>14. ASSUME NEW v \in V
       PROVE  /\ InitsTell(f.fieldinit[v], X, v)
              /\ InitsTell(s.fieldinit[v] \cup f.fieldinit[v], X, v)
  <2>1. InitsTell(s.fieldinit[v], X, v) /\ InitsTell(f.fieldinit[v], W, v)
    BY <1>3 DEF Tells
  <2>2. /\ "halt" \notin f.fieldinit[v] /\ "return_" \notin f.fieldinit[v]
        /\ "halt" \notin s.fieldinit[v] /\ "return_" \notin s.fieldinit[v]
    BY <1>3, <1>7, <2>1 DEF InitsTell
  <2>3. ASSUME "this_ctor" \notin f.fieldinit[v], NEW w \in Running(X)
        PROVE  w.inits[v] = 0
    <3>1. PICK p \in P : p.ended = "no" /\ IdlePath(V, p)
      BY <1>3, <1>11
    <3>2. w \in Path /\ p \in Path /\ w.ended = "no"
      BY <1>2 DEF Running
    <3>3. Then(w, p) \in W /\ Then(w, p).ended = "no" /\ w \in X
      BY <3>1, <3>2, ExtendMembers, ThenParts DEF W, Running
    <3>4. Then(w, p).inits[v] = w.inits[v]
      BY <3>1, <3>2, ThenIdle
    <3>5. QED
      BY <2>1, <2>3, <3>3, <3>4 DEF InitsTell, Running
  <2>4. QED
    BY <2>1, <2>2, <2>3 DEF InitsTell
<1>15. Tells(V, f, X)
  BY <1>12, <1>14 DEF Tells, b
<1>16. Tells(V, OR(s, f), X)
  <2>1. /\ OR(s, f).callSuper = a \cup b
        /\ \A v \in V : OR(s, f).fieldinit[v] = s.fieldinit[v] \cup f.fieldinit[v]
    BY DEF OR, a, b
  <2>2. QED
    BY <1>13, <1>14, <2>1 DEF Tells
<1>17. FlagsKept(V, OR(s, f), fs, n-1)
  <2>1. FlagsKept(V, f, fs, n-1)
    BY <1>1 DEF BodyTells, FlagsKept
  <2>2. QED
    BY <1>3, <2>1, PopKept
<1>18. QED
  BY <1>11, <1>15, <1>16, <1>17 DEF s, X

\* It ends, having done P as a whole.
LEMMA LoopEnds ==
    ASSUME NEW V, V \subseteq Fields, NEW fs \in Seq(Frame), NEW n, n = Len(fs), n > 0,
           NEW f, Tells(V, f, fs[n].whole), NEW P, P \subseteq Path, P # {},
           \A p \in P : p.ended = "no" /\ IdlePath(V, p)
    PROVE  Tells(V, f, From(fs, n, P)) /\ PathsKept(V, P, fs, n-1)
<1>1. n \in 1..Len(fs) /\ n # 0
  BY LenProperties
<1>2. fs[n].whole \subseteq Path /\ From(fs, n, P) = Extend(fs[n].whole, P)
  <2>1. fs[n] \in Frame
    BY <1>1, ElementOfSeq
  <2>2. QED
    BY <1>1, <2>1 DEF Frame, From, Prefix
<1>3. Same(V, fs[n].whole, Extend(fs[n].whole, P))
  BY <1>2, IdleSame
<1>4. QED
  BY <1>2, <1>3, SameTells, IdleKept

\* The next case of a switch, which starts with a label in the flags.
LEMMA CaseTells ==
    ASSUME NEW V, V \subseteq Fields, NEW fs \in Seq(Frame), NEW gs \in Seq(Frame),
           NEW n, n = Len(fs), n > 0, Len(gs) = n,
           \A i \in 1..n-1 : gs[i] = fs[i],
           NEW f, NEW P, P \subseteq Path, BodyTells(V, f, P, fs),
           fs[n].kind \in NoExitKinds,
           gs[n] = [fs[n] EXCEPT !.siblings = @ \cup P]
    PROVE  BodyTells(V, orCSX(f, "label"), {Nothing}, gs)
<1>1. /\ n \in Nat /\ n \in 1..n /\ n # 0 /\ n-1 \in Nat /\ n-1 \in 0..n-1
      /\ \A j \in 1..n : j \in 1..n-1 \/ j = n
  BY LenProperties
<1>2. /\ gs[n].kind = fs[n].kind /\ gs[n].scope = fs[n].scope
      /\ gs[n].saved = fs[n].saved /\ gs[n].before = fs[n].before
      /\ gs[n].whole = fs[n].whole /\ gs[n].siblings = fs[n].siblings \cup P
      /\ fs[n].whole \subseteq Path
  <2>1. fs[n] \in Frame
    BY <1>1, ElementOfSeq
  <2>2. QED
    BY <2>1 DEF Frame
<1>3. FrameTells(V, fs, n) /\ \A i \in 1..n-1 : FrameTells(V, fs, i)
  BY <1>1 DEF BodyTells
<1>4. /\ \A i \in 1..n-1 : FrameTells(V, gs, i)
      /\ \A Q : From(gs, n-1, Q) = From(fs, n-1, Q)
      /\ \A h : FlagsKept(V, h, gs, n-1) <=> FlagsKept(V, h, fs, n-1)
      /\ \A Q : PathsKept(V, Q, gs, n-1) <=> PathsKept(V, Q, fs, n-1)
  <2>1. ToldAlike(V, gs, fs, n-1)
    BY <1>1, SameTold
  <2>2. QED
    BY <1>3, <2>1 DEF ToldAlike
<1>5. \A Q : From(gs, n, Q) = Extend(fs[n].whole, Q) /\ From(fs, n, Q) = Extend(fs[n].whole, Q)
  BY <1>1, <1>2 DEF From, Prefix
<1>6. /\ \A p \in P : p.ended = "no" /\ IdlePath(V, p)
      /\ Tells(V, f, fs[n].whole)
  BY LoopTells
<1>7. FrameTells(V, gs, n)
  <2>1. fs[n].kind \notin {"then", "first"} /\ fs[n].kind \notin SecondParts
    BY DEF NoExitKinds, SecondParts
  <2>2. SavedPart(gs[n]) = {Nothing} /\ SavedPart(fs[n]) = {Nothing}
    BY <1>2, <2>1 DEF SavedPart
  <2>3. \A p \in gs[n].siblings : /\ p.ended = "no" /\ p.ctors = 0
                                  /\ \A v \in V : p.inits[v] = 0
    BY <1>2, <1>3, <1>6 DEF FrameTells, IdlePath
  <2>4. /\ ~Dead(fs[n].whole) /\ fs[n].whole = From(gs, n-1, fs[n].before)
        /\ Tells(V, fs[n].scope, fs[n].whole)
        /\ Tells(V, fs[n].saved, From(gs, n, {Nothing}))
        /\ FlagsKept(V, fs[n].scope, gs, n-1) /\ FlagsKept(V, fs[n].saved, gs, n-1)
        /\ PathsKept(V, fs[n].before, gs, n-1) /\ PathsKept(V, {Nothing}, gs, n-1)
    BY <1>3, <1>4, <1>5, <2>2 DEF FrameTells
  <2>5. QED
    BY <1>2, <2>1, <2>2, <2>3, <2>4 DEF FrameTells
<1>8. FlagsKept(V, orCSX(f, "label"), gs, n)
  <2>1. FlagsKept(V, orCSX(f, "label"), fs, n)
    BY LabelKept DEF BodyTells
  <2>2. \A j \in 1..n : gs[j].kind = fs[j].kind /\ gs[j].scope = fs[j].scope
    BY <1>1, <1>2
  <2>3. QED
    BY <2>1, <2>2 DEF FlagsKept
<1>9. Tells(V, orCSX(f, "label"), From(gs, n, {Nothing}))
  <2>1. From(gs, n, {Nothing}) = fs[n].whole
    BY <1>2, <1>5, ExtendNothing
  <2>2. QED
    BY <1>6, <2>1, LabelTells
<1>10. PathsKept(V, {Nothing}, gs, n)
  BY NothingKept
<1>11. QED
  BY <1>1, <1>4, <1>7, <1>8, <1>9, <1>10 DEF BodyTells

-----------------------------------------------------------------------------
(* What a piece does to what the flags tell of the executions W.            *)

LEMMA PieceMembers ==
    ASSUME NEW W, W \subseteq Path, NEW q \in Path, ~Dead(W)
    PROVE  LET X == Extend(W, {q}) IN
           /\ \A r \in X : r \in W \/ \E p \in W : p.ended = "no" /\ r = Then(p, q)
           /\ \A p \in W : p.ended = "no" => Then(p, q) \in X
           /\ \A p \in W : p.ended # "no" => p \in X
           /\ \A p \in W : Then(p, q).ended = q.ended
           /\ \E p \in W : p.ended = "no"
           /\ Dead(X) <=> q.ended # "no"
           /\ \A r \in X : r.ended = "no" => \E p \in Running(W) : r = Then(p, q)
           /\ ExitsDiffer(W) => ExitsDiffer(X)
<1> DEFINE X == Extend(W, {q})
<1>1. \A r : r \in X <=> \/ r \in W /\ r.ended # "no"
                         \/ \E p \in W : p.ended = "no" /\ r = Then(p, q)
  BY ExtendMembers
<1>2. \A p \in W : Then(p, q).ended = q.ended
  BY ThenParts
<1>3. \E p \in W : p.ended = "no"
  BY DEF Dead, Running
<1> HIDE DEF X
<1>4. Dead(X) <=> q.ended # "no"
  BY <1>1, <1>2, <1>3 DEF Dead, Running
<1>5. ExitsDiffer(W) => ExitsDiffer(X)
  BY <1>1 DEF ExitsDiffer
<1>6. \A r \in X : r.ended = "no" => \E p \in Running(W) : r = Then(p, q)
  BY <1>1 DEF Running
<1>7. QED
  BY <1>1, <1>2, <1>3, <1>4, <1>5, <1>6 DEF X

\* A constructor is called where none has been.
LEMMA CallPieceTells ==
    ASSUME NEW c, NEW W, W \subseteq Path, ~Dead(W), CallsTell(c, W),
           ~HasCalled(c), "return_" \in c => "any_ctor" \in c,
           NEW q \in Path, q.ctors = 1, q.ended = "no", NEW bit \in Ctors
    PROVE  CallsTell(c \cup {"any_ctor", bit}, Extend(W, {q}))
<1> DEFINE X == Extend(W, {q})
           d == c \cup {"any_ctor", bit}
<1>1. /\ \A r \in X : r \in W \/ \E p \in W : p.ended = "no" /\ r = Then(p, q)
      /\ \A p \in W : p.ended = "no" => Then(p, q) \in X
      /\ \A p \in W : Then(p, q).ended = "no"
      /\ \E p \in W : p.ended = "no"
      /\ ~Dead(X) /\ (ExitsDiffer(W) => ExitsDiffer(X))
  <2>1. /\ \A r \in X : r \in W \/ \E p \in W : p.ended = "no" /\ r = Then(p, q)
        /\ \A p \in W : p.ended = "no" => Then(p, q) \in X
        /\ \E p \in W : p.ended = "no"
    BY PieceMembers
  <2>2. /\ \A p \in W : Then(p, q).ended = q.ended
        /\ Dead(X) <=> q.ended # "no"
        /\ ExitsDiffer(W) => ExitsDiffer(X)
    BY PieceMembers
  <2>3. QED
    BY <2>1, <2>2
<1>2. \A r \in X : r.ended = "no" => \E p \in Running(W) : r = Then(p, q)
  BY PieceMembers
<1>3. "halt" \notin d /\ "return_" \notin d /\ "any_ctor" \in d /\ HasCalled(d)
  BY DEF CallsTell, Ctors, HasCalled
<1>4. \A p \in Running(W) : Then(p, q).ctors = 1
  <2>1. ASSUME NEW p \in Running(W) PROVE Then(p, q).ctors = 1
    <3>1. p.ctors = 0 /\ p \in Path
      BY DEF CallsTell, Called, Running
    <3>2. AtMostTwice(0 + 1) = 1
      BY DEF AtMostTwice
    <3>3. QED
      BY <3>1, <3>2, ThenParts
  <2>2. QED
    BY <2>1
<1> HIDE DEF X, d
<1>5. \A r \in Running(X) : r.ctors = 1
  BY <1>2, <1>4 DEF Running
<1>6. \E r \in X : r.ctors > 0
  <2>1. \E p \in W : p \in Running(W)
    BY <1>1 DEF Running
  <2>2. QED
    BY <1>1, <1>4, <2>1 DEF Running
<1>7. ASSUME ~ExitsDiffer(X), NEW r \in X, r.ended = "return" PROVE r.ctors = 1
  <2>1. r \in W
    BY <1>1, <1>7
  <2>2. "any_ctor" \in c
    BY <1>1, <1>3, <1>7, <2>1 DEF CallsTell, d
  <2>3. QED
    BY <1>1, <1>7, <2>1, <2>2 DEF CallsTell
<1>8. CallsTell(d, X)
  BY <1>1, <1>3, <1>5, <1>6, <1>7 DEF CallsTell, Called
<1>9. QED
  BY <1>8 DEF X, d

\* What an exit that calls nothing leaves of the calls.
LEMMA ExitCallers ==
    ASSUME NEW c, NEW W, W \subseteq Path, ~Dead(W), CallsTell(c, W),
           NEW q \in Path, q.ctors = 0, q.ended # "no"
    PROVE  LET X == Extend(W, {q}) IN
           /\ "any_ctor" \in c => \E r \in X : r.ctors > 0
           /\ \A r \in X : r \in W \/ (r.ended = q.ended /\ r.ctors = Called(c))
           /\ \E r \in X : r.ended = q.ended /\ r.ctors = Called(c)
           /\ Dead(X) /\ Running(X) = {} /\ (ExitsDiffer(W) => ExitsDiffer(X))
<1> DEFINE X == Extend(W, {q})
<1>1. /\ \A r \in X : r \in W \/ \E p \in W : p.ended = "no" /\ r = Then(p, q)
      /\ \A p \in W : p.ended = "no" => Then(p, q) \in X
      /\ \A p \in W : p.ended # "no" => p \in X
      /\ \E p \in W : p.ended = "no"
      /\ Dead(X)
      /\ ExitsDiffer(W) => ExitsDiffer(X)
      /\ \A p \in W : Then(p, q).ended = q.ended
  BY PieceMembers
<1>2. \A p \in W : Then(p, q).ctors = p.ctors
  <2>1. ASSUME NEW p \in W PROVE Then(p, q).ctors = p.ctors
    <3>1. p \in Path /\ IdlePath({}, q)
      BY DEF IdlePath
    <3>2. QED
      BY <3>1, ThenIdle
  <2>2. QED
    BY <2>1
<1>3. \A p \in W : p.ended = "no" => p.ctors = Called(c)
  BY DEF CallsTell, Running
<1> HIDE DEF X
<1>4. "any_ctor" \in c => \E r \in X : r.ctors > 0
  BY <1>1, <1>2 DEF CallsTell
<1>5. \A r \in X : r \in W \/ (r.ended = q.ended /\ r.ctors = Called(c))
  BY <1>1, <1>2, <1>3
<1>6. \E r \in X : r.ended = q.ended /\ r.ctors = Called(c)
  BY <1>1, <1>2, <1>3
<1>7. Dead(X) /\ Running(X) = {} /\ (ExitsDiffer(W) => ExitsDiffer(X))
  BY <1>1 DEF Dead
<1>8. QED
  BY <1>4, <1>5, <1>6, <1>7 DEF X

LEMMA HaltPieceTells ==
    ASSUME NEW c, NEW W, W \subseteq Path, ~Dead(W), CallsTell(c, W),
           NEW q \in Path, q.ctors = 0, q.ended = "halt"
    PROVE  CallsTell(c \cup {"halt"}, Extend(W, {q}))
<1> DEFINE X == Extend(W, {q})
           d == c \cup {"halt"}
<1>1. /\ "any_ctor" \in c => \E r \in X : r.ctors > 0
      /\ \E r \in X : r.ended = "halt"
      /\ Dead(X) /\ Running(X) = {}
  BY ExitCallers
<1> HIDE DEF X
<1>2. ~ExitsDiffer(X) => \A r \in X : r.ended # "return"
  BY <1>1 DEF ExitsDiffer
<1>3. /\ "halt" \in d /\ ("any_ctor" \in d <=> "any_ctor" \in c)
      /\ HasCalled(d) => "any_ctor" \in d
  BY DEF CallsTell, HasCalled
<1> HIDE DEF d
<1>4. CallsTell(d, X)
  BY <1>1, <1>2, <1>3 DEF CallsTell
<1>5. QED
  BY <1>4 DEF X, d

LEMMA ReturnPieceTells ==
    ASSUME NEW c, NEW W, W \subseteq Path, ~Dead(W), CallsTell(c, W),
           "any_ctor" \in c => HasCalled(c),
           NEW q \in Path, q.ctors = 0, q.ended = "return"
    PROVE  CallsTell(c \cup {"return_"}, Extend(W, {q}))
<1> DEFINE X == Extend(W, {q})
           d == c \cup {"return_"}
<1>1. /\ "any_ctor" \in c => \E r \in X : r.ctors > 0
      /\ \A r \in X : r \in W \/ (r.ended = "return" /\ r.ctors = Called(c))
      /\ \E r \in X : r.ended = "return" /\ r.ctors = Called(c)
      /\ Dead(X) /\ Running(X) = {} /\ (ExitsDiffer(W) => ExitsDiffer(X))
  BY ExitCallers
<1> HIDE DEF X
<1>2. /\ "return_" \in d /\ "halt" \notin d /\ ("any_ctor" \in d <=> "any_ctor" \in c)
      /\ HasCalled(d) <=> HasCalled(c)
      /\ "any_ctor" \in c <=> HasCalled(c)
  BY DEF CallsTell, HasCalled
<1> HIDE DEF d
<1>3. ASSUME ~ExitsDiffer(X), NEW r \in X, r.ended = "return"
      PROVE  r.ctors = IF "any_ctor" \in d THEN 1 ELSE 0
  <2>1. CASE r \in W
    BY <1>1, <1>2, <1>3, <2>1 DEF CallsTell
  <2>2. CASE r.ctors = Called(c)
    BY <1>2, <2>2 DEF Called
  <2>3. QED
    BY <1>1, <2>1, <2>2
<1>4. "any_ctor" \notin d => \E r \in X : r.ended = "return" /\ r.ctors = 0
  BY <1>1, <1>2 DEF Called
<1>5. CallsTell(d, X)
  BY <1>1, <1>2, <1>3, <1>4 DEF CallsTell
<1>6. QED
  BY <1>5 DEF X, d

\* Initialising a field is no call.
LEMMA NoCallTells ==
    ASSUME NEW c, NEW W, W \subseteq Path, CallsTell(c, W),
           NEW q \in Path, q.ctors = 0, q.ended = "no"
    PROVE  CallsTell(c, Extend(W, {q}))
<1> DEFINE f == [callSuper |-> c]
<1>1. Tells({}, f, W)
  BY DEF Tells
<1>2. Same({}, W, Extend(W, {q}))
  <2>1. IdlePath({}, q)
    BY DEF IdlePath
  <2>2. QED
    BY <2>1, IdleSame
<1> HIDE DEF f
<1>3. Tells({}, f, Extend(W, {q}))
  BY <1>1, <1>2, SameTells
<1>4. QED
  BY <1>3 DEF Tells, f

\* A piece that does not initialise v.
LEMMA OtherPieceTells ==
    ASSUME NEW x, NEW W, W \subseteq Path, ~Dead(W), NEW v \in Fields, InitsTell(x, W, v),
           NEW q \in Path, q.inits[v] = 0, NEW y,
           "this_ctor" \in x => "this_ctor" \in y,
           "halt" \in y \/ "return_" \in y => ("halt" \in x \/ "return_" \in x \/ q.ended # "no")
    PROVE  InitsTell(y, Extend(W, {q}), v)
<1> DEFINE X == Extend(W, {q})
<1>1. /\ \A r \in X : r \in W \/ \E p \in W : p.ended = "no" /\ r = Then(p, q)
      /\ Dead(X) <=> q.ended # "no"
      /\ \A r \in X : r.ended = "no" => \E p \in Running(W) : r = Then(p, q)
  BY PieceMembers
<1>2. \A p \in W : Then(p, q).inits[v] = p.inits[v]
  <2>1. ASSUME NEW p \in W PROVE Then(p, q).inits[v] = p.inits[v]
    <3>1. p \in Path /\ p.inits[v] \in 0..2
      BY PathParts
    <3>2. AtMostTwice(p.inits[v] + 0) = p.inits[v]
      BY <3>1, TwiceSums
    <3>3. QED
      BY <3>1, <3>2, ThenParts
  <2>2. QED
    BY <2>1
<1> HIDE DEF X
<1>3. "halt" \in y \/ "return_" \in y => Dead(X)
  BY <1>1 DEF InitsTell
<1>4. \A r \in X : r.inits[v] <= 1
  BY <1>1, <1>2 DEF InitsTell
<1>5. "this_ctor" \notin y => \A r \in Running(X) : r.inits[v] = 0
  BY <1>1, <1>2 DEF InitsTell, Running
<1>6. InitsTell(y, X, v)
  BY <1>3, <1>4, <1>5 DEF InitsTell
<1>7. QED
  BY <1>6 DEF X

\* One that does, where no execution has.
LEMMA InitPieceTells ==
    ASSUME NEW x, NEW W, W \subseteq Path, ~Dead(W), NEW v \in Fields, InitsTell(x, W, v),
           "this_ctor" \notin x, NEW q \in Path, q.inits[v] = 1, q.ended = "no"
    PROVE  InitsTell(x \cup {"this_ctor"}, Extend(W, {q}), v)
<1> DEFINE X == Extend(W, {q})
           y == x \cup {"this_ctor"}
<1>1. \A r \in X : r \in W \/ \E p \in W : p.ended = "no" /\ r = Then(p, q)
  BY PieceMembers
<1>2. \A p \in W : p.ended = "no" => Then(p, q).inits[v] <= 1
  <2>1. ASSUME NEW p \in W, p.ended = "no" PROVE Then(p, q).inits[v] <= 1
    <3>1. p \in Path /\ p.inits[v] = 0
      BY <2>1 DEF InitsTell, Running
    <3>2. AtMostTwice(0 + 1) = 1
      BY DEF AtMostTwice
    <3>3. QED
      BY <3>1, <3>2, ThenParts
  <2>2. QED
    BY <2>1
<1> HIDE DEF X
<1>3. "halt" \notin y /\ "return_" \notin y
  BY DEF InitsTell
<1>4. \A r \in X : r.inits[v] <= 1
  BY <1>1, <1>2 DEF InitsTell
<1>5. InitsTell(y, X, v)
  BY <1>3, <1>4 DEF InitsTell
<1>6. QED
  BY <1>5 DEF X, y

-----------------------------------------------------------------------------
(* What the flags tell stays true from step to step.                        *)

LEMMA NowTells ==
    ASSUME Typed, TellInv, Analysing
    PROVE  /\ Watched \subseteq Fields /\ frames \in Seq(Frame) /\ Len(frames) \in Nat
           /\ paths \subseteq Path /\ flow \in CtorFlow
           /\ BodyTells(Watched, flow, paths, frames)
<1>1. Watched \subseteq Fields
  BY FieldsAssumption DEF Watched
<1>2. Len(frames) \in Nat
  BY LenProperties DEF Typed
<1>3. QED
  BY <1>1, <1>2 DEF Typed, TellInv

\* The executions from the start of the body to here are those of Whole.
WholeOf(fs, P) == IF fs = <<>> THEN P ELSE Extend(Last(fs).whole, P)

LEMMA FromWholeOf ==
    ASSUME NEW fs \in Seq(Frame), NEW P, P \subseteq Path
    PROVE  WholeOf(fs, P) = From(fs, Len(fs), P)
<1>1. CASE fs = <<>>
  <2>1. From(fs, 0, P) = P
    BY ExtendNothing DEF From, Prefix
  <2>2. Len(fs) = 0
    BY <1>1, EmptySeq
  <2>3. QED
    BY <1>1, <2>1, <2>2 DEF WholeOf
<1>2. CASE fs # <<>>
  <2>1. Last(fs) = fs[Len(fs)] /\ Len(fs) # 0
    BY <1>2, EmptySeq DEF Last
  <2>2. QED
    BY <1>2, <2>1 DEF WholeOf, From, Prefix
<1>3. QED
  BY <1>1, <1>2

LEMMA FromWhole ==
    ASSUME Typed
    PROVE  Whole = From(frames, Len(frames), paths)
<1>1. frames \in Seq(Frame) /\ paths \subseteq Path
  BY DEF Typed
<1>2. Whole = WholeOf(frames, paths)
  BY DEF Whole, WholeOf, Top
<1>3. QED
  BY <1>1, <1>2, FromWholeOf

\* Where a piece is added, the executions so far go on.
LEMMA PieceBefore ==
    ASSUME Typed, TellInv, CanAdd
    PROVE  /\ Whole \subseteq Path /\ ~Dead(Whole) /\ Tells(Watched, flow, Whole)
           /\ FlagsKept(Watched, flow, frames, Len(frames))
           /\ "halt" \notin flow.callSuper
           /\ "return_" \in flow.callSuper => "any_ctor" \notin flow.callSuper
           /\ \A v \in Watched : /\ "halt" \notin flow.fieldinit[v]
                                 /\ "return_" \notin flow.fieldinit[v]
<1>1. Analysing /\ ~Dead(paths)
  BY DEF CanAdd, Analysing, Reachable, Dead
<1>2. /\ frames \in Seq(Frame) /\ paths \subseteq Path /\ Len(frames) \in 0..Len(frames)
      /\ BodyTells(Watched, flow, paths, frames)
  BY <1>1, NowTells
<1>3. Prefix(frames, Len(frames)) \subseteq Path /\ ~Dead(Prefix(frames, Len(frames)))
  BY <1>2, PrefixRuns DEF BodyTells
<1>4. Whole \subseteq Path /\ ~Dead(Whole)
  BY <1>1, <1>2, <1>3, FromWhole, ExtendRuns, ExtendDead DEF From
<1>5. Tells(Watched, flow, Whole) /\ FlagsKept(Watched, flow, frames, Len(frames))
  BY <1>2, FromWhole DEF BodyTells
<1>6. QED
  BY <1>4, <1>5 DEF Tells, CallsTell, InitsTell

\* Fewer fields, less to tell.
LEMMA LessTold ==
    ASSUME NEW V, NEW U, U \subseteq V, NEW f, NEW P, NEW fs, BodyTells(V, f, P, fs)
    PROVE  BodyTells(U, f, P, fs)
<1>1. \A h, W : Tells(V, h, W) => Tells(U, h, W)
  BY DEF Tells
<1>2. \A h, n : FlagsKept(V, h, fs, n) => FlagsKept(U, h, fs, n)
  BY DEF FlagsKept
<1>3. \A Q, n : PathsKept(V, Q, fs, n) => PathsKept(U, Q, fs, n)
  BY DEF PathsKept
<1>4. ASSUME NEW i, FrameTells(V, fs, i) PROVE FrameTells(U, fs, i)
  <2>1. \A p : (\A v \in V : p.inits[v] = 0) => (\A v \in U : p.inits[v] = 0)
    OBVIOUS
  <2>2. QED
    BY <1>1, <1>2, <1>3, <1>4, <2>1 DEF FrameTells
<1>5. QED
  BY <1>1, <1>2, <1>3, <1>4 DEF BodyTells

\* A piece with the effect q leads to the flow g, if that tells of it.
LEMMA PieceTells ==
    ASSUME Typed, TellInv, NEW q \in Path, Piece(q), NEW g, NEW U, U \subseteq Watched,
           Tells(U, g, Extend(Whole, {q})), FlagsKept(U, g, frames, Len(frames)),
           PathsKept(U, {q}, frames, Len(frames))
    PROVE  BodyTells(U, g, paths', frames')
<1> DEFINE n == Len(frames)
           X == Prefix(frames, n)
<1>1. CanAdd /\ Analysing /\ paths' = Extend(paths, {q}) /\ frames' = frames
  BY DEF Piece, CanAdd, Analysing
<1>2. /\ frames \in Seq(Frame) /\ paths \subseteq Path /\ n \in 0..n /\ U \subseteq Fields
      /\ BodyTells(Watched, flow, paths, frames)
  BY <1>1, NowTells
<1>3. BodyTells(U, flow, paths, frames)
  BY <1>2, LessTold
<1>4. X \subseteq Path
  BY <1>2, PrefixRuns DEF BodyTells
<1>5. From(frames, n, Extend(paths, {q})) = Extend(Whole, {q})
  <2>1. Whole = Extend(X, paths) /\ From(frames, n, Extend(paths, {q})) = Extend(X, Extend(paths, {q}))
    BY FromWhole DEF From
  <2> HIDE DEF X
  <2>2. QED
    BY <1>2, <1>4, <2>1, ExtendAssociative
<1>6. Extend(paths, {q}) # {}
  <2>1. PICK p \in paths : p.ended = "no"
    BY <1>1 DEF CanAdd, Reachable, Running
  <2>2. Then(p, q) \in Extend(paths, {q})
    BY <2>1, ExtendMembers
  <2>3. QED
    BY <2>2
<1>7. PathsKept(U, Extend(paths, {q}), frames, n)
  <2>1. PathsKept(U, paths, frames, n)
    BY <1>3 DEF BodyTells
  <2>2. QED
    BY <1>2, <2>1, ExtendKept
<1> HIDE DEF n
<1>8. Tells(U, g, From(frames, n, Extend(paths, {q}))) /\ FlagsKept(U, g, frames, n)
  BY <1>5 DEF n
<1>9. BodyTells(U, g, Extend(paths, {q}), frames)
  BY <1>3, <1>6, <1>7, <1>8 DEF BodyTells, n
<1>10. QED
  BY <1>1, <1>9

\* super() and this().
LEMMA CtorCallTells ==
    ASSUME Typed, TellInv, NEW isSuper \in BOOLEAN, CtorCall(isSuper), errors' = {}
    PROVE  BodyTells(Watched, flow', paths', frames')
<1> DEFINE q == [Nothing EXCEPT !.ctors = 1, !.delegated = ~isSuper]
           bit == IF isSuper THEN "super_ctor" ELSE "this_ctor"
           f == IF isSuper THEN flow ELSE Delegated(flow)
           c == flow.callSuper
           n == Len(frames)
<1>1. Piece(q) /\ CanAdd /\ Analysing
  BY DEF CtorCall, Piece, CanAdd, Analysing
<1>2. /\ q \in Path /\ q.ctors = 1 /\ q.ended = "no" /\ \A v \in Fields : q.inits[v] = 0
  BY Effects DEF Nothing
<1>3. /\ Whole \subseteq Path /\ ~Dead(Whole) /\ Tells(Watched, flow, Whole)
      /\ FlagsKept(Watched, flow, frames, n) /\ "halt" \notin c
      /\ \A v \in Watched : "halt" \notin flow.fieldinit[v] /\ "return_" \notin flow.fieldinit[v]
  BY <1>1, PieceBefore
<1>4. flow \in CtorFlow /\ Watched \subseteq Fields
  BY <1>1, NowTells
<1>5. /\ flow' = [f EXCEPT !.callSuper = @ \cup {"any_ctor", bit}]
      /\ CtorCallErrors(c) = {}
  BY <1>3 DEF CtorCall, Report
<1>6. /\ ~inLoop /\ "label" \notin c /\ ~HasCalled(c)
      /\ "return_" \in c => "any_ctor" \in c
  BY <1>5, CtorsCalled DEF CtorCallErrors
<1>7. /\ flow'.callSuper = c \cup {"any_ctor", bit}
      /\ \A v \in Fields : flow'.fieldinit[v] = flow.fieldinit[v] \cup
             (IF isSuper THEN {} ELSE {"this_ctor", "deprecate_18719"})
  BY <1>4, <1>5 DEF Delegated, CtorFlow
<1>8. bit \in Ctors
  BY DEF Ctors
<1> HIDE DEF q, bit, f, c
<1>9. CallsTell(flow'.callSuper, Extend(Whole, {q}))
  <2>1. CallsTell(c, Whole)
    BY <1>3 DEF Tells, c
  <2>2. QED
    BY <1>2, <1>3, <1>6, <1>7, <1>8, <2>1, CallPieceTells
<1>10. ASSUME NEW v \in Watched PROVE InitsTell(flow'.fieldinit[v], Extend(Whole, {q}), v)
  <2>1. InitsTell(flow.fieldinit[v], Whole, v) /\ v \in Fields
    BY <1>3, <1>4 DEF Tells
  <2>2. /\ "this_ctor" \in flow.fieldinit[v] => "this_ctor" \in flow'.fieldinit[v]
        /\ "halt" \notin flow'.fieldinit[v] /\ "return_" \notin flow'.fieldinit[v]
        /\ q.inits[v] = 0
    BY <1>2, <1>3, <1>7, <2>1
  <2>3. QED
    BY <1>2, <1>3, <2>1, <2>2, OtherPieceTells
<1>11. \A j \in 1..n : /\ frames[j].kind \notin LoopKinds /\ frames[j].kind # "label"
                       /\ frames[j].kind \notin RepeatKinds /\ frames[j].kind \notin NoExitKinds
  <2>1. \A j \in 1..n : frames[j].kind \notin LoopKinds
    BY <1>6 DEF inLoop, Within
  <2>2. \A j \in 1..n : frames[j].kind # "label"
    BY <1>3, <1>6 DEF FlagsKept, c
  <2>3. QED
    BY <2>1, <2>2 DEF RepeatKinds, NoExitKinds, LoopKinds
<1>12. FlagsKept(Watched, flow', frames, n)
  <2>1. \A s : Grows(s, c) => Grows(s, flow'.callSuper)
    BY <1>3, <1>6, <1>7, <1>8 DEF Grows, HasCalled, Ctors
  <2>2. \A j \in 1..n : Grows(frames[j].scope.callSuper, c)
    BY <1>3 DEF FlagsKept, c
  <2>3. QED
    BY <1>11, <2>1, <2>2 DEF FlagsKept
<1>13. PathsKept(Watched, {q}, frames, n)
  BY <1>11 DEF PathsKept
<1>14. Tells(Watched, flow', Extend(Whole, {q}))
  BY <1>9, <1>10 DEF Tells
<1>15. QED
  BY <1>1, <1>2, <1>12, <1>13, <1>14, PieceTells

\* The initialisation of a field.
LEMMA FieldTells ==
    ASSUME Typed, TellInv, NEW w \in Fields, modifyFieldVar(w), errors' = {},
           NEW U, U \subseteq Watched, U \subseteq Immutable, U # {} => ~deprecated'
    PROVE  BodyTells(U, flow', paths', frames')
<1> DEFINE q == [Nothing EXCEPT !.inits[w] = 1]
           n == Len(frames)
<1>1. Piece(q) /\ CanAdd /\ Analysing
  BY DEF modifyFieldVar, Piece, CanAdd, Analysing
<1>2. /\ q \in Path /\ q.ended = "no" /\ q.ctors = 0 /\ q.inits[w] = 1
      /\ \A v \in Fields : v # w => q.inits[v] = 0
  BY Effects DEF Nothing
<1>3. /\ Whole \subseteq Path /\ ~Dead(Whole) /\ Tells(Watched, flow, Whole)
      /\ FlagsKept(Watched, flow, frames, n)
      /\ \A v \in Watched : "halt" \notin flow.fieldinit[v] /\ "return_" \notin flow.fieldinit[v]
  BY <1>1, PieceBefore
<1>4. flow \in CtorFlow /\ Watched \subseteq Fields
  BY <1>1, NowTells
<1>5. FieldErrors(w) = {}
  BY DEF modifyFieldVar, Report
<1>6. w \in U => /\ "this_ctor" \notin flow.fieldinit[w] /\ "label" \notin flow.fieldinit[w]
                 /\ ~inLoop
  <2>1. w \in U => ~("this_ctor" \in flow.fieldinit[w] /\ "deprecate_18719" \in flow.fieldinit[w])
    BY DEF modifyFieldVar
  <2>2. QED
    BY <1>5, <2>1 DEF FieldErrors
<1>7. /\ flow'.callSuper = flow.callSuper
      /\ \A v \in Fields : flow'.fieldinit[v] = flow.fieldinit[v] \cup
             (IF v = w THEN {"this_ctor"} ELSE {})
  BY <1>4 DEF modifyFieldVar, CtorFlow
<1> HIDE DEF q
<1>8. CallsTell(flow'.callSuper, Extend(Whole, {q}))
  <2>1. CallsTell(flow.callSuper, Whole)
    BY <1>3 DEF Tells
  <2>2. QED
    BY <1>2, <1>3, <1>7, <2>1, NoCallTells
<1>9. ASSUME NEW v \in U PROVE InitsTell(flow'.fieldinit[v], Extend(Whole, {q}), v)
  <2>1. InitsTell(flow.fieldinit[v], Whole, v) /\ v \in Fields
    BY <1>3, <1>4 DEF Tells
  <2>2. CASE v = w
    <3>1. flow'.fieldinit[v] = flow.fieldinit[v] \cup {"this_ctor"}
      BY <1>7, <2>2
    <3>2. "this_ctor" \notin flow.fieldinit[v] /\ q.inits[v] = 1
      BY <1>2, <1>6, <2>2
    <3>3. q \in Path /\ q.ended = "no"
      BY <1>2
    <3>4. InitsTell(flow.fieldinit[v] \cup {"this_ctor"}, Extend(Whole, {q}), v)
      BY <1>3, <2>1, <3>2, <3>3, InitPieceTells
    <3>5. QED
      BY <3>1, <3>4
  <2>3. CASE v # w
    <3>1. flow'.fieldinit[v] = flow.fieldinit[v] /\ q.inits[v] = 0
      BY <1>2, <1>7, <2>1, <2>3
    <3>2. QED
      BY <1>2, <1>3, <2>1, <3>1, OtherPieceTells
  <2>4. QED
    BY <2>2, <2>3
<1>10. w \in U => \A j \in 1..n : frames[j].kind \notin RepeatKinds
  <2> SUFFICES ASSUME w \in U, NEW j \in 1..n
               PROVE  frames[j].kind \notin RepeatKinds
    OBVIOUS
  <2>1. frames[j].kind \notin LoopKinds
    BY <1>6 DEF inLoop, Within
  <2>2. frames[j].kind # "label"
    BY <1>3, <1>6 DEF FlagsKept
  <2>3. QED
    BY <2>1, <2>2 DEF RepeatKinds
<1>11. FlagsKept(U, flow', frames, n)
  BY <1>3, <1>4, <1>7 DEF FlagsKept
<1>12. PathsKept(U, {q}, frames, n)
  BY <1>2, <1>4, <1>10 DEF PathsKept
<1>13. Tells(U, flow', Extend(Whole, {q}))
  BY <1>8, <1>9 DEF Tells
<1>14. QED
  BY <1>1, <1>2, <1>11, <1>12, <1>13, PieceTells

\* assert(0) and return, which here occur in no loop but do.
LEMMA ExitTells ==
    ASSUME Typed, TellInv, ~ExitsInLoops, Halt \/ Return, errors' = {}
    PROVE  BodyTells(Watched, flow', paths', frames')
<1> DEFINE how == IF Halt THEN "halt" ELSE "return"
           bit == IF Halt THEN "halt" ELSE "return_"
           q == [Nothing EXCEPT !.ended = how]
           c == flow.callSuper
           n == Len(frames)
<1>1. Piece(q) /\ CanAdd /\ Analysing /\ flow' = orCSX(flow, bit)
  BY DEF Halt, Return, Piece, CanAdd, Analysing
<1>2. flow \in CtorFlow /\ Watched \subseteq Fields
  BY <1>1, NowTells
<1>3. /\ q \in Path /\ q.ended = how /\ how # "no" /\ q.ctors = 0
      /\ \A v \in Fields : q.inits[v] = 0
  BY Effects DEF Nothing
<1>4. /\ flow'.callSuper = c \cup {bit}
      /\ \A v \in Fields : flow'.fieldinit[v] = flow.fieldinit[v] \cup {bit}
  BY <1>1, <1>2 DEF orCSX
<1>5. /\ Whole \subseteq Path /\ ~Dead(Whole) /\ Tells(Watched, flow, Whole)
      /\ FlagsKept(Watched, flow, frames, n)
      /\ "halt" \notin c /\ ("return_" \in c => "any_ctor" \notin c)
  BY <1>1, PieceBefore
<1>6. CallsTell(c, Whole)
  BY <1>5 DEF Tells
<1>7. how = "return" /\ "any_ctor" \in c => HasCalled(c)
  BY CtorsCalled DEF Return, Report, ReturnCtorErrors
<1> HIDE DEF q, c
<1>8. CallsTell(flow'.callSuper, Extend(Whole, {q}))
  <2>1. CASE Halt
    BY <1>3, <1>4, <1>5, <1>6, <2>1, HaltPieceTells
  <2>2. CASE ~Halt
    BY <1>3, <1>4, <1>5, <1>6, <1>7, <2>2, ReturnPieceTells
  <2>3. QED
    BY <2>1, <2>2
<1>9. ASSUME NEW v \in Watched PROVE InitsTell(flow'.fieldinit[v], Extend(Whole, {q}), v)
  <2>1. InitsTell(flow.fieldinit[v], Whole, v) /\ v \in Fields
    BY <1>2, <1>5 DEF Tells
  <2>2. "this_ctor" \in flow.fieldinit[v] => "this_ctor" \in flow'.fieldinit[v]
    BY <1>4, <2>1
  <2>3. q.ended # "no" /\ q.inits[v] = 0
    BY <1>3, <2>1
  <2>4. QED
    BY <1>3, <1>5, <2>1, <2>2, <2>3, OtherPieceTells
<1>10. \A j \in 1..n : frames[j].kind \notin NoExitKinds
  BY DEF Halt, Return, MayExit, Within, NoExitKinds
<1>11. FlagsKept(Watched, flow', frames, n)
  <2>1. \A s : Grows(s, c) => Grows(s, flow'.callSuper)
    BY <1>4 DEF Grows, HasCalled
  <2>2. /\ HasCalled(flow'.callSuper) <=> HasCalled(c)
        /\ "any_ctor" \in flow'.callSuper <=> "any_ctor" \in c
        /\ "label" \in c => "label" \in flow'.callSuper
        /\ "halt" \in c => "halt" \in flow'.callSuper
    BY <1>4 DEF HasCalled
  <2>3. ASSUME NEW v \in Watched
        PROVE  /\ "label" \in flow.fieldinit[v] => "label" \in flow'.fieldinit[v]
               /\ "halt" \in flow.fieldinit[v] => "halt" \in flow'.fieldinit[v]
    BY <1>2, <1>4
  <2>4. QED
    BY <1>5, <1>10, <2>1, <2>2, <2>3 DEF FlagsKept, c
<1>12. PathsKept(Watched, {q}, frames, n)
  BY <1>2, <1>3, <1>10 DEF PathsKept
<1>13. Tells(Watched, flow', Extend(Whole, {q}))
  BY <1>8, <1>9 DEF Tells
<1>14. QED
  BY <1>1, <1>3, <1>11, <1>12, <1>13, PieceTells

LEMMA OpenStepTells ==
    ASSUME Typed, TellInv, Typed', NEW k, k \notin SecondParts, NEW f, Open(k, f),
           f = orCSX(flow, "label") \/ (f = flow /\ k # "label")
    PROVE  BodyTells(Watched, flow', paths', frames')
<1>1. Analysing /\ ~Dead(paths)
  BY DEF Open, CanAdd, Analysing, Reachable, Dead
<1>2. /\ Watched \subseteq Fields /\ frames \in Seq(Frame) /\ Len(frames) \in Nat
      /\ paths \subseteq Path /\ BodyTells(Watched, flow, paths, frames)
  BY <1>1, NowTells
<1>3. frames' = Append(frames, NewFrame(k)) /\ flow' = f /\ paths' = {Nothing}
  BY DEF Open
<1> DEFINE gs == Append(frames, NewFrame(k))
           n == Len(gs)
<1>4. /\ n \in Nat /\ n-1 = Len(frames) /\ gs[n] = NewFrame(k) /\ gs \in Seq(Frame)
      /\ \A i \in 1..n-1 : gs[i] = frames[i]
  BY <1>2, <1>3 DEF Typed
<1>5. /\ NewFrame(k).kind = k /\ NewFrame(k).scope = flow /\ NewFrame(k).saved = flow
      /\ NewFrame(k).before = paths /\ NewFrame(k).siblings = {}
      /\ NewFrame(k).whole = From(frames, Len(frames), paths)
  BY FromWhole DEF NewFrame
<1>6. BodyTells(Watched, f, {Nothing}, gs)
  <2> HIDE DEF gs
  <2>1. /\ gs[n].kind \notin SecondParts /\ gs[n].scope = flow /\ gs[n].saved = flow
        /\ gs[n].before = paths /\ gs[n].siblings = {}
        /\ gs[n].whole = From(frames, n-1, paths)
        /\ f = orCSX(flow, "label") \/ (f = flow /\ gs[n].kind # "label")
    BY <1>4, <1>5
  <2>2. QED
    BY <1>1, <1>2, <1>4, <2>1, OpenTells
<1>7. QED
  BY <1>3, <1>6

LEMMA OpensTell ==
    ASSUME Typed, TellInv, Typed',
           If \/ Question \/ AndAnd \/ For \/ Do \/ SwitchCase \/ Label
    PROVE  BodyTells(Watched, flow', paths', frames')
<1>1. PICK k \in {"then", "first", "and", "for", "do", "switch", "label"} :
         \/ Open(k, flow) /\ k # "label"
         \/ Open(k, orCSX(flow, "label"))
  BY DEF If, Question, AndAnd, For, Do, SwitchCase, Label
<1>2. k \notin SecondParts
  BY DEF SecondParts
<1>3. QED
  BY <1>1, <1>2, OpenStepTells

\* The innermost frame, its flow and the executions of its part.
LEMMA TopTells ==
    ASSUME Typed, TellInv, Analysing, frames # <<>>
    PROVE  LET n == Len(frames) IN
           /\ n \in Nat /\ n > 0 /\ n \in 1..n /\ Top = frames[n] /\ Top \in Frame
           /\ \A i \in 1..n : FrameTells(Watched, frames, i)
           /\ Top.whole \subseteq Path /\ ~Dead(Top.whole)
           /\ \A P : From(frames, n, P) = Extend(Top.whole, P)
           /\ paths # {} /\ Tells(Watched, flow, Extend(Top.whole, paths))
           /\ Tells(Watched, Top.scope, Top.whole)
           /\ Grows(Top.scope.callSuper, flow.callSuper)
           /\ FlagsKept(Watched, Top.scope, frames, n-1)
           /\ FlagsKept(Watched, flow, frames, n-1)
           /\ PathsKept(Watched, paths, frames, n-1)
<1> DEFINE n == Len(frames)
<1>1. n \in Nat /\ n > 0 /\ Top = frames[n] /\ Top \in Frame
  BY TopFrame
<1>2. n \in 1..n /\ n # 0
  BY <1>1
<1>3. BodyTells(Watched, flow, paths, frames)
  BY NowTells
<1>4. FrameTells(Watched, frames, n) /\ \A i \in 1..n : FrameTells(Watched, frames, i)
  BY <1>2, <1>3 DEF BodyTells
<1>5. \A P : From(frames, n, P) = Extend(Top.whole, P)
  BY <1>1, <1>2 DEF From, Prefix
<1>6. /\ ~Dead(Top.whole) /\ Tells(Watched, Top.scope, Top.whole)
      /\ FlagsKept(Watched, Top.scope, frames, n-1)
  BY <1>1, <1>4 DEF FrameTells
<1>7. paths # {} /\ Tells(Watched, flow, Extend(Top.whole, paths))
  BY <1>3, <1>5 DEF BodyTells
<1>8. /\ Grows(Top.scope.callSuper, flow.callSuper)
      /\ FlagsKept(Watched, flow, frames, n-1)
  <2>1. FlagsKept(Watched, flow, frames, n)
    BY <1>3 DEF BodyTells
  <2> HIDE DEF n
  <2>2. Grows(Top.scope.callSuper, flow.callSuper)
    BY <1>1, <1>2, <2>1 DEF FlagsKept
  <2>3. FlagsKept(Watched, flow, frames, n-1)
    BY <1>1, <2>1 DEF FlagsKept
  <2>4. QED
    BY <2>2, <2>3
<1>9. PathsKept(Watched, paths, frames, n-1)
  <2>1. PathsKept(Watched, paths, frames, n)
    BY <1>3 DEF BodyTells
  <2> HIDE DEF n
  <2>2. QED
    BY <1>1, <2>1 DEF PathsKept
<1>10. Top.whole \subseteq Path
  BY <1>1 DEF Frame
<1> HIDE DEF n
<1>11. QED
  BY <1>1, <1>2, <1>4, <1>5, <1>6, <1>7, <1>8, <1>9, <1>10 DEF n

\* Its flow, or that flow popped, of which either tells what was done.
LEMMA PoppedTells ==
    ASSUME Typed, TellInv, Analysing, frames # <<>>, NEW h,
           h = flow \/ h = OR(Top.scope, flow)
    PROVE  /\ Tells(Watched, h, From(frames, Len(frames), paths))
           /\ FlagsKept(Watched, h, frames, Len(frames)-1)
<1>1. Watched \subseteq Fields /\ paths \subseteq Path
  BY NowTells
<1>2. /\ Top.whole \subseteq Path /\ ~Dead(Top.whole)
      /\ \A P : From(frames, Len(frames), P) = Extend(Top.whole, P)
      /\ paths # {} /\ Tells(Watched, flow, Extend(Top.whole, paths))
      /\ Tells(Watched, Top.scope, Top.whole)
      /\ Grows(Top.scope.callSuper, flow.callSuper)
      /\ FlagsKept(Watched, Top.scope, frames, Len(frames)-1)
      /\ FlagsKept(Watched, flow, frames, Len(frames)-1)
  BY TopTells
<1>3. Tells(Watched, OR(Top.scope, flow), Extend(Top.whole, paths))
  BY <1>1, <1>2, PopTells
<1>4. FlagsKept(Watched, OR(Top.scope, flow), frames, Len(frames)-1)
  BY <1>1, <1>2, PopKept
<1>5. QED
  BY <1>2, <1>3, <1>4

\* The first branch ends with the flow h.
LEMMA BranchStepTells ==
    ASSUME Typed, TellInv, Typed', Analysing, frames # <<>>,
           Top.kind \in {"then", "first"}, NEW k \in SecondParts, NEW h,
           NextBranch(k, Top.saved, h), h = flow \/ h = OR(Top.scope, flow)
    PROVE  BodyTells(Watched, flow', paths', frames')
<1> DEFINE n == Len(frames)
<1>1. /\ n \in Nat /\ n > 0 /\ n \in 1..n /\ frames \in Seq(Frame)
      /\ Top = frames[n] /\ frames[n] \in Frame /\ Watched \subseteq Fields
      /\ BodyTells(Watched, flow, paths, frames)
  BY NowTells, TopFrame
<1>2. /\ frames' = Append(Front(frames), [Top EXCEPT !.kind = k, !.scope = Top.saved,
                                             !.saved = h, !.siblings = @ \cup paths])
      /\ paths' = {Nothing} /\ flow' = Top.saved
  BY DEF NextBranch
<1>3. frames' \in Seq(Frame)
  BY DEF Typed
<1>4. /\ Tells(Watched, h, From(frames, n, paths))
      /\ FlagsKept(Watched, h, frames, n-1)
  BY PoppedTells
<1> HIDE DEF n
<1>5. /\ Front(frames) \in Seq(Frame) /\ Len(Front(frames)) = n-1
      /\ \A i \in 1..n-1 : Front(frames)[i] = frames[i]
  BY TopFrame DEF n
<1>6. /\ Len(frames') = n /\ \A i \in 1..n-1 : frames'[i] = frames[i]
      /\ frames'[n] = [Top EXCEPT !.kind = k, !.scope = Top.saved, !.saved = h,
                                  !.siblings = @ \cup paths]
  BY <1>1, <1>2, <1>5
<1>7. /\ frames'[n].kind = k /\ frames'[n].scope = Top.saved /\ frames'[n].saved = h
      /\ frames'[n].before = frames[n].before /\ frames'[n].whole = frames[n].whole
      /\ frames'[n].siblings = frames[n].siblings \cup paths
  BY <1>1, <1>6 DEF Frame
<1>8. n = Len(frames)
  BY DEF n
<1> DEFINE gs == frames'
<1>9. BodyTells(Watched, frames[n].saved, {Nothing}, gs)
  <2>1. /\ gs \in Seq(Frame) /\ Len(gs) = n /\ \A i \in 1..n-1 : gs[i] = frames[i]
        /\ gs[n].kind \in SecondParts /\ gs[n].before = frames[n].before
        /\ gs[n].whole = frames[n].whole /\ gs[n].siblings = frames[n].siblings \cup paths
        /\ gs[n].scope = frames[n].saved /\ frames[n].kind \in {"then", "first"}
        /\ Tells(Watched, gs[n].saved, From(frames, n, paths))
        /\ FlagsKept(Watched, gs[n].saved, frames, n-1)
    BY <1>1, <1>3, <1>4, <1>6, <1>7
  <2> HIDE DEF gs
  <2>2. QED
    BY <1>1, <1>8, <2>1, BranchTells
<1>10. QED
  BY <1>1, <1>2, <1>9

LEMMA BranchesTell ==
    ASSUME Typed, TellInv, Typed', Else \/ Colon
    PROVE  BodyTells(Watched, flow', paths', frames')
<1>1. Analysing /\ frames # <<>> /\ Top.kind \in {"then", "first"}
  BY DEF Else, Colon, TopIs
<1>2. \/ NextBranch("else", Top.saved, OR(Top.scope, flow))
      \/ NextBranch("second", Top.saved, flow)
  BY DEF Else, Colon
<1>3. QED
  BY <1>1, <1>2, BranchStepTells DEF SecondParts

\* The innermost frame ends with the flow f, having done P as a whole.
LEMMA CloseStepTells ==
    ASSUME Typed, TellInv, Analysing, frames # <<>>,
           NEW f, NEW P, P \subseteq Path, P # {}, Close(f, P),
           Tells(Watched, f, From(frames, Len(frames), P)),
           FlagsKept(Watched, f, frames, Len(frames)-1),
           PathsKept(Watched, P, frames, Len(frames)-1)
    PROVE  BodyTells(Watched, flow', paths', frames')
<1>1. /\ frames' = Front(frames) /\ flow' = f
      /\ paths' = Extend(frames[Len(frames)].before, P)
  BY TopFrame DEF Close
<1>2. /\ Len(frames) > 0 /\ Front(frames) \in Seq(Frame) /\ frames \in Seq(Frame)
      /\ Len(Front(frames)) = Len(frames) - 1
      /\ \A i \in 1..Len(frames)-1 : Front(frames)[i] = frames[i]
  BY TopFrame
<1>3. Watched \subseteq Fields /\ \A i \in 1..Len(frames) : FrameTells(Watched, frames, i)
  BY NowTells DEF BodyTells
<1>4. BodyTells(Watched, f, Extend(frames[Len(frames)].before, P), Front(frames))
  BY <1>2, <1>3, CloseTells
<1>5. QED
  BY <1>1, <1>4

\* Both branches, or the second operand and its absence, end together.
LEMMA MergeParts ==
    ASSUME EndIf \/ EndCond \/ EndAndAnd
    PROVE  /\ Analysing /\ frames # <<>> /\ Top.kind \in {"else", "second", "and"}
           /\ \E f : /\ f = flow \/ f = OR(Top.scope, flow)
                    /\ CloseMerging(f, Top.saved, paths \cup SavedPart(Top))
<1> DEFINE Q == SavedPart(Top)
<1>1. CASE EndIf
  <2>1. /\ CloseMerging(OR(Top.scope, flow), Top.saved, Top.siblings \cup paths)
        /\ Analysing /\ frames # <<>> /\ Top.kind = "else"
    BY <1>1 DEF EndIf, TopIs
  <2>2. paths \cup Q = Top.siblings \cup paths
    BY <2>1 DEF SavedPart, SecondParts
  <2>3. QED
    BY <2>1, <2>2
<1>2. CASE EndCond
  <2>1. /\ CloseMerging(flow, Top.saved, Top.siblings \cup paths)
        /\ Analysing /\ frames # <<>> /\ Top.kind = "second"
    BY <1>2 DEF EndCond, TopIs
  <2>2. paths \cup Q = Top.siblings \cup paths
    BY <2>1 DEF SavedPart, SecondParts
  <2>3. QED
    BY <2>1, <2>2
<1>3. CASE EndAndAnd
  <2>1. /\ CloseMerging(flow, Top.saved, {Nothing} \cup paths)
        /\ Analysing /\ frames # <<>> /\ Top.kind = "and"
    BY <1>3 DEF EndAndAnd, TopIs
  <2>2. paths \cup Q = {Nothing} \cup paths
    BY <2>1 DEF SavedPart, SecondParts
  <2>3. QED
    BY <2>1, <2>2
<1>4. QED
  BY <1>1, <1>2, <1>3

\* The flows of the two and the executions each is the flow of.
LEMMA MergedTell ==
    ASSUME Typed, TellInv, Analysing, frames # <<>>, NEW f,
           f = flow \/ f = OR(Top.scope, flow)
    PROVE  LET n == Len(frames)
               Q == SavedPart(Top)
           IN  /\ Tells(Watched, f, From(frames, n, paths))
               /\ Tells(Watched, Top.saved, From(frames, n, Q))
               /\ From(frames, n, paths \cup Q) = From(frames, n, paths) \cup From(frames, n, Q)
               /\ FlagsKept(Watched, f, frames, n-1) /\ FlagsKept(Watched, Top.saved, frames, n-1)
               /\ PathsKept(Watched, paths \cup Q, frames, n-1)
               /\ Q \subseteq Path /\ paths \subseteq Path /\ Watched \subseteq Fields
               /\ paths # {}
<1> DEFINE Q == SavedPart(Top)
           n == Len(frames)
<1>1. Tells(Watched, f, From(frames, n, paths)) /\ FlagsKept(Watched, f, frames, n-1)
  BY PoppedTells
<1>2. /\ n \in 1..n /\ Top = frames[n] /\ Top \in Frame /\ paths # {}
      /\ \A P : From(frames, n, P) = Extend(Top.whole, P)
      /\ PathsKept(Watched, paths, frames, n-1)
      /\ FrameTells(Watched, frames, n)
  BY TopTells
<1>3. /\ Tells(Watched, Top.saved, From(frames, n, Q))
      /\ FlagsKept(Watched, Top.saved, frames, n-1) /\ PathsKept(Watched, Q, frames, n-1)
  BY <1>2 DEF FrameTells
<1>4. Q \subseteq Path /\ paths \subseteq Path /\ Watched \subseteq Fields
  BY <1>2, NothingRuns, NowTells DEF SavedPart, Frame
<1> HIDE DEF Q, n
<1>5. From(frames, n, paths \cup Q) = From(frames, n, paths) \cup From(frames, n, Q)
  BY <1>2, ExtendUnion
<1>6. PathsKept(Watched, paths \cup Q, frames, n-1)
  BY <1>2, <1>3 DEF PathsKept
<1>7. QED
  BY <1>1, <1>2, <1>3, <1>4, <1>5, <1>6 DEF Q, n

LEMMA MergesTell ==
    ASSUME Typed, TellInv, EndIf \/ EndCond \/ EndAndAnd, errors' = {}
    PROVE  BodyTells(Watched, flow', paths', frames')
<1> DEFINE Q == SavedPart(Top)
           n == Len(frames)
<1>1. Analysing /\ frames # <<>>
  BY MergeParts
<1>2. PICK f : /\ f = flow \/ f = OR(Top.scope, flow)
               /\ CloseMerging(f, Top.saved, paths \cup Q)
  BY MergeParts
<1>3. /\ Tells(Watched, f, From(frames, n, paths))
      /\ Tells(Watched, Top.saved, From(frames, n, Q))
      /\ From(frames, n, paths \cup Q) = From(frames, n, paths) \cup From(frames, n, Q)
      /\ FlagsKept(Watched, f, frames, n-1) /\ FlagsKept(Watched, Top.saved, frames, n-1)
      /\ PathsKept(Watched, paths \cup Q, frames, n-1)
      /\ Q \subseteq Path /\ paths \subseteq Path /\ Watched \subseteq Fields
      /\ paths # {}
  BY <1>1, <1>2, MergedTell
<1> HIDE DEF Q, n
<1>4. Close(MergeFlow(f, Top.saved), paths \cup Q) /\ MergeErrors(f, Top.saved) = {}
  BY <1>2 DEF CloseMerging, Report
<1>5. mergeCallSuper(f.callSuper, Top.saved.callSuper).ok
  BY <1>4 DEF MergeErrors
<1>6. Tells(Watched, MergeFlow(f, Top.saved), From(frames, n, paths \cup Q))
  <2>1. Tells(Watched, MergeFlow(f, Top.saved), From(frames, n, paths) \cup From(frames, n, Q))
    BY <1>3, <1>5, MergeTells
  <2>2. QED
    BY <1>3, <2>1
<1>7. FlagsKept(Watched, MergeFlow(f, Top.saved), frames, n-1)
  BY <1>3, MergeKeeps
<1>8. paths \cup Q \subseteq Path /\ paths \cup Q # {}
  BY <1>3
<1>9. QED
  BY <1>1, <1>3, <1>4, <1>6, <1>7, <1>8, CloseStepTells DEF n

\* A loop or a switch without exits ends.
LEMMA LoopsTell ==
    ASSUME Typed, TellInv, EndFor \/ EndSwitch
    PROVE  BodyTells(Watched, flow', paths', frames')
<1> DEFINE n == Len(frames)
           h == OR(Top.scope, flow)
<1>1. Analysing /\ frames # <<>> /\ Top.kind \in NoExitKinds
  BY DEF EndFor, EndSwitch, TopIs, NoExitKinds
<1>2. /\ Watched \subseteq Fields /\ frames \in Seq(Frame) /\ paths \subseteq Path
      /\ BodyTells(Watched, flow, paths, frames)
  BY <1>1, NowTells
<1>3. /\ n > 0 /\ n \in 1..n /\ Top = frames[n] /\ Top \in Frame /\ paths # {}
      /\ FrameTells(Watched, frames, n)
  BY <1>1, TopTells
<1>4. /\ \A p \in paths : p.ended = "no" /\ IdlePath(Watched, p)
      /\ Tells(Watched, h, Top.whole) /\ FlagsKept(Watched, h, frames, n-1)
  BY <1>1, <1>2, <1>3, LoopTells
<1>5. PICK P : /\ Close(h, P) /\ P \subseteq Path /\ P # {}
               /\ \A p \in P : p.ended = "no" /\ IdlePath(Watched, p)
  <2>1. CASE EndFor
    <3>1. Close(h, {Nothing} \cup Repeat(paths))
      BY <2>1 DEF EndFor, Pop
    <3>2. Repeat(paths) \subseteq Path
      BY <1>2, ExtendRuns DEF Repeat
    <3>3. \A p \in Repeat(paths) : p.ended = "no" /\ IdlePath(Watched, p)
      BY <1>2, <1>4, IdleRepeat
    <3>4. Nothing \in Path /\ Nothing.ended = "no" /\ IdlePath(Watched, Nothing)
      BY <1>2, NothingRuns, NothingKept
    <3>5. QED
      BY <3>1, <3>2, <3>3, <3>4
  <2>2. CASE EndSwitch
    <3>1. Close(h, Top.siblings \cup paths)
      BY <2>2 DEF EndSwitch, Pop
    <3>2. \A p \in Top.siblings : p.ended = "no" /\ IdlePath(Watched, p)
      BY <1>1, <1>3 DEF FrameTells, IdlePath
    <3>3. Top.siblings \subseteq Path
      BY <1>3 DEF Frame
    <3>4. QED
      BY <1>2, <1>3, <1>4, <3>1, <3>2, <3>3
  <2>3. QED
    BY <2>1, <2>2
<1> HIDE DEF h
<1>6. Tells(Watched, h, From(frames, n, P)) /\ PathsKept(Watched, P, frames, n-1)
  BY <1>2, <1>3, <1>4, <1>5, LoopEnds
<1>7. QED
  BY <1>1, <1>4, <1>5, <1>6, CloseStepTells

\* A statement that may be repeated ends.
LEMMA RepeatsTell ==
    ASSUME Typed, TellInv, EndDo \/ EndLabel
    PROVE  BodyTells(Watched, flow', paths', frames')
<1> DEFINE n == Len(frames)
           h == OR(Top.scope, flow)
           a == Top.scope.callSuper
           b == flow.callSuper
           X == Top.whole
           W == Extend(X, paths)
<1>1. Analysing /\ frames # <<>> /\ Close(h, Repeat(paths)) /\ Top.kind \in RepeatKinds
  BY DEF EndDo, EndLabel, TopIs, Pop, RepeatKinds, LoopKinds
<1>2. /\ Watched \subseteq Fields /\ frames \in Seq(Frame) /\ paths \subseteq Path
      /\ BodyTells(Watched, flow, paths, frames)
  BY <1>1, NowTells
<1>3. /\ n \in 1..n /\ Top = frames[n] /\ paths # {}
      /\ X \subseteq Path /\ ~Dead(X) /\ \A P : From(frames, n, P) = Extend(X, P)
      /\ Tells(Watched, flow, W) /\ Tells(Watched, Top.scope, X) /\ Grows(a, b)
      /\ PathsKept(Watched, paths, frames, n-1)
  BY <1>1, TopTells
<1>4. /\ HasCalled(b) => HasCalled(a)
      /\ \A p \in paths, v \in Watched : p.inits[v] = 0
  BY <1>1, <1>2, <1>3 DEF BodyTells, FlagsKept, PathsKept
<1>5. CallsTell(a, X) /\ CallsTell(b, W)
  BY <1>3 DEF Tells
<1>6. Tells(Watched, h, From(frames, n, paths)) /\ FlagsKept(Watched, h, frames, n-1)
  BY <1>1, PoppedTells
<1> HIDE DEF a, b, X, W, n, h
<1>7. ASSUME NEW p \in Running(paths) PROVE IdlePath(Watched, p)
  <2>1. PICK w \in X : w.ended = "no"
    BY <1>3 DEF Dead, Running
  <2>2. p \in paths /\ p.ended = "no"
    BY DEF Running
  <2>3. w \in Path /\ p \in Path /\ w.ctors \in 0..2 /\ p.ctors \in 0..2
    BY <1>2, <1>3, <2>2, PathParts
  <2>4. /\ Then(w, p) \in W /\ Then(w, p).ended = "no"
        /\ Then(w, p).ctors = AtMostTwice(w.ctors + p.ctors)
    BY <2>1, <2>2, <2>3, ExtendMembers, ThenParts DEF W
  <2>5. w.ctors = Called(a) /\ AtMostTwice(w.ctors + p.ctors) = Called(b)
    BY <1>5, <2>1, <2>4 DEF CallsTell, Running
  <2>6. "halt" \notin b
    BY <1>5, <2>4 DEF CallsTell, Dead, Running
  <2>7. Called(a) = Called(b) /\ Called(a) \in 0..1
    BY <1>3, <1>4, <2>6 DEF Called, Grows
  <2>8. p.ctors = 0
    BY <2>3, <2>5, <2>7 DEF AtMostTwice
  <2>9. QED
    BY <1>4, <2>2, <2>8 DEF IdlePath
<1>8. Same(Watched, Extend(X, paths), Extend(X, Repeat(paths)))
  BY <1>2, <1>3, <1>4, <1>7, RepeatSame
<1>9. Tells(Watched, h, From(frames, n, Repeat(paths)))
  BY <1>3, <1>6, <1>8, SameTells
<1>10. PathsKept(Watched, Repeat(paths), frames, n-1)
  <2>1. PathsKept(Watched, Extend(paths, paths), frames, n-1)
    BY <1>2, <1>3, ExtendKept
  <2>2. QED
    BY <1>3, <2>1 DEF PathsKept, Repeat
<1>11. Repeat(paths) \subseteq Path /\ Repeat(paths) # {}
  BY <1>2, <1>3, ExtendRuns DEF Repeat
<1>12. QED
  BY <1>1, <1>6, <1>9, <1>10, <1>11, CloseStepTells DEF n

LEMMA NextCaseTells ==
    ASSUME Typed, TellInv, Typed', NextCase
    PROVE  BodyTells(Watched, flow', paths', frames')
<1> DEFINE n == Len(frames)
<1>1. Analysing /\ frames # <<>> /\ Top.kind \in NoExitKinds
  BY DEF NextCase, TopIs, NoExitKinds
<1>2. /\ n \in Nat /\ n > 0 /\ n \in 1..n /\ frames \in Seq(Frame) /\ Watched \subseteq Fields
      /\ Top = frames[n] /\ paths \subseteq Path /\ BodyTells(Watched, flow, paths, frames)
  BY <1>1, NowTells, TopFrame
<1>3. /\ frames' = [frames EXCEPT ![n].siblings = @ \cup paths]
      /\ paths' = {Nothing} /\ flow' = orCSX(flow, "label")
  BY DEF NextCase
<1>4. frames' \in Seq(Frame)
  BY DEF Typed
<1>5. n = Len(frames)
  OBVIOUS
<1> HIDE DEF n
<1>6. \A i \in 1..n-1 : frames'[i] = frames[i]
  BY <1>2, <1>3, <1>5, LenProperties
<1>7. Len(frames') = n
  BY <1>2, <1>3, <1>4, <1>5, LenProperties
<1>8. frames'[n] = [frames[n] EXCEPT !.siblings = @ \cup paths]
  BY <1>2, <1>3, <1>5, LenProperties
<1>9. BodyTells(Watched, orCSX(flow, "label"), {Nothing}, frames')
  BY <1>1, <1>2, <1>4, <1>5, <1>6, <1>7, <1>8, CaseTells
<1>10. QED
  BY <1>3, <1>9

LEMMA TellInit == Init => TellInv
<1> SUFFICES ASSUME Init PROVE BodyTells(Watched, flow, paths, frames)
  BY DEF TellInv
<1>1. /\ flow.callSuper = {} /\ \A v \in Watched : flow.fieldinit[v] = {}
      /\ Len(frames) = 0 /\ paths = {Nothing} /\ Watched \subseteq Fields
  BY FieldsAssumption, EmptySeq DEF Init, Watched
<1>2. From(frames, 0, {Nothing}) = {Nothing}
  BY NothingRuns, ExtendNothing DEF From, Prefix
<1>3. /\ Running({Nothing}) = {Nothing} /\ ~Dead({Nothing}) /\ Nothing.ctors = 0
      /\ Nothing.ended = "no" /\ \A v \in Fields : Nothing.inits[v] = 0
  <2>1. Nothing.ctors = 0 /\ Nothing.ended = "no" /\ \A v \in Fields : Nothing.inits[v] = 0
    BY DEF Nothing
  <2>2. Running({Nothing}) = {Nothing}
    BY <2>1 DEF Running
  <2>3. QED
    BY <2>1, <2>2 DEF Dead
<1>4. CallsTell({}, {Nothing})
  BY <1>3 DEF CallsTell, HasCalled, Called
<1>5. ASSUME NEW v \in Watched PROVE InitsTell({}, {Nothing}, v)
  <2>1. Nothing.inits[v] = 0 /\ 0 <= 1
    BY <1>1, <1>3
  <2>2. \A p \in {Nothing} : p.inits[v] = 0 /\ p.inits[v] <= 1
    BY <2>1
  <2>3. QED
    BY <2>2 DEF InitsTell, Running
<1>6. Tells(Watched, flow, {Nothing})
  BY <1>1, <1>4, <1>5 DEF Tells
<1>7. 1..0 = {}
  OBVIOUS
<1>8. QED
  BY <1>1, <1>2, <1>6, <1>7 DEF BodyTells, FlagsKept, PathsKept

LEMMA TellStep ==
    ASSUME Typed, TellInv, ~ExitsInLoops, Next, Typed'
    PROVE  TellInv'
<1> SUFFICES ASSUME stage' = "analysing", errors' = {}
             PROVE  BodyTells(Watched', flow', paths', frames')
  BY DEF TellInv, Analysing
<1>1. CASE \E w \in Fields : Assign(w) \/ TakeAddress(w)
  <2>1. PICK w \in Fields : modifyFieldVar(w)
    BY <1>1 DEF Assign, TakeAddress
  <2>2. /\ Watched' \subseteq Watched /\ Watched' \subseteq Immutable
        /\ Watched' # {} => ~deprecated'
    <3>1. deprecated => deprecated'
      BY <2>1 DEF modifyFieldVar
    <3>2. QED
      BY <3>1 DEF Watched
  <2>3. QED
    BY <2>1, <2>2, FieldTells
<1>2. CASE Next /\ ~\E w \in Fields : Assign(w) \/ TakeAddress(w)
  <2>1. CASE EndBody
    BY <2>1 DEF EndBody
  <2>2. CASE ~EndBody
    <3>1. deprecated' = deprecated
      BY <1>2, <2>2 DEF Next, CtorCall, Halt, Return,
         If, Question, AndAnd, For, Do, SwitchCase, Label, Open,
         Else, Colon, NextBranch, NextCase, EndIf, EndCond, EndAndAnd, CloseMerging,
         EndFor, EndDo, EndSwitch, EndLabel, Pop, Close
    <3>2. Watched' = Watched
      BY <3>1 DEF Watched
    <3>3. BodyTells(Watched, flow', paths', frames')
      <4>1. CASE \E isSuper \in BOOLEAN : CtorCall(isSuper)
        BY <4>1, CtorCallTells
      <4>2. CASE Halt \/ Return
        BY <4>2, ExitTells
      <4>3. CASE If \/ Question \/ AndAnd \/ For \/ Do \/ SwitchCase \/ Label
        BY <4>3, OpensTell
      <4>4. CASE Else \/ Colon
        BY <4>4, BranchesTell
      <4>5. CASE NextCase
        BY <4>5, NextCaseTells
      <4>6. CASE EndIf \/ EndCond \/ EndAndAnd
        BY <4>6, MergesTell
      <4>7. CASE EndFor \/ EndSwitch
        BY <4>7, LoopsTell
      <4>8. CASE EndDo \/ EndLabel
        BY <4>8, RepeatsTell
      <4>9. QED
        BY <1>2, <2>2, <4>1, <4>2, <4>3, <4>4, <4>5, <4>6, <4>7, <4>8 DEF Next
    <3>4. QED
      BY <3>2, <3>3
  <2>3. QED
    BY <2>1, <2>2
<1>3. QED
  BY <1>1, <1>2

-----------------------------------------------------------------------------
(* What follows from what the flags tell.                                   *)

LEMMA TellsFlags == Typed /\ TellInv => FlagsTellPaths
<1> SUFFICES ASSUME Typed, TellInv, Analysing
             PROVE  FlagsTellPaths
  BY DEF FlagsTellPaths, Analysing
<1>1. CallsTell(flow.callSuper, Whole)
  BY NowTells, FromWhole DEF BodyTells, Tells
<1>2. \A p \in Whole : p.ended \in {"no", "return", "halt"}
  BY WholeTypes DEF Path
<1>3. flow.callSuper \cap Ctors # {} => \A p \in Running(Whole) : p.ctors > 0
  BY <1>1, CtorsCalled DEF CallsTell, Called
<1>4. ASSUME "any_ctor" \notin flow.callSuper, ~ExitsDiffer(Whole), NEW p \in Whole,
             p.ended # "halt"
      PROVE  p.ctors = 0
  <2>1. CASE p.ended = "no"
    BY <1>1, <1>4, <2>1 DEF CallsTell, Called, Running
  <2>2. CASE p.ended = "return"
    BY <1>1, <1>4, <2>2 DEF CallsTell
  <2>3. QED
    BY <1>2, <1>4, <2>1, <2>2
<1>5. QED
  BY <1>3, <1>4 DEF FlagsTellPaths

\* Only the end of the body ends the analysis.
LEMMA OtherSteps ==
    ASSUME Next, ~EndBody
    PROVE  stage' = stage /\ stage = "analysing" /\ errors = {}
  BY DEF Next, CtorCall, Assign, TakeAddress, modifyFieldVar, Halt, Return, Piece,
     If, Question, AndAnd, For, Do, SwitchCase, Label, Open, CanAdd, Analysing,
     Else, Colon, NextBranch, NextCase, EndIf, EndCond, EndAndAnd, CloseMerging,
     EndFor, EndDo, EndSwitch, EndLabel, Pop, Close

LEMMA EndWhole ==
    ASSUME Typed, TellInv, EndBody
    PROVE  /\ Analysing /\ Whole = paths /\ paths \subseteq Path
           /\ CallsTell(flow.callSuper, paths)
<1>1. Analysing /\ Whole = paths
  BY DEF EndBody, Whole
<1>2. QED
  BY <1>1, NowTells, FromWhole DEF BodyTells, Tells

LEMMA CallStep ==
    ASSUME Typed, TellInv, OneConstructorCall, [Next]_vars
    PROVE  OneConstructorCall'
<1>1. CASE EndBody
  <2> SUFFICES ASSUME stage' = "accepted", ~ExitsDiffer(paths'), NEW p \in paths',
                      p.ended # "halt"
               PROVE  p.ctors + (IF implicit' THEN 1 ELSE 0)
                        \in IF cd' THEN {1} ELSE 0..1
    BY DEF OneConstructorCall, Accepted, CtorsRun
  <2> DEFINE c == flow.callSuper
  <2>1. /\ CallsTell(c, paths) /\ p \in paths /\ p.ended \in {"no", "return", "halt"}
        /\ ~ExitsDiffer(paths)
    BY <1>1, EndWhole DEF EndBody, Path
  <2>2. cd' = cd /\ (implicit' <=> cd /\ "any_ctor" \notin c)
    BY <1>1 DEF EndBody, InsertSuper
  <2>3. CASE "any_ctor" \notin c
    <3>1. p.ctors = 0
      BY <2>1, <2>3 DEF CallsTell, Called, Running
    <3>2. QED
      BY <2>2, <2>3, <3>1
  <2>4. CASE "any_ctor" \in c
    <3>1. p.ended = "no" => HasCalled(c)
      <4>1. p.ended = "no" => FallsThrough
        BY <2>1 DEF FallsThrough, Reachable, Running
      <4>2. FallsThrough => ReturnCtorErrors(c) = {}
        BY <1>1, <2>4 DEF EndBody, InsertSuper
      <4>3. QED
        BY <2>4, <4>1, <4>2, CtorsCalled DEF ReturnCtorErrors
    <3>2. p.ctors = 1
      BY <2>1, <2>4, <3>1 DEF CallsTell, Called, Running
    <3>3. QED
      BY <2>2, <2>4, <3>2
  <2>5. QED
    BY <2>3, <2>4
<1>2. CASE UNCHANGED vars
  BY <1>2 DEF OneConstructorCall, Accepted, CtorsRun, vars
<1>3. CASE Next /\ ~EndBody
  BY <1>3, OtherSteps DEF OneConstructorCall, Accepted
<1>4. QED
  BY <1>1, <1>2, <1>3

\* No execution initialises an immutable field twice unnoticed.
NoneTwice == \A p \in Whole, v \in Immutable : p.inits[v] <= 1

LEMMA TellsTwice ==
    ASSUME Typed, TellInv, Analysing, ~deprecated
    PROVE  NoneTwice
<1>1. \A v \in Immutable : InitsTell(flow.fieldinit[v], Whole, v)
  BY NowTells, FromWhole DEF BodyTells, Tells, Watched
<1>2. QED
  BY <1>1 DEF NoneTwice, InitsTell

\* So it stays after the end of the body.
EndedOnce == stage # "analysing" /\ errors = {} /\ ~deprecated => NoneTwice

LEMMA EndedStep ==
    ASSUME Typed, TellInv, EndedOnce, [Next]_vars
    PROVE  EndedOnce'
<1>1. CASE EndBody
  <2>1. ~deprecated => NoneTwice
    BY <1>1, TellsTwice DEF EndBody
  <2>2. Whole' = Whole /\ deprecated' = deprecated
    BY <1>1 DEF EndBody, Whole, Top
  <2>3. QED
    BY <2>1, <2>2 DEF EndedOnce, NoneTwice
<1>2. CASE UNCHANGED vars
  BY <1>2 DEF EndedOnce, NoneTwice, Whole, Top, vars
<1>3. CASE Next /\ ~EndBody
  BY <1>3, OtherSteps DEF EndedOnce
<1>4. QED
  BY <1>1, <1>2, <1>3

LEMMA TwiceReported == Typed /\ TellInv /\ EndedOnce => DoubleInitReported
<1> SUFFICES ASSUME Typed, TellInv, EndedOnce, errors = {}, ~deprecated,
                    NEW p \in Whole, NEW v \in Immutable
             PROVE  ~(p.inits[v] > 1)
  BY DEF DoubleInitReported
<1>1. NoneTwice
  BY TellsTwice DEF EndedOnce, Analysing
<1>2. p.inits[v] <= 1 /\ p.inits[v] \in 0..2
  BY <1>1, WholeTypes, PathParts, FieldsAssumption DEF NoneTwice
<1>3. QED
  BY <1>2

\* Of two flags that do not both say that nothing goes on, the order is the same.
LEMMA MergeCommutes ==
    ASSUME NEW a, NEW b,
           \A x \in {a, b} : /\ HasCalled(x) => "any_ctor" \in x
                             /\ "return_" \in x /\ "any_ctor" \in x =>
                                   HasCalled(x) \/ "halt" \in x,
           \/ "halt" \notin a /\ ~("return_" \in a /\ "any_ctor" \in a)
           \/ "halt" \notin b /\ ~("return_" \in b /\ "any_ctor" \in b)
    PROVE  LET ab == mergeCallSuper(a, b)
               ba == mergeCallSuper(b, a)
           IN  /\ ab.ok = ba.ok
               /\ ab.ok => /\ ab.csx \cap {"any_ctor", "halt", "label"}
                                = ba.csx \cap {"any_ctor", "halt", "label"}
                           /\ (ab.csx \cap Ctors = {}) = (ba.csx \cap Ctors = {})
  BY CtorsCalled DEF mergeCallSuper, Merged, HasCalled

LEMMA TellsOrder == Typed /\ TellInv => BranchesCommute
<1> SUFFICES ASSUME Typed, TellInv, TopIs("else") \/ TopIs("second"), errors = {},
                    Running(paths \cup Top.siblings) # {}
             PROVE  LET a == flow.callSuper
                        b == Top.saved.callSuper
                        ab == mergeCallSuper(a, b)
                        ba == mergeCallSuper(b, a)
                    IN  /\ ab.ok = ba.ok
                        /\ ab.ok => /\ ab.csx \cap {"any_ctor", "halt", "label"}
                                         = ba.csx \cap {"any_ctor", "halt", "label"}
                                    /\ (ab.csx \cap Ctors = {}) = (ba.csx \cap Ctors = {})
  BY DEF BranchesCommute
<1> DEFINE a == flow.callSuper
           b == Top.saved.callSuper
           n == Len(frames)
<1>1. frames # <<>> /\ Analysing /\ Top.kind \in SecondParts
  BY DEF TopIs, Typed, Analysing, SecondParts
<1>2. /\ n \in 1..n /\ Top = frames[n] /\ Top \in Frame /\ Top.whole \subseteq Path
      /\ ~Dead(Top.whole) /\ \A P : From(frames, n, P) = Extend(Top.whole, P)
      /\ Tells(Watched, flow, Extend(Top.whole, paths))
      /\ FrameTells(Watched, frames, n)
  BY <1>1, TopTells
<1>3. Tells(Watched, Top.saved, Extend(Top.whole, Top.siblings))
  BY <1>1, <1>2 DEF FrameTells, SavedPart
<1>4. CallsTell(a, Extend(Top.whole, paths)) /\ CallsTell(b, Extend(Top.whole, Top.siblings))
  BY <1>2, <1>3 DEF Tells
<1>5. ~Dead(Extend(Top.whole, paths)) \/ ~Dead(Extend(Top.whole, Top.siblings))
  <2>1. ~Dead(paths) \/ ~Dead(Top.siblings)
    BY DEF Dead, Running
  <2>2. paths \subseteq Path /\ Top.siblings \subseteq Path
    BY <1>2 DEF Typed, Frame
  <2>3. QED
    BY <1>2, <2>1, <2>2, ExtendDead
<1> HIDE DEF a, b
<1>6. \A x \in {a, b} : /\ HasCalled(x) => "any_ctor" \in x
                        /\ "return_" \in x /\ "any_ctor" \in x => HasCalled(x) \/ "halt" \in x
  BY <1>4 DEF CallsTell
<1>7. \/ "halt" \notin a /\ ~("return_" \in a /\ "any_ctor" \in a)
      \/ "halt" \notin b /\ ~("return_" \in b /\ "any_ctor" \in b)
  BY <1>4, <1>5 DEF CallsTell
<1>8. LET ab == mergeCallSuper(a, b)
          ba == mergeCallSuper(b, a)
      IN  /\ ab.ok = ba.ok
          /\ ab.ok => /\ ab.csx \cap {"any_ctor", "halt", "label"}
                           = ba.csx \cap {"any_ctor", "halt", "label"}
                      /\ (ab.csx \cap Ctors = {}) = (ba.csx \cap Ctors = {})
  BY <1>6, <1>7, MergeCommutes
<1>9. QED
  BY <1>8 DEF a, b

-----------------------------------------------------------------------------
(* A complaint about calls has its reason in two executions, or in one that *)
(* calls twice.                                                             *)

Justified(W) ==
    LET P == {p \in W : p.ended = "halt" => p.ctors > 0}
    IN  \/ \E p \in P : p.ctors > 1
        \/ \E p, q \in P : p.ctors # q.ctors

LEMMA TwoDiffer ==
    ASSUME NEW W, NEW p \in W, NEW q \in W, p.ended # "halt", p.ctors = 0, q.ctors > 0
    PROVE  Justified(W)
<1>1. p.ctors # q.ctors
  OBVIOUS
<1>2. QED
  BY <1>1 DEF Justified

\* What was reported before is not there to explain.
LEMMA ComplaintsMade ==
    ASSUME NEW E, errors = {}, errors' = E,
           NEW W, W = Whole', E \cap CtorComplaints # {} => Justified(W)
    PROVE  ComplaintsJustified'
  BY DEF ComplaintsJustified, Justified

LEMMA PieceWhole ==
    ASSUME Typed, NEW q \in Path, Piece(q)
    PROVE  Whole' = Extend(Whole, {q})
<1>1. frames' = frames /\ paths' = Extend(paths, {q}) /\ paths \subseteq Path
  BY DEF Piece, Typed
<1>2. CASE frames = <<>>
  BY <1>1, <1>2 DEF Whole
<1>3. CASE frames # <<>>
  <2>1. Top.whole \subseteq Path
    BY <1>3, TopFrame DEF Frame
  <2>2. Extend(Top.whole, Extend(paths, {q})) = Extend(Extend(Top.whole, paths), {q})
    BY <1>1, <2>1, ExtendAssociative
  <2>3. Whole = Extend(Top.whole, paths) /\ Whole' = Extend(Top.whole, paths')
    BY <1>1, <1>3 DEF Whole, Top
  <2>4. QED
    BY <1>1, <2>2, <2>3
<1>4. QED
  BY <1>2, <1>3

LEMMA CtorCallComplains ==
    ASSUME Typed, TellInv, NEW isSuper \in BOOLEAN, CtorCall(isSuper)
    PROVE  ComplaintsJustified'
<1> DEFINE q == [Nothing EXCEPT !.ctors = 1, !.delegated = ~isSuper]
           c == flow.callSuper
           W == Extend(Whole, {q})
<1>1. Piece(q) /\ CanAdd /\ errors = {}
  BY DEF CtorCall, Piece, CanAdd
<1>2. q \in Path /\ q.ctors = 1 /\ q.ended = "no"
  BY Effects DEF Nothing
<1>3. Whole \subseteq Path /\ ~Dead(Whole) /\ Tells(Watched, flow, Whole) /\ "halt" \notin c
  BY <1>1, PieceBefore
<1>4. errors' = CtorCallErrors(c)
  BY <1>1, <1>3 DEF CtorCall, Report
<1>5. CallsTell(c, Whole)
  BY <1>3 DEF Tells
<1>6. W = Whole'
  BY <1>1, <1>2, PieceWhole
<1> HIDE DEF q, c
<1>7. PICK w \in Whole : w.ended = "no" /\ w.ctors = Called(c)
  BY <1>3, <1>5 DEF Dead, Running, CallsTell
<1>8. /\ Then(w, q) \in W /\ Then(w, q).ended = "no"
      /\ Then(w, q).ctors = AtMostTwice(w.ctors + 1)
  BY <1>2, <1>3, <1>7, ThenParts, ExtendMembers
<1>9. HasCalled(c) => Justified(W)
  <2> SUFFICES ASSUME HasCalled(c) PROVE Justified(W)
    OBVIOUS
  <2>1. Then(w, q).ctors > 1
    BY <1>7, <1>8 DEF Called, AtMostTwice
  <2>2. QED
    BY <1>8, <2>1 DEF Justified
<1>10. "return_" \in c /\ "any_ctor" \notin c => Justified(W)
  <2> SUFFICES ASSUME "return_" \in c, "any_ctor" \notin c PROVE Justified(W)
    OBVIOUS
  <2>1. PICK p \in Whole : p.ended = "return" /\ p.ctors = 0
    BY <1>3, <1>5 DEF CallsTell
  <2>2. p \in W
    BY <2>1, ExtendMembers
  <2>3. Then(w, q).ctors > 0
    BY <1>7, <1>8 DEF Called, AtMostTwice
  <2>4. p.ended # "halt"
    BY <2>1
  <2> HIDE DEF W
  <2>5. QED
    BY <1>8, <2>1, <2>2, <2>3, <2>4, TwoDiffer
<1>11. CtorCallErrors(c) \cap CtorComplaints # {} => Justified(W)
  BY <1>9, <1>10, CtorsCalled DEF CtorCallErrors, CtorComplaints
<1> HIDE DEF W
<1>12. QED
  BY <1>1, <1>4, <1>6, <1>11, ComplaintsMade

LEMMA ReturnComplains ==
    ASSUME Typed, TellInv, Return
    PROVE  ComplaintsJustified'
<1> DEFINE q == [Nothing EXCEPT !.ended = "return"]
           c == flow.callSuper
           W == Extend(Whole, {q})
<1>1. Piece(q) /\ CanAdd /\ errors = {}
  BY DEF Return, Piece, CanAdd
<1>2. q \in Path /\ q.ctors = 0 /\ q.ended = "return"
  BY Effects DEF Nothing
<1>3. Whole \subseteq Path /\ ~Dead(Whole) /\ Tells(Watched, flow, Whole)
  BY <1>1, PieceBefore
<1>4. errors' \cap CtorComplaints # {} => "any_ctor" \in c /\ ~HasCalled(c)
  BY <1>1, CtorsCalled DEF Return, Report, ReturnCtorErrors, CtorComplaints
<1>5. CallsTell(c, Whole)
  BY <1>3 DEF Tells
<1>6. W = Whole'
  BY <1>1, <1>2, PieceWhole
<1> HIDE DEF q, c
<1>7. "any_ctor" \in c /\ ~HasCalled(c) => Justified(W)
  <2> SUFFICES ASSUME "any_ctor" \in c, ~HasCalled(c) PROVE Justified(W)
    OBVIOUS
  <2>1. \A w \in Whole : w.ended = "no" => w.ctors = 0
    BY <1>5 DEF CallsTell, Called, Running
  <2>2. PICK w \in Whole : w.ended = "no" /\ w.ctors = 0
    BY <1>3, <2>1 DEF Dead, Running
  <2>3. PICK p \in Whole : p.ctors > 0
    BY <1>5 DEF CallsTell
  <2>4. p.ended # "no"
    BY <2>1, <2>3
  <2>5. p \in W
    BY <2>4, ExtendMembers
  <2>6. Then(w, q) \in W /\ Then(w, q).ended = "return" /\ Then(w, q).ctors = 0
    BY <1>2, <1>3, <2>2, ThenParts, ExtendMembers DEF AtMostTwice
  <2>7. Then(w, q).ended # "halt"
    BY <2>6
  <2> HIDE DEF W
  <2>8. QED
    BY <2>3, <2>5, <2>6, <2>7, TwoDiffer
<1> HIDE DEF W
<1>8. QED
  BY <1>1, <1>4, <1>6, <1>7, ComplaintsMade

\* Two flows that cannot be merged.
LEMMA SkippedDiffers ==
    ASSUME NEW a, NEW A, CallsTell(a, A), NEW b, NEW B, CallsTell(b, B),
           "halt" \notin a, "return_" \in a, "any_ctor" \notin a, "any_ctor" \in b
    PROVE  Justified(A \cup B)
<1>1. PICK p \in A : p.ended = "return" /\ p.ctors = 0
  BY DEF CallsTell
<1>2. PICK q \in B : q.ctors > 0
  BY DEF CallsTell
<1>3. p.ended # "halt" /\ p \in A \cup B /\ q \in A \cup B
  BY <1>1
<1>4. QED
  BY <1>1, <1>2, <1>3, TwoDiffer

LEMMA UncalledDiffers ==
    ASSUME NEW a, NEW A, CallsTell(a, A), NEW b, NEW B, CallsTell(b, B),
           "halt" \notin a, ~HasCalled(a), HasCalled(b)
    PROVE  Justified(A \cup B)
<1>1. CASE "return_" \in a
  <2>1. "any_ctor" \notin a /\ "any_ctor" \in b
    BY <1>1 DEF CallsTell
  <2>2. QED
    BY <1>1, <2>1, SkippedDiffers
<1>2. CASE "return_" \notin a
  <2>1. PICK p \in A : p.ended = "no" /\ p.ctors = 0
    BY <1>2 DEF CallsTell, Dead, Running, Called
  <2>2. PICK q \in B : q.ctors > 0
    BY DEF CallsTell
  <2>3. p.ended # "halt" /\ p \in A \cup B /\ q \in A \cup B
    BY <2>1
  <2>4. QED
    BY <2>1, <2>2, <2>3, TwoDiffer
<1>3. QED
  BY <1>1, <1>2

LEMMA MergeFails ==
    ASSUME NEW a, NEW A, CallsTell(a, A), NEW b, NEW B, CallsTell(b, B),
           ~mergeCallSuper(a, b).ok
    PROVE  Justified(A \cup B)
<1>1. \/ "halt" \notin a /\ "return_" \in a /\ "any_ctor" \notin a /\ "any_ctor" \in b
      \/ "halt" \notin b /\ "return_" \in b /\ "any_ctor" \notin b /\ "any_ctor" \in a
      \/ "halt" \notin a /\ "halt" \notin b /\ ~(HasCalled(a) <=> HasCalled(b))
  BY CtorsCalled DEF mergeCallSuper, Merged
<1>2. A \cup B = B \cup A
  OBVIOUS
<1>3. CASE "halt" \notin a /\ "return_" \in a /\ "any_ctor" \notin a /\ "any_ctor" \in b
  BY <1>3, SkippedDiffers
<1>4. CASE "halt" \notin b /\ "return_" \in b /\ "any_ctor" \notin b /\ "any_ctor" \in a
  <2>1. Justified(B \cup A)
    BY <1>4, SkippedDiffers
  <2>2. QED
    BY <1>2, <2>1
<1>5. CASE "halt" \notin a /\ ~HasCalled(a) /\ HasCalled(b)
  BY <1>5, UncalledDiffers
<1>6. CASE "halt" \notin b /\ ~HasCalled(b) /\ HasCalled(a)
  <2>1. Justified(B \cup A)
    BY <1>6, UncalledDiffers
  <2>2. QED
    BY <1>2, <2>1
<1>7. QED
  BY <1>1, <1>3, <1>4, <1>5, <1>6

\* When a frame ends, the executions from the start of the body are what they were.
LEMMA CloseWhole ==
    ASSUME Typed, TellInv, Analysing, frames # <<>>, Typed',
           NEW f, NEW P, P \subseteq Path, Close(f, P)
    PROVE  Whole' = From(frames, Len(frames), P)
<1> DEFINE n == Len(frames)
           gs == Front(frames)
<1>1. /\ gs \in Seq(Frame) /\ Len(gs) = n-1 /\ n > 0 /\ Top = frames[n]
      /\ \A i \in 1..n-1 : gs[i] = frames[i]
  BY TopFrame
<1>2. frames[n].whole = From(frames, n-1, frames[n].before)
  BY TopTells DEF FrameTells
<1>3. frames' = gs /\ paths' = Extend(frames[n].before, P) /\ paths' \subseteq Path
  BY <1>1 DEF Close, Typed
<1>4. Whole' = WholeOf(frames', paths')
  BY DEF Whole, WholeOf, Top
<1>5. frames \in Seq(Frame)
  BY DEF Typed
<1> HIDE DEF gs, n
<1>6. WholeOf(gs, Extend(frames[n].before, P)) = From(gs, n-1, Extend(frames[n].before, P))
  BY <1>1, <1>3, FromWholeOf
<1>7. From(gs, n-1, Extend(frames[n].before, P)) = From(frames, n, P)
  BY <1>1, <1>2, <1>5, CloseFrom DEF n
<1>8. QED
  BY <1>3, <1>4, <1>6, <1>7 DEF n

LEMMA MergeComplains ==
    ASSUME Typed, TellInv, Typed', EndIf \/ EndCond \/ EndAndAnd
    PROVE  ComplaintsJustified'
<1> DEFINE Q == SavedPart(Top)
           n == Len(frames)
           A == From(frames, n, paths)
           B == From(frames, n, Q)
<1>1. Analysing /\ frames # <<>>
  BY MergeParts
<1>2. PICK f : /\ f = flow \/ f = OR(Top.scope, flow)
               /\ CloseMerging(f, Top.saved, paths \cup Q)
  BY MergeParts
<1>3. /\ Tells(Watched, f, A) /\ Tells(Watched, Top.saved, B)
      /\ From(frames, n, paths \cup Q) = A \cup B
      /\ Q \subseteq Path /\ paths \subseteq Path
  BY <1>1, <1>2, MergedTell
<1> HIDE DEF Q, n
<1>4. /\ Close(MergeFlow(f, Top.saved), paths \cup Q)
      /\ errors' = MergeErrors(f, Top.saved) /\ errors = {}
  BY <1>1, <1>2 DEF CloseMerging, Report, Analysing
<1>5. Whole' = A \cup B
  <2>1. paths \cup Q \subseteq Path
    BY <1>3
  <2>2. Whole' = From(frames, n, paths \cup Q)
    BY <1>1, <1>4, <2>1, CloseWhole DEF n
  <2>3. QED
    BY <1>3, <2>2
<1>6. CallsTell(f.callSuper, A) /\ CallsTell(Top.saved.callSuper, B)
  BY <1>3 DEF Tells
<1> HIDE DEF A, B
<1>7. ~mergeCallSuper(f.callSuper, Top.saved.callSuper).ok => Justified(A \cup B)
  BY <1>6, MergeFails
<1>8. MergeErrors(f, Top.saved) \cap CtorComplaints # {} => Justified(A \cup B)
  BY <1>7 DEF MergeErrors, CtorComplaints
<1>9. QED
  BY <1>4, <1>5, <1>8, ComplaintsMade

LEMMA EndComplains ==
    ASSUME Typed, TellInv, EndBody
    PROVE  ComplaintsJustified'
<1> DEFINE c == flow.callSuper
<1>1. /\ Analysing /\ errors = {} /\ Whole = paths /\ CallsTell(c, paths)
  BY EndWhole DEF Analysing
<1>2. Whole' = paths
  BY DEF EndBody, Whole
<1>3. errors' \cap CtorComplaints # {} => /\ Reachable /\ "any_ctor" \in c /\ ~HasCalled(c)
  <2>1. {"any_ctor", "super_ctor"} \cap Ctors # {}
    BY DEF Ctors
  <2>2. FieldsLeftOut \cap CtorComplaints = {}
    BY DEF FieldsLeftOut, CtorComplaints
  <2>3. InsertSuper => ReturnCtorErrors({"any_ctor", "super_ctor"}) = {}
    BY <2>1 DEF ReturnCtorErrors
  <2>4. ReturnCtorErrors(c) # {} => "any_ctor" \in c /\ ~HasCalled(c)
    BY CtorsCalled DEF ReturnCtorErrors
  <2>5. errors' = FieldsLeftOut \cup
                  (IF FallsThrough
                   THEN ReturnCtorErrors(IF InsertSuper THEN {"any_ctor", "super_ctor"} ELSE c)
                   ELSE {})
    BY DEF EndBody
  <2>6. QED
    BY <2>2, <2>3, <2>4, <2>5 DEF FallsThrough
<1>4. Reachable /\ "any_ctor" \in c /\ ~HasCalled(c) => Justified(paths)
  <2> SUFFICES ASSUME Reachable, "any_ctor" \in c, ~HasCalled(c) PROVE Justified(paths)
    OBVIOUS
  <2>1. PICK p \in paths : p.ended = "no" /\ p.ctors = 0
    BY <1>1 DEF CallsTell, Reachable, Running, Called
  <2>2. PICK q \in paths : q.ctors > 0
    BY <1>1 DEF CallsTell
  <2>3. p.ended # "halt"
    BY <2>1
  <2>4. QED
    BY <2>1, <2>2, <2>3, TwoDiffer
<1>5. errors' \cap CtorComplaints # {} => Justified(paths)
  BY <1>3, <1>4
<1>6. QED
  BY <1>1, <1>2, <1>5, ComplaintsMade

LEMMA ComplaintStep ==
    ASSUME Typed, TellInv, ComplaintsJustified, [Next]_vars, Typed'
    PROVE  ComplaintsJustified'
<1>1. CASE UNCHANGED vars
  BY <1>1 DEF ComplaintsJustified, Whole, Top, vars
<1>2. CASE EndBody
  BY <1>2, EndComplains
<1>3. CASE Next /\ ~EndBody
  <2>1. CASE \E isSuper \in BOOLEAN : CtorCall(isSuper)
    BY <2>1, CtorCallComplains
  <2>2. CASE Return
    BY <2>2, ReturnComplains
  <2>3. CASE EndIf \/ EndCond \/ EndAndAnd
    BY <2>3, MergeComplains
  <2>4. CASE \E v \in Fields : Assign(v) \/ TakeAddress(v)
    <3>1. PICK v \in Fields : modifyFieldVar(v)
      BY <2>4 DEF Assign, TakeAddress
    <3>2. errors = {} /\ errors' = FieldErrors(v)
      BY <3>1 DEF modifyFieldVar, Report, Piece, CanAdd
    <3>3. FieldErrors(v) \cap CtorComplaints = {}
      BY DEF FieldErrors, CtorComplaints
    <3>4. QED
      BY <3>2, <3>3 DEF ComplaintsJustified
  <2>5. CASE ~(\/ \E isSuper \in BOOLEAN : CtorCall(isSuper)
               \/ Return \/ EndIf \/ EndCond \/ EndAndAnd
               \/ \E v \in Fields : Assign(v) \/ TakeAddress(v))
    <3>1. errors = {}
      BY <1>3, OtherSteps
    <3>2. errors' = errors
      BY <1>3, <2>5 DEF Next, Halt,
         If, Question, AndAnd, For, Do, SwitchCase, Label, Open,
         Else, Colon, NextBranch, NextCase, EndFor, EndDo, EndSwitch, EndLabel, Pop
    <3>3. QED
      BY <3>1, <3>2 DEF ComplaintsJustified
  <2>6. QED
    BY <2>1, <2>2, <2>3, <2>4, <2>5
<1>4. QED
  BY <1>1, <1>2, <1>3

TellAll == Typed /\ TellInv

LEMMA TellsInductive ==
    ASSUME ~ExitsInLoops
    PROVE  /\ Init => TellAll
           /\ TellAll /\ [Next]_vars => TellAll'
<1>1. Init => TellAll
  BY TypeInit, TellInit DEF TellAll
<1>2. ASSUME TellAll, [Next]_vars PROVE TellAll'
  <2>1. Typed'
    BY <1>2, TypeStep DEF TellAll
  <2>2. CASE Next
    BY <1>2, <2>1, <2>2, TellStep DEF TellAll
  <2>3. CASE UNCHANGED vars
    BY <1>2, <2>1, <2>3 DEF TellAll, TellInv, Analysing, Watched, vars
  <2>4. QED
    BY <1>2, <2>2, <2>3
<1>3. QED
  BY <1>1, <1>2

\* The flags of the calls err on one side only, whatever the body: that of a call
\* says that all executions that go on have called, and the absence of any_ctor
\* that none has that did not halt (ctorflow.d:22), provided that no loop or
\* switch contains a return or an assert(0).
THEOREM FlagsRight ==
    ASSUME ~ExitsInLoops
    PROVE  Spec => []FlagsTellPaths
<1>1. TellAll => FlagsTellPaths
  BY TellsFlags DEF TellAll
<1>2. QED
  BY <1>1, TellsInductive, PTL DEF Spec

\* An accepted constructor without both return and assert(0) constructs once on
\* every path that ends normally, counting an inserted super(); that of a struct at
\* most once (expressionsem.d:4458, ctorflow.d:111, semantic3.d:676).
THEOREM OneCall ==
    ASSUME ~ExitsInLoops
    PROVE  Spec => []OneConstructorCall
<1> DEFINE Inv == TellAll /\ OneConstructorCall
<1>1. Init => Inv
  BY TellsInductive DEF Init, OneConstructorCall, Accepted
<1>2. Inv /\ [Next]_vars => Inv'
  BY TellsInductive, CallStep DEF TellAll
<1>3. QED
  BY <1>1, <1>2, PTL DEF Spec

\* No execution initialises an immutable field twice without an error or the
\* deprecation that stands for it (declaration.d:119).
THEOREM DoubleInitSeen ==
    ASSUME ~ExitsInLoops
    PROVE  Spec => []DoubleInitReported
<1> DEFINE Inv == TellAll /\ EndedOnce
<1>1. Init => Inv
  BY TellsInductive DEF Init, EndedOnce
<1>2. Inv /\ [Next]_vars => Inv'
  BY TellsInductive, EndedStep DEF TellAll
<1>3. Inv => DoubleInitReported
  BY TwiceReported DEF TellAll
<1>4. QED
  BY <1>1, <1>2, <1>3, PTL DEF Spec

\* A complaint about constructor calls is never a false alarm: there are two
\* executions that disagree, or one that calls twice (ctorflow.d:111).
THEOREM NoFalseComplaint ==
    ASSUME ~ExitsInLoops
    PROVE  Spec => []ComplaintsJustified
<1> DEFINE Inv == TellAll /\ ComplaintsJustified
<1>1. Init => Inv
  BY TellsInductive DEF Init, ComplaintsJustified
<1>2. Inv /\ [Next]_vars => Inv'
  BY TellsInductive, ComplaintStep DEF TellAll
<1>3. QED
  BY <1>1, <1>2, PTL DEF Spec

\* The verdict on two branches, and what is read of their merged flags later, does
\* not depend on which comes first in the source (ctorflow.d:111).
THEOREM OrderIrrelevant ==
    ASSUME ~ExitsInLoops
    PROVE  Spec => []BranchesCommute
<1>1. TellAll => BranchesCommute
  BY TellsOrder DEF TellAll
<1>2. QED
  BY <1>1, TellsInductive, PTL DEF Spec
=============================================================================
