----------------------- MODULE DeferredSemanticProofs -----------------------
(***************************************************************************)
(* Proofs about DeferredSemantic, for all aggregates and programs: pass 1  *)
(* loses no symbol, however the analyses of aggregates cut each other off, *)
(* no assertion about sizes fails, no cycle goes unreported, and the list  *)
(* of fields of a struct is complete.                                      *)
(***************************************************************************)
EXTENDS DeferredSemanticSteps

-----------------------------------------------------------------------------
(***************************************************************************)
(* What becomes of an aggregate between the calls about it.                *)
(***************************************************************************)
Active(f, a) == f.proc = "semantic" /\ f.of = a /\ f.pc # "enter"

InBody(f, a) == f.proc = "semantic" /\ f.of = a /\ f.pc \in {"members", "fields"}

AtMembers(f, a) == f.proc = "semantic" /\ f.of = a /\ f.pc = "members"

\* The levels below the top stay.
LEMMA LevelsStay ==
    ASSUME StackInv, StepEffect, stack # <<>>
    PROVE  /\ Depth \in Nat \ {0} /\ Top = levels[Depth]
           /\ \A k \in 1..Depth : k \in 1..Depth - 1 \/ k = Depth
           /\ \A k \in 1..Depth - 1 : k \in 1..Depth' /\ levels'[k] = levels[k]
<1>1. Depth \in Nat \ {0} /\ Top = levels[Depth]
  BY TopFacts
<1>2. Popped \/ (\E f : WentOn(f)) \/ (\E f, g : Called(f, g))
  BY StepShape DEF Shape
<1>3. \A k \in 1..Depth - 1 : k \in 1..Depth' /\ levels'[k] = levels[k]
  <2>1. CASE Popped
    BY <1>1, <2>1 DEF Popped
  <2>2. CASE \E f : WentOn(f)
    BY <1>1, <2>2 DEF WentOn
  <2>3. CASE \E f, g : Called(f, g)
    BY <1>1, <2>3 DEF Called
  <2> QED BY <1>2, <2>1, <2>2, <2>3
<1> QED BY <1>1, <1>3

\* The level at the top, when a visitor goes on.
LEMMA TopGoesOn ==
    ASSUME StackInv, stack # <<>>, NEW f, WentOn(f) \/ \E g : Called(f, g)
    PROVE  Depth \in 1..Depth' /\ levels'[Depth] = f
<1>1. Depth \in Nat \ {0}
  BY TopFacts
<1> QED BY <1>1 DEF WentOn, Called

LEMMA SemanticTouches ==
    ASSUME StackInv, SemanticEffect
    PROVE  /\ stack # <<>> /\ Top.proc = "semantic" /\ Top.of \in Agg
           /\ \A b \in Agg : b # Top.of => /\ runOf'[b] = runOf[b] /\ scopeOf'[b] = scopeOf[b]
                                           /\ symtabOf'[b] = symtabOf[b]
           /\ \A b \in Agg : symtabOf[b] => symtabOf'[b]
           /\ waiting \subseteq waiting'
<1>1. /\ runOf = [b \in Agg |-> runOf[b]] /\ scopeOf = [b \in Agg |-> scopeOf[b]]
      /\ symtabOf = [b \in Agg |-> symtabOf[b]]
  BY DEF runOf, scopeOf, symtabOf
<1>2. deferred' = deferred => waiting' = waiting
  BY DEF waiting
<1>3. ASSUME NEW pc, At("semantic", pc) PROVE stack # <<>> /\ Top.proc = "semantic" /\ Top.of \in Agg
  BY <1>3, SemanticTop
<1> DEFINE Goal == /\ stack # <<>> /\ Top.proc = "semantic" /\ Top.of \in Agg
                   /\ \A b \in Agg : b # Top.of => /\ runOf'[b] = runOf[b] /\ scopeOf'[b] = scopeOf[b]
                                                   /\ symtabOf'[b] = symtabOf[b]
                   /\ \A b \in Agg : symtabOf[b] => symtabOf'[b]
                   /\ waiting \subseteq waiting'
<1>4. CASE SemanticAtOnceEffect
  <2>1. runOf' = runOf \/ \E r : runOf' = [runOf EXCEPT ![Top.of] = r]
    BY <1>4 DEF SemanticAtOnceEffect
  <2>2. UNCHANGED <<scopeOf, symtabOf, deferred>> /\ At("semantic", "enter")
    BY <1>4 DEF SemanticAtOnceEffect
  <2> QED BY <1>1, <1>2, <1>3, <2>1, <2>2
<1>5. CASE SemanticEnterEffect
  BY <1>1, <1>2, <1>3, <1>5 DEF SemanticEnterEffect
<1>6. CASE ClassBaseEffect
  <2>1. At("semantic", "base") /\ UNCHANGED <<runOf, symtabOf, deferred>>
    BY <1>6 DEF ClassBaseEffect
  <2>2. scopeOf' = scopeOf \/ scopeOf' = [scopeOf EXCEPT ![Top.of] = TRUE]
    BY <1>6 DEF ClassBaseEffect
  <2> QED BY <1>1, <1>2, <1>3, <2>1, <2>2
<1>7. CASE ClassBasedEffect
  <2>1. At("semantic", "based") /\ UNCHANGED <<runOf, symtabOf>> /\ waiting \subseteq waiting'
    BY <1>7 DEF ClassBasedEffect
  <2>2. scopeOf' = [scopeOf EXCEPT ![Top.of] = FALSE] \/ scopeOf' = [scopeOf EXCEPT ![Top.of] = TRUE]
    BY <1>7 DEF ClassBasedEffect
  <2> QED BY <1>1, <1>3, <2>1, <2>2
<1>8. CASE ClassAncestorsEffect
  <2>1. /\ At("semantic", "ancestors") /\ UNCHANGED <<runOf>> /\ waiting \subseteq waiting'
        /\ symtabOf' = [symtabOf EXCEPT ![Top.of] = TRUE]
    BY <1>8 DEF ClassAncestorsEffect
  <2>2. scopeOf' = scopeOf \/ scopeOf' = [scopeOf EXCEPT ![Top.of] = TRUE]
    BY <1>8 DEF ClassAncestorsEffect
  <2> QED BY <1>1, <1>3, <2>1, <2>2
<1>9. CASE SemanticMemberEffect
  BY <1>2, <1>3, <1>9 DEF SemanticMemberEffect, Kept, AggSame
<1>10. CASE SemanticMembersDoneEffect
  BY <1>2, <1>3, <1>10 DEF SemanticMembersDoneEffect, RunSame
<1>11. CASE SemanticNoFieldsEffect
  BY <1>1, <1>2, <1>3, <1>11 DEF SemanticNoFieldsEffect
<1>12. CASE SemanticDeferEffect
  BY <1>1, <1>3, <1>12 DEF SemanticDeferEffect
<1>13. CASE SemanticDoneEffect
  BY <1>1, <1>2, <1>3, <1>13 DEF SemanticDoneEffect
<1> QED BY <1>4, <1>5, <1>6, <1>7, <1>8, <1>9, <1>10, <1>11, <1>12, <1>13 DEF SemanticEffect

\* An analysis that is under way stays so until it returns.
LEMMA ActiveStays ==
    ASSUME StackInv, StepEffect, NEW a, NEW k \in 1..Depth, Active(levels[k], a)
    PROVE  \/ \E l \in 1..Depth' : Active(levels'[l], a)
           \/ Top.of = a /\ Popped /\ \/ ClassBasedEffect \/ ClassAncestorsEffect \/ SemanticNoFieldsEffect
                                      \/ SemanticDeferEffect \/ SemanticDoneEffect
<1>1. stack # <<>> /\ Depth \in Nat \ {0} /\ Top = levels[Depth]
  BY EmptyStack, TopFacts DEF StackInv
<1>2. CASE k \in 1..Depth - 1
  BY <1>1, <1>2, LevelsStay
<1>3. CASE k = Depth
  <2>1. Top.proc = "semantic" /\ Top.of = a /\ Top.pc # "enter"
    BY <1>1, <1>3 DEF Active
  <2>2. SemanticEffect
    BY <1>1, <2>1, StepKinds DEF Aside
  <2>3. ASSUME NEW f, NEW c, Now(f, c), c # "enter", WentOn(f) \/ \E g : Called(f, g)
        PROVE  \E l \in 1..Depth' : Active(levels'[l], a)
    BY <1>1, <2>1, <2>3, TopGoesOn DEF Now, Active
  <2>4. CASE SemanticAtOnceEffect \/ SemanticEnterEffect
    BY <2>1, <2>4 DEF SemanticAtOnceEffect, SemanticEnterEffect, At
  <2>5. CASE ClassBaseEffect
    BY <2>3, <2>5 DEF ClassBaseEffect
  <2>6. CASE ClassBasedEffect
    BY <2>1, <2>3, <2>6 DEF ClassBasedEffect
  <2>7. CASE ClassAncestorsEffect
    BY <2>1, <2>3, <2>7 DEF ClassAncestorsEffect
  <2>8. CASE SemanticMemberEffect
    BY <2>3, <2>8 DEF SemanticMemberEffect
  <2>9. CASE SemanticMembersDoneEffect
    BY <2>3, <2>9 DEF SemanticMembersDoneEffect
  <2>10. CASE SemanticNoFieldsEffect \/ SemanticDeferEffect \/ SemanticDoneEffect
    BY <2>1, <2>10 DEF SemanticNoFieldsEffect, SemanticDeferEffect, SemanticDoneEffect
  <2> QED BY <2>2, <2>4, <2>5, <2>6, <2>7, <2>8, <2>9, <2>10 DEF SemanticEffect
<1> QED BY <1>1, <1>2, <1>3

LEMMA MembersStay ==
    ASSUME StackInv, StepEffect, NEW a, NEW k \in 1..Depth, AtMembers(levels[k], a)
    PROVE  \/ \E l \in 1..Depth' : AtMembers(levels'[l], a)
           \/ Top.of = a /\ SemanticMembersDoneEffect
<1>1. stack # <<>> /\ Depth \in Nat \ {0} /\ Top = levels[Depth]
  BY EmptyStack, TopFacts DEF StackInv
<1>2. CASE k \in 1..Depth - 1
  BY <1>1, <1>2, LevelsStay
<1>3. CASE k = Depth
  <2>1. Top.proc = "semantic" /\ Top.of = a /\ Top.pc = "members"
    BY <1>1, <1>3 DEF AtMembers
  <2>2. SemanticMemberEffect \/ SemanticMembersDoneEffect
    BY <1>1, <2>1, StepKinds DEF Aside, SemanticEffect, SemanticAtOnceEffect, SemanticEnterEffect,
       ClassBaseEffect, ClassBasedEffect, ClassAncestorsEffect,
       SemanticNoFieldsEffect, SemanticDeferEffect, SemanticDoneEffect, At
  <2>3. CASE SemanticMemberEffect
    <3>1. \E f : Now(f, "members") /\ (WentOn(f) \/ \E g : Called(f, g))
      BY <2>3 DEF SemanticMemberEffect
    <3> QED BY <1>1, <2>1, <3>1, TopGoesOn DEF Now, AtMembers
  <2> QED BY <2>1, <2>2, <2>3
<1> QED BY <1>1, <1>2, <1>3

-----------------------------------------------------------------------------
(***************************************************************************)
(* Whoever may go on with an aggregate finds a scope: only an analysis     *)
(* that is choosing the base class, or that is in the members, has it.     *)
(***************************************************************************)
Basing(a) ==
    /\ Depth > 0 /\ levels[Depth].proc = "semantic" /\ levels[Depth].of = a
    /\ levels[Depth].pc \in {"base", "ancestors"}

ScopeKnown(a) ==
    /\ runOf[a] = "init" => scopeOf[a]
    /\ runOf[a] = "semantic" /\ ~scopeOf[a] =>
          Basing(a) \/ (symtabOf[a] /\ \E k \in 1..Depth : InBody(levels[k], a))

ScopeInv == \A a \in Agg : ScopeKnown(a)

\* Steps about others keep what is known.
LEMMA ScopeKept ==
    ASSUME StackInv, StepEffect, NEW a \in Agg, ScopeKnown(a), ~Basing(a),
           runOf'[a] = runOf[a], scopeOf'[a] = scopeOf[a], symtabOf[a] => symtabOf'[a],
           (\E k \in 1..Depth : InBody(levels[k], a)) => \E k \in 1..Depth' : InBody(levels'[k], a)
    PROVE  ScopeKnown(a)'
  BY DEF ScopeKnown

LEMMA StepScope ==
    ASSUME DataInv, DataInv', StackInv, RetInv, ActiveInv, ScopeInv, StepEffect, Grows, NEW a \in Agg
    PROVE  ScopeKnown(a)'
<1>1. ScopeKnown(a)
  BY DEF ScopeInv
<1>2. stack # <<>> => Depth \in Nat \ {0} /\ Depth \in 1..Depth /\ Top = levels[Depth]
  BY TopFacts
<1>3. Depth > 0 => stack # <<>>
  BY EmptyStack DEF StackInv
<1>4. CASE stack = <<>> \/ Top.proc # "semantic" \/ Top.of # a
  <2>1. ~Basing(a)
    BY <1>2, <1>3, <1>4, EmptyStack DEF Basing, StackInv
  <2>2. runOf'[a] = runOf[a] /\ scopeOf'[a] = scopeOf[a] /\ (symtabOf[a] => symtabOf'[a])
    BY <1>4, StepKinds, SemanticTouches DEF Aside, RunSame
  <2>3. ASSUME NEW k \in 1..Depth, InBody(levels[k], a)
        PROVE  \E l \in 1..Depth' : InBody(levels'[l], a)
    <3>1. stack # <<>>
      BY EmptyStack DEF StackInv
    <3>2. k # Depth
      BY <1>2, <1>4, <2>3, <3>1 DEF InBody
    <3> QED BY <2>3, <3>1, <3>2, LevelsStay
  <2> QED BY <1>1, <2>1, <2>2, <2>3, ScopeKept
<1>5. CASE stack # <<>> /\ Top.proc = "semantic" /\ Top.of = a
  <2>1. SemanticEffect
    BY <1>5, StepKinds DEF Aside
  <2>2. Top.pc # "enter" => runOf'[a] # "init"
    BY <1>2, <1>5 DEF ActiveInv, Grows
  <2>3. ASSUME NEW f, f.proc = "semantic", f.of = a, f.pc \in {"base", "ancestors"},
               WentOn(f), runOf'[a] # "init"
        PROVE  ScopeKnown(a)'
    <3>1. Depth' = Depth /\ levels'[Depth] = f
      BY <2>3 DEF WentOn
    <3>2. Basing(a)'
      BY <1>2, <1>5, <2>3, <3>1 DEF Basing
    <3> QED BY <2>3, <3>2 DEF ScopeKnown
  <2>4. ASSUME NEW f, f.proc = "semantic", f.of = a, f.pc \in {"members", "fields"},
               WentOn(f) \/ (\E g : Called(f, g)), runOf'[a] # "init",
               runOf'[a] = "semantic" /\ ~scopeOf'[a] => symtabOf'[a]
        PROVE  ScopeKnown(a)'
    <3>1. Depth \in 1..Depth' /\ InBody(levels'[Depth], a)
      BY <1>5, <2>4, TopGoesOn DEF InBody
    <3> QED BY <2>4, <3>1 DEF ScopeKnown
  <2>5. /\ runOf = [b \in Agg |-> runOf[b]] /\ scopeOf = [b \in Agg |-> scopeOf[b]]
        /\ symtabOf = [b \in Agg |-> symtabOf[b]]
    BY DEF runOf, scopeOf, symtabOf
  <2>6. CASE SemanticAtOnceEffect
    <3>1. Top.pc = "enter" /\ scopeOf'[a] = scopeOf[a] /\ symtabOf'[a] = symtabOf[a]
      BY <2>6 DEF SemanticAtOnceEffect, At
    <3>2. runOf'[a] \in {"done", runOf[a]} /\ runOf'[a] # "init"
      BY <1>5, <2>5, <2>6 DEF SemanticAtOnceEffect
    <3>3. ~Basing(a)
      BY <1>2, <1>5, <3>1 DEF Basing
    <3>4. ASSUME NEW k \in 1..Depth, InBody(levels[k], a)
          PROVE  \E l \in 1..Depth' : InBody(levels'[l], a)
      <4>1. k # Depth
        BY <1>2, <1>5, <3>1, <3>4 DEF InBody
      <4> QED BY <1>5, <3>4, <4>1, LevelsStay
    <3> QED BY <1>1, <3>1, <3>2, <3>3, <3>4 DEF ScopeKnown
  <2>7. CASE SemanticEnterEffect
    <3>1. PICK f : f = levels'[Depth]
      OBVIOUS
    <3>2. /\ WentOn(f) /\ f.proc = "semantic" /\ f.of = a
          /\ f.pc = "members" => a \in Struct
          /\ f.pc \in {"members", "base", "ancestors"}
      BY <1>5, <2>7, <3>1 DEF SemanticEnterEffect
    <3>3. runOf'[a] = "semantic" /\ symtabOf'[a] = (symtabOf[a] \/ a \in Struct)
      BY <1>5, <2>5, <2>7 DEF SemanticEnterEffect
    <3> QED BY <2>3, <2>4, <3>2, <3>3
  <2>8. CASE ClassBaseEffect
    <3>1. runOf'[a] # "init"
      BY <2>2, <2>8 DEF ClassBaseEffect, At
    <3>2. CASE \E f : WentOn(f) /\ Now(f, "ancestors")
      BY <1>5, <2>3, <3>1, <3>2 DEF Now
    <3>3. CASE scopeOf' = [scopeOf EXCEPT ![a] = TRUE]
      BY <2>5, <3>1, <3>3 DEF ScopeKnown
    <3> QED BY <1>5, <2>8, <3>2, <3>3 DEF ClassBaseEffect
  <2>9. CASE ClassBasedEffect
    <3>1. runOf'[a] # "init"
      BY <2>2, <2>9 DEF ClassBasedEffect, At
    <3>2. CASE \E f : WentOn(f) /\ Now(f, "ancestors")
      BY <1>5, <2>3, <3>1, <3>2 DEF Now
    <3>3. CASE scopeOf' = [scopeOf EXCEPT ![a] = TRUE]
      BY <2>5, <3>1, <3>3 DEF ScopeKnown
    <3> QED BY <1>5, <2>9, <3>2, <3>3 DEF ClassBasedEffect
  <2>10. CASE ClassAncestorsEffect
    <3>1. runOf'[a] # "init" /\ symtabOf' = [symtabOf EXCEPT ![a] = TRUE]
      BY <1>5, <2>2, <2>10 DEF ClassAncestorsEffect, At
    <3>2. CASE \E f : WentOn(f) /\ Now(f, "members")
      BY <1>5, <2>4, <2>5, <3>1, <3>2 DEF Now
    <3>3. CASE scopeOf' = [scopeOf EXCEPT ![a] = TRUE]
      BY <2>5, <3>1, <3>3 DEF ScopeKnown
    <3> QED BY <1>5, <2>10, <3>2, <3>3 DEF ClassAncestorsEffect
  <2>11. CASE SemanticMemberEffect \/ SemanticMembersDoneEffect
    <3>1. Top.pc = "members" /\ UNCHANGED <<runOf, scopeOf, symtabOf>>
      BY <2>11 DEF SemanticMemberEffect, SemanticMembersDoneEffect, Kept, AggSame, RunSame, At
    <3>2. ~Basing(a)
      BY <1>2, <1>5, <3>1 DEF Basing
    <3>3. \E f, pc : Now(f, pc) /\ pc \in {"members", "fields"} /\ (WentOn(f) \/ \E g : Called(f, g))
      BY <2>11 DEF SemanticMemberEffect, SemanticMembersDoneEffect
    <3> QED BY <1>1, <1>5, <2>2, <2>4, <3>1, <3>2, <3>3 DEF Now, ScopeKnown
  <2>12. CASE SemanticNoFieldsEffect
    <3>1. a \in Struct
      BY <1>2, <1>5, <2>12 DEF SemanticNoFieldsEffect, At, RetInv
    <3>2. runOf'[a] = "done"
      BY <1>5, <2>5, <2>12, <3>1 DEF SemanticNoFieldsEffect
    <3> QED BY <3>2 DEF ScopeKnown
  <2>13. CASE SemanticDeferEffect
    BY <1>5, <2>5, <2>13 DEF SemanticDeferEffect, ScopeKnown
  <2>14. CASE SemanticDoneEffect
    <3>1. runOf'[a] = "done"
      BY <1>5, <2>5, <2>14 DEF SemanticDoneEffect
    <3> QED BY <3>1 DEF ScopeKnown
  <2> QED BY <2>1, <2>6, <2>7, <2>8, <2>9, <2>10, <2>11, <2>12, <2>13, <2>14 DEF SemanticEffect
<1> QED BY <1>4, <1>5

\* The steps that move the state of an aggregate.
LEMMA RunMoves ==
    ASSUME StackInv, StepEffect, NEW a \in Agg, runOf'[a] # runOf[a]
    PROVE  /\ stack # <<>> /\ Top.of = a /\ Top.proc = "semantic"
           /\ \/ SemanticEnterEffect /\ runOf'[a] = "semantic"
              \/ runOf'[a] = "done" /\ (SemanticAtOnceEffect \/ SemanticNoFieldsEffect \/ SemanticDoneEffect)
<1>1. SemanticEffect
  BY StepKinds DEF Aside, RunSame
<1>2. stack # <<>> /\ Top.of = a /\ Top.proc = "semantic"
  BY <1>1, SemanticTouches
<1>3. runOf = [b \in Agg |-> runOf[b]]
  BY DEF runOf
<1>4. CASE SemanticAtOnceEffect
  BY <1>2, <1>3, <1>4 DEF SemanticAtOnceEffect
<1>5. CASE SemanticEnterEffect
  BY <1>2, <1>3, <1>5 DEF SemanticEnterEffect
<1>6. CASE SemanticNoFieldsEffect
  BY <1>2, <1>3, <1>6 DEF SemanticNoFieldsEffect
<1>7. CASE SemanticDoneEffect
  BY <1>2, <1>3, <1>7 DEF SemanticDoneEffect
<1>8. CASE \/ ClassBaseEffect \/ ClassBasedEffect \/ ClassAncestorsEffect \/ SemanticMemberEffect
           \/ SemanticMembersDoneEffect \/ SemanticDeferEffect
  BY <1>8 DEF ClassBaseEffect, ClassBasedEffect, ClassAncestorsEffect, SemanticMemberEffect,
     SemanticMembersDoneEffect, SemanticDeferEffect, Kept, AggSame, RunSame
<1> QED BY <1>1, <1>2, <1>4, <1>5, <1>6, <1>7, <1>8 DEF SemanticEffect

\* A scope that is taken when an analysis finds the aggregate under way is
\* that of a call further out, which is in the members.
LEMMA FoundUnderWay ==
    ASSUME StackInv, StepEffect, ScopeInv, stack # <<>>, Top.proc = "semantic", Top.pc = "enter", Top.of \in Agg,
           runOf[Top.of] = "semantic", ~scopeOf[Top.of]
    PROVE  \E k \in 1..Depth : InBody(levels[k], Top.of) /\ k \in 1..Depth' /\ levels'[k] = levels[k]
<1>1. Depth \in Nat \ {0} /\ Top = levels[Depth]
  BY TopFacts
<1>2. ~Basing(Top.of)
  BY <1>1 DEF Basing
<1>3. \E k \in 1..Depth : InBody(levels[k], Top.of)
  BY <1>2 DEF ScopeInv, ScopeKnown
<1>4. PICK k \in 1..Depth : InBody(levels[k], Top.of)
  BY <1>3
<1>5. k # Depth
  BY <1>1, <1>4 DEF InBody
<1> QED BY <1>4, <1>5, LevelsStay

-----------------------------------------------------------------------------
(***************************************************************************)
(* The members of an aggregate that is done are done, or their turn comes  *)
(* in a call that is under way.                                            *)
(***************************************************************************)
MembersKnown(a) ==
    runOf[a] = "done" => AllDone(a) \/ \E k \in 1..Depth : AtMembers(levels[k], a)

DoneInv == \A a \in Agg : MembersKnown(a)

LEMMA AllDoneGrows ==
    ASSUME Grows, NEW a \in Agg, AllDone(a)
    PROVE  AllDone(a)'
<1>1. program' = program /\ doneOf[a] \subseteq doneOf'[a]
  BY DEF Grows
<1> QED BY <1>1 DEF AllDone, Members

\* A call that has gone through the members has done them.
LEMMA MembersAreDone ==
    ASSUME DataInv, StackInv, MembersInv, NEW a \in Agg, NEW k \in 1..Depth,
           levels[k].proc = "semantic", levels[k].of = a,
           \/ levels[k].pc = "fields"
           \/ levels[k].pc = "members" /\ levels[k].i > Len(Members(a)) /\ k = Depth
    PROVE  AllDone(a)
<1>1. Passed(levels[k], k < Depth /\ levels[k + 1].proc = "variable", program, doneOf)
  BY DEF MembersInv
<1>2. Members(a) = program.members[a] /\ DOMAIN Members(a) = 1..Len(Members(a)) /\ Len(Members(a)) \in Nat
  <2>1. DOMAIN Members(a) = 1..Len(Members(a)) /\ Members(a) \in Seq(Member)
    BY ProgramFacts DEF DataInv
  <2> QED BY <2>1 DEF Members
<1>3. CASE levels[k].pc = "fields"
  BY <1>1, <1>2, <1>3 DEF Passed, AllDone
<1>4. CASE levels[k].pc = "members" /\ levels[k].i > Len(Members(a)) /\ k = Depth
  <2>1. levels[k].i \in Nat /\ ~(k < Depth)
    <3>1. Depth \in Nat
      BY EmptyStack DEF StackInv
    <3>2. FrameOK(levels[k], program)
      BY DEF StackInv
    <3> QED BY <1>4, <3>1, <3>2 DEF FrameOK
  <2>2. \A j \in DOMAIN Members(a) : j < levels[k].i
    BY <1>2, <1>4, <2>1
  <2> QED BY <1>1, <1>2, <1>4, <2>1, <2>2 DEF Passed, AllDone
<1> QED BY <1>3, <1>4

LEMMA StepDone ==
    ASSUME DataInv, StackInv, MembersInv, ScopeInv, DoneInv, StepEffect, Grows, NEW a \in Agg
    PROVE  MembersKnown(a)'
<1> SUFFICES ASSUME runOf'[a] = "done"
             PROVE  AllDone(a)' \/ \E k \in 1..Depth' : AtMembers(levels'[k], a)
  BY DEF MembersKnown
<1>1. stack # <<>> => Depth \in Nat \ {0} /\ Depth \in 1..Depth /\ Top = levels[Depth]
  BY TopFacts
<1>2. CASE AllDone(a)
  BY <1>2, AllDoneGrows
<1>3. CASE \E k \in 1..Depth : AtMembers(levels[k], a)
  <2>1. CASE \E l \in 1..Depth' : AtMembers(levels'[l], a)
    BY <2>1
  <2>2. CASE Top.of = a /\ SemanticMembersDoneEffect
    <3>1. stack # <<>> /\ Top.proc = "semantic" /\ Top.pc = "members" /\ Top.i > Len(Members(a))
      BY <2>2 DEF SemanticMembersDoneEffect, At
    <3>2. AllDone(a)
      BY <1>1, <2>2, <3>1, MembersAreDone
    <3> QED BY <3>2, AllDoneGrows
  <2> QED BY <1>3, <2>1, <2>2, MembersStay
<1>4. CASE runOf[a] # "done"
  <2>1. /\ stack # <<>> /\ Top.of = a /\ Top.proc = "semantic"
        /\ SemanticAtOnceEffect \/ SemanticNoFieldsEffect \/ SemanticDoneEffect
    BY <1>4, RunMoves
  <2>2. CASE SemanticAtOnceEffect
    <3>1. Top.pc = "enter" /\ runOf[a] = "semantic" /\ ~scopeOf[a]
      BY <1>4, <2>1, <2>2 DEF SemanticAtOnceEffect, At
    <3>2. PICK k \in 1..Depth : InBody(levels[k], a) /\ k \in 1..Depth' /\ levels'[k] = levels[k]
      BY <2>1, <3>1, FoundUnderWay
    <3>3. CASE levels[k].pc = "members"
      BY <3>2, <3>3 DEF InBody, AtMembers
    <3>4. CASE levels[k].pc = "fields"
      BY <3>2, <3>4, MembersAreDone, AllDoneGrows DEF InBody
    <3> QED BY <3>2, <3>3, <3>4 DEF InBody
  <2>3. CASE SemanticNoFieldsEffect \/ SemanticDoneEffect
    <3>1. Top.pc = "fields"
      BY <2>3 DEF SemanticNoFieldsEffect, SemanticDoneEffect, At
    <3> QED BY <1>1, <2>1, <3>1, MembersAreDone, AllDoneGrows
  <2> QED BY <2>1, <2>2, <2>3
<1> QED BY <1>2, <1>3, <1>4 DEF DoneInv, MembersKnown

-----------------------------------------------------------------------------
(***************************************************************************)
(* An aggregate that is under way is in some call, or will be tried again. *)
(***************************************************************************)
Entering(a) ==
    Depth > 0 /\ levels[Depth].proc = "semantic" /\ levels[Depth].of = a /\ levels[Depth].pc = "enter"

\* The round f has still to try a.
Retried(f, a) == IsRound(f) /\ \E n \in DOMAIN f.todo : n >= f.i /\ f.todo[n] = a

Accounted(a) ==
    runOf[a] = "semantic" =>
        \/ Entering(a) \/ a \in waiting
        \/ \E k \in 1..Depth : Active(levels[k], a)
        \/ \E k \in 1..Depth : Retried(levels[k], a)

AccInv == \A a \in Agg : Accounted(a)

\* A round that begins takes what is waiting.
LEMMA RoundTakes ==
    ASSUME DataInv, StackInv, stack # <<>>, RoundBegun, NEW a \in waiting
    PROVE  a \in waiting' \/ \E k \in 1..Depth' : Retried(levels'[k], a)
<1>1. CASE deferred' = deferred
  BY <1>1 DEF waiting
<1>2. CASE \E f : Retries(f, 1, deferred) /\ WentOn(f)
  <2>1. PICK f : Retries(f, 1, deferred) /\ WentOn(f)
    BY <1>2
  <2>2. Depth \in 1..Depth' /\ levels'[Depth] = f
    BY <2>1, TopGoesOn
  <2>3. DOMAIN deferred = 1..Len(deferred) /\ Len(deferred) \in Nat
    BY DEF DataInv
  <2>4. PICK n \in DOMAIN deferred : deferred[n] = a
    BY DEF waiting
  <2>5. f.todo = deferred /\ f.i = 1 /\ IsRound(f) /\ n >= 1
    BY <2>1, <2>3 DEF Retries, IsRound
  <2>6. Retried(f, a)
    BY <2>4, <2>5 DEF Retried
  <2> QED BY <2>2, <2>6
<1> QED BY <1>1, <1>2 DEF RoundBegun

\* Nothing else takes anything from the list.
LEMMA WaitingStays ==
    ASSUME DataInv, StackInv, StepEffect, NEW a \in waiting
    PROVE  a \in waiting' \/ \E k \in 1..Depth' : Retried(levels'[k], a)
<1>1. CASE deferred' = deferred
  BY <1>1 DEF waiting
<1>2. CASE RunDeferredEnterEffect \/ RunDeferredRoundDoneEffect
  BY <1>2, RoundTakes DEF RunDeferredEnterEffect, RunDeferredRoundDoneEffect, At
<1>3. CASE SemanticEffect
  BY <1>3, SemanticTouches
<1>4. CASE ~SemanticEffect /\ ~RunDeferredEnterEffect /\ ~RunDeferredRoundDoneEffect
  <2>1. deferred' = deferred
    BY <1>4 DEF StepEffect, SemanticEffect, ModuleMemberEffect, ModuleMemberDoneEffect,
       RunDeferredAtOnceEffect, RunDeferredSymbolEffect, InnerEffect, LastTryEffect, ReportUnresolvedEffect
  <2> QED BY <1>1, <2>1
<1> QED BY <1>2, <1>3, <1>4

\* A round goes through its list.
LEMMA RetriedStays ==
    ASSUME DataInv, StackInv, StepEffect, NEW a, NEW k \in 1..Depth, Retried(levels[k], a)
    PROVE  Entering(a)' \/ \E l \in 1..Depth' : Retried(levels'[l], a)
<1>1. stack # <<>> /\ Depth \in Nat \ {0} /\ Top = levels[Depth] /\ Top \in FrameSet /\ FrameOK(Top, program)
  BY EmptyStack, TopFacts DEF StackInv
<1>2. CASE k \in 1..Depth - 1
  BY <1>1, <1>2, LevelsStay
<1>3. CASE k = Depth
  <2>1. PICK n \in DOMAIN Top.todo : n >= Top.i /\ Top.todo[n] = a
    BY <1>1, <1>3 DEF Retried
  <2>2. Top.proc = "runDeferred" /\ Top.pc = "round" /\ Top.i \in Nat
    BY <1>1, <1>3 DEF Retried, IsRound, FrameOK
  <2>3. Top.todo \in Seq(Agg) /\ DOMAIN Top.todo = 1..Len(Top.todo) /\ Len(Top.todo) \in Nat
    BY <1>1 DEF FrameSet
  <2>4. RunDeferredSymbolEffect \/ RunDeferredRoundDoneEffect
    BY <1>1, <2>2 DEF StepEffect, SemanticAtOnceEffect, SemanticEnterEffect, ClassBaseEffect,
       ClassBasedEffect, ClassAncestorsEffect, SemanticMemberEffect, SemanticMembersDoneEffect,
       SemanticNoFieldsEffect, SemanticDeferEffect, SemanticDoneEffect, At,
       InnerEffect, InnerProcs, RunDeferredAtOnceEffect, RunDeferredEnterEffect,
       ModuleMemberEffect, ModuleMemberDoneEffect, LastTryEffect, ReportUnresolvedEffect
  <2>5. ~RunDeferredRoundDoneEffect
    BY <2>1, <2>2, <2>3 DEF RunDeferredRoundDoneEffect
  <2>6. \E f, g : /\ Retries(f, Top.i + 1, Top.todo) /\ Called(f, g)
                  /\ g.proc = "semantic" /\ g.of = Top.todo[Top.i] /\ g.pc = "enter"
    BY <2>4, <2>5 DEF RunDeferredSymbolEffect
  <2>7. PICK f, g : /\ Retries(f, Top.i + 1, Top.todo) /\ Called(f, g)
                    /\ g.proc = "semantic" /\ g.of = Top.todo[Top.i] /\ g.pc = "enter"
    BY <2>6
  <2>8. /\ Depth' = Depth + 1 /\ levels'[Depth + 1] = g
        /\ Depth \in 1..Depth' /\ levels'[Depth] = f
    BY <1>1, <2>7 DEF Called
  <2>9. CASE n = Top.i
    <3>1. Depth' > 0 /\ levels'[Depth'] = g
      BY <1>1, <2>8
    <3>2. Entering(a)'
      BY <2>1, <2>7, <2>9, <3>1 DEF Entering
    <3> QED BY <3>2
  <2>10. CASE n # Top.i
    <3>1. n >= Top.i + 1
      BY <2>1, <2>2, <2>3, <2>10
    <3>2. Retried(f, a)
      BY <2>1, <2>7, <3>1 DEF Retried, Retries, IsRound
    <3> QED BY <2>8, <3>2
  <2> QED BY <2>9, <2>10
<1> QED BY <1>1, <1>2, <1>3

\* A call that returns has finished its aggregate or has put it on the list.
LEMMA ActiveEnds ==
    ASSUME StackInv, RetInv, NEW a \in Agg, Top.of = a, Popped, runOf'[a] = "semantic",
           \/ ClassBasedEffect \/ ClassAncestorsEffect \/ SemanticNoFieldsEffect
           \/ SemanticDeferEffect \/ SemanticDoneEffect
    PROVE  a \in waiting'
<1>1. runOf = [b \in Agg |-> runOf[b]]
  BY DEF runOf
<1>2. ASSUME NEW pc, At("semantic", pc)
      PROVE  /\ Depth \in Nat \ {0} /\ Top = levels[Depth] /\ Top.proc = "semantic" /\ Top.pc = pc
             /\ ~\E f : WentOn(f)
  <2>1. Depth \in Nat \ {0} /\ Top = levels[Depth] /\ Top.proc = "semantic" /\ Top.pc = pc
    BY <1>2, SemanticTop
  <2> QED BY <2>1 DEF Popped, WentOn
<1>3. CASE ClassBasedEffect
  <2>1. ~\E f : WentOn(f)
    BY <1>2, <1>3 DEF ClassBasedEffect
  <2> QED BY <1>3, <2>1 DEF ClassBasedEffect
<1>4. CASE ClassAncestorsEffect
  <2>1. ~\E f : WentOn(f)
    BY <1>2, <1>4 DEF ClassAncestorsEffect
  <2> QED BY <1>4, <2>1 DEF ClassAncestorsEffect
<1>5. CASE SemanticNoFieldsEffect
  <2>1. ~ret /\ At("semantic", "fields")
    BY <1>5 DEF SemanticNoFieldsEffect
  <2>2. a \in Struct
    BY <1>2, <2>1 DEF RetInv
  <2> QED BY <1>1, <1>5, <2>2 DEF SemanticNoFieldsEffect
<1>6. CASE SemanticDeferEffect
  BY <1>6 DEF SemanticDeferEffect
<1>7. CASE SemanticDoneEffect
  BY <1>1, <1>7 DEF SemanticDoneEffect
<1> QED BY <1>3, <1>4, <1>5, <1>6, <1>7

LEMMA StepAccounts ==
    ASSUME DataInv, StackInv, RetInv, ScopeInv, AccInv, StepEffect, Grows, NEW a \in Agg
    PROVE  Accounted(a)'
<1> SUFFICES ASSUME runOf'[a] = "semantic"
             PROVE  \/ Entering(a)' \/ a \in waiting'
                    \/ \E k \in 1..Depth' : Active(levels'[k], a)
                    \/ \E k \in 1..Depth' : Retried(levels'[k], a)
  BY DEF Accounted
<1>1. stack # <<>> => Depth \in Nat \ {0} /\ Top = levels[Depth]
  BY TopFacts
<1>2. Depth > 0 => stack # <<>>
  BY EmptyStack DEF StackInv
<1>3. CASE SemanticEnterEffect /\ Top.of = a
  <2>1. PICK f : f = levels'[Depth]
    OBVIOUS
  <2>2. stack # <<>> /\ WentOn(f) /\ Active(f, a)
    BY <1>3, <2>1 DEF SemanticEnterEffect, At, Active
  <2> QED BY <2>2, TopGoesOn
<1>4. CASE runOf[a] # "semantic"
  BY <1>3, <1>4, RunMoves
<1>5. CASE runOf[a] = "semantic" /\ Entering(a)
  <2>1. stack # <<>> /\ Top.proc = "semantic" /\ Top.pc = "enter" /\ Top.of = a
    BY <1>1, <1>2, <1>5 DEF Entering
  <2>2. SemanticAtOnceEffect \/ SemanticEnterEffect
    BY <2>1, StepKinds DEF Aside, SemanticEffect, ClassBaseEffect, ClassBasedEffect, ClassAncestorsEffect,
       SemanticMemberEffect, SemanticMembersDoneEffect, SemanticNoFieldsEffect,
       SemanticDeferEffect, SemanticDoneEffect, At
  <2>3. CASE SemanticAtOnceEffect
    <3>1. ~scopeOf[a]
      BY <1>5, <2>1, <2>3 DEF SemanticAtOnceEffect
    <3>2. PICK k \in 1..Depth : InBody(levels[k], a) /\ k \in 1..Depth' /\ levels'[k] = levels[k]
      BY <1>5, <2>1, <3>1, FoundUnderWay
    <3> QED BY <3>2 DEF InBody, Active
  <2> QED BY <1>3, <2>1, <2>2, <2>3
<1>6. CASE a \in waiting
  BY <1>6, WaitingStays
<1>7. CASE \E k \in 1..Depth : Active(levels[k], a)
  BY <1>7, ActiveStays, ActiveEnds
<1>8. CASE \E k \in 1..Depth : Retried(levels[k], a)
  BY <1>8, RetriedStays
<1> QED BY <1>4, <1>5, <1>6, <1>7, <1>8 DEF AccInv, Accounted

-----------------------------------------------------------------------------
(***************************************************************************)
(* The inductive invariant.                                                *)
(***************************************************************************)
Consistent ==
    /\ DataInv /\ StackInv /\ ChainInv /\ BlameInv /\ NestInv /\ EndInv
    /\ MembersInv /\ ActiveInv /\ ModuleInv /\ ScopeInv /\ DoneInv /\ AccInv

LEMMA StepConsistent ==
    ASSUME Consistent, Step
    PROVE  Consistent' /\ StepEffect
<1>1. DataInv' /\ StackInv' /\ NoBlame' /\ StepEffect
  BY StepCore DEF Consistent
<1>2. Grows
  BY <1>1, StepGrows DEF Consistent, BlameInv
<1>3. ErrInv'
  BY <1>1, <1>2, StepShape, StepErr DEF Consistent, BlameInv
<1>4. RetInv'
  BY <1>1, <1>2, StepRet DEF Consistent
<1>5. ChainInv' /\ NestInv' /\ EndInv'
  BY <1>1, StepChains, StepNest, StepEnd DEF Consistent
<1>6. MembersInv' /\ ActiveInv'
  BY <1>1, <1>2, StepMembers, StepActive DEF Consistent
<1>7. ModuleInv'
  BY <1>1, <1>2, StepModules DEF Consistent
<1>8. ScopeInv'
  <2>1. \A a \in Agg : ScopeKnown(a)'
    BY <1>1, <1>2, StepScope DEF Consistent, BlameInv
  <2> QED BY <2>1 DEF ScopeInv
<1>9. DoneInv'
  <2>1. \A a \in Agg : MembersKnown(a)'
    BY <1>1, <1>2, StepDone DEF Consistent
  <2> QED BY <2>1 DEF DoneInv
<1>10. AccInv'
  <2>1. \A a \in Agg : Accounted(a)'
    BY <1>1, <1>2, StepAccounts DEF Consistent, BlameInv
  <2> QED BY <2>1 DEF AccInv
<1> QED BY <1>1, <1>3, <1>4, <1>5, <1>6, <1>7, <1>8, <1>9, <1>10 DEF Consistent, BlameInv

LEMMA SameLevels ==
    ASSUME UNCHANGED stack
    PROVE  Depth' = Depth /\ levels' = levels
<1>1. Depth' = Depth
  BY DEF Depth
<1> QED BY <1>1 DEF levels

LEMMA Stutters ==
    ASSUME Consistent, UNCHANGED vars
    PROVE  Consistent'
<1>1. Depth' = Depth /\ levels' = levels
  BY SameLevels DEF vars
<1>2. /\ UNCHANGED <<runOf, scopeOf, symtabOf, baseokOf, baseClassOf, baseOf, terrorOf, errorsOf,
                     sizeokOf, fieldsOf>>
      /\ UNCHANGED <<program, agg, var, started, deferred, dprogress, nested, errors, stack, ret, phase>>
  BY SameAgg DEF vars, AggSame
<1>3. \A a : Members(a)' = Members(a)
  BY <1>2 DEF Members
<1>4. UNCHANGED <<doneOf, badOf>>
  BY <1>2, <1>3 DEF doneOf, badOf
<1>5. DataInv' /\ StackInv' /\ EndInv'
  BY <1>1, <1>2, <1>3 DEF Consistent, DataInv, StackInv, EndInv
<1>6. ChainInv'
  BY <1>1, <1>2 DEF Consistent, ChainInv, Chain, Closed
<1>7. BlameInv'
  BY <1>1, <1>2, <1>3, <1>4 DEF Consistent, BlameInv, NoBlame, RetInv, ErrInv
<1>8. NestInv' /\ MembersInv' /\ ActiveInv'
  BY <1>1, <1>2, <1>3, <1>4 DEF Consistent, NestInv, rounds, MembersInv, ActiveInv
<1>9. ModuleInv'
  BY <1>1, <1>2 DEF Consistent, ModuleInv, Settled, AheadAt
<1>10. ScopeInv'
  BY <1>1, <1>2 DEF Consistent, ScopeInv, ScopeKnown, Basing
<1>11. DoneInv'
  BY <1>1, <1>2, <1>3, <1>4 DEF Consistent, DoneInv, MembersKnown, AllDone
<1>12. AccInv'
  BY <1>1, <1>2 DEF Consistent, AccInv, Accounted, Entering, waiting
<1> QED BY <1>5, <1>6, <1>7, <1>8, <1>9, <1>10, <1>11, <1>12 DEF Consistent

-----------------------------------------------------------------------------
(***************************************************************************)
(* At the beginning nothing is analysed and the root module is begun.      *)
(***************************************************************************)
LEMMA InitStack ==
    ASSUME Init
    PROVE  StackInv /\ Depth = 1 /\ levels[1] = ModuleSemantic(Main)
<1>1. ModuleSemantic(Main) \in FrameSet
  BY NewFrames
<1>2. stack = <<ModuleSemantic(Main)>>
  BY DEF Init
<1>3. stack \in Seq(FrameSet) /\ Len(stack) = 1 /\ stack[1] = ModuleSemantic(Main)
  BY <1>1, <1>2
<1>4. Depth = 1
  BY <1>3 DEF Depth
<1>5. levels[1] = ModuleSemantic(Main)
  <2>1. 1 \in 1..Depth /\ Depth + 1 - 1 = 1
    BY <1>4
  <2> QED BY <1>3, <2>1 DEF levels
<1>6. FrameOK(ModuleSemantic(Main), program)
  BY NewFrames DEF FrameOK
<1>7. (\A k \in 1..Depth : k = 1) /\ \A k : k \notin 1..Depth - 1
  BY <1>4
<1> QED BY <1>3, <1>4, <1>5, <1>6, <1>7 DEF StackInv

LEMMA InitData ==
    ASSUME Init
    PROVE  /\ DataInv
           /\ \A a \in Agg : /\ runOf[a] = "init" /\ scopeOf[a] /\ baseClassOf[a] = NoBase
                             /\ ~terrorOf[a] /\ ~errorsOf[a] /\ badOf[a] = {}
           /\ \A a \in Struct : baseOf[a] = NoBase
<1>1. program \in Programs /\ program.base \in [Class -> Class \cup {NoBase}]
  BY ProgramFacts DEF Init
<1>2. \A a \in Agg :
         /\ agg[a].semanticRun = "init" /\ agg[a].scope = TRUE /\ agg[a].baseClass = NoBase
         /\ agg[a].terror = FALSE /\ agg[a].errors = FALSE /\ agg[a].fields = <<>>
         /\ agg[a].base = IF a \in Class THEN program.base[a] ELSE NoBase
  BY DEF Init
<1>3. agg \in [Agg -> AggSet]
  <2>1. <<>> \in Seq(Nat)
    BY EmptySeq
  <2>2. \A a \in Agg : (IF a \in Class THEN program.base[a] ELSE NoBase) \in Class \cup {NoBase}
    BY <1>1
  <2> QED BY <2>1, <2>2 DEF Init, AggSet, Runs
<1>4. \A a \in Agg : fieldsOf[a] \in Seq(DOMAIN Members(a))
  BY <1>2, EmptySeq DEF fieldsOf
<1>5. \A a \in Agg : var[a] = [i \in DOMAIN Members(a) |->
               [semanticRun |-> "init", scope |-> FALSE, terror |-> FALSE, placed |-> FALSE]]
  BY DEF Init
<1>6. var = [a \in Agg |-> var[a]] /\ \A a \in Agg : var[a] \in [DOMAIN Members(a) -> VarSet]
  <2>1. var = [a \in Agg |-> var[a]]
    BY DEF Init
  <2>2. \A a \in Agg : var[a] \in [DOMAIN Members(a) -> VarSet]
    <3> SUFFICES ASSUME NEW a \in Agg PROVE var[a] \in [DOMAIN Members(a) -> VarSet]
      OBVIOUS
    <3>1. [semanticRun |-> "init", scope |-> FALSE, terror |-> FALSE, placed |-> FALSE] \in VarSet
      BY DEF VarSet, Runs
    <3>2. var[a] = [i \in DOMAIN Members(a) |->
               [semanticRun |-> "init", scope |-> FALSE, terror |-> FALSE, placed |-> FALSE]]
      BY <1>5
    <3> HIDE DEF VarSet
    <3> QED BY <3>1, <3>2
  <2> QED BY <2>1, <2>2
<1>7. deferred \in Seq(Agg)
  BY EmptySeq DEF Init
<1>8. DataInv
  BY <1>1, <1>3, <1>4, <1>6, <1>7 DEF Init, DataInv
<1>9. \A a \in Agg : badOf[a] = {}
  <2>1. ASSUME NEW a \in Agg, NEW i \in DOMAIN Members(a) PROVE ~var[a][i].terror
    <3>1. var[a][i] = [semanticRun |-> "init", scope |-> FALSE, terror |-> FALSE, placed |-> FALSE]
      BY <1>5
    <3> QED BY <3>1
  <2> QED BY <2>1 DEF badOf
<1>10. \A a \in Struct : baseOf[a] = NoBase
  BY <1>2, NamesAssumption DEF baseOf, Agg
<1>11. \A a \in Agg : /\ runOf[a] = "init" /\ scopeOf[a] /\ baseClassOf[a] = NoBase
                      /\ ~terrorOf[a] /\ ~errorsOf[a]
  BY <1>2 DEF runOf, scopeOf, baseClassOf, terrorOf, errorsOf
<1> QED BY <1>8, <1>9, <1>10, <1>11

LEMMA InitConsistent ==
    ASSUME Init
    PROVE  Consistent
<1>1. StackInv /\ Depth = 1 /\ levels[1] = ModuleSemantic(Main)
  BY InitStack
<1>2. /\ DataInv
      /\ \A a \in Agg : /\ runOf[a] = "init" /\ scopeOf[a] /\ baseClassOf[a] = NoBase
                        /\ ~terrorOf[a] /\ ~errorsOf[a] /\ badOf[a] = {}
      /\ \A a \in Struct : baseOf[a] = NoBase
  BY InitData
<1>3. /\ \A k \in 1..Depth : levels[k] = ModuleSemantic(Main)
      /\ ModuleSemantic(Main).proc = "module" /\ ModuleSemantic(Main).of = Main
      /\ ModuleSemantic(Main).pc = "enter" /\ ModuleSemantic(Main).i = 1
      /\ ModuleSemantic(Main).errors = 0
  BY <1>1, NewFrames
<1>4. ChainInv
  <2>1. baseClassOf \in [Agg -> Class \cup {NoBase}]
    BY <1>2 DEF DataInv, baseClassOf, AggSet
  <2>2. \A c \in Class : baseClassOf[c] = NoBase /\ Chain(baseClassOf, NoBase) = {}
    BY <1>2, <2>1, ChainFacts DEF Agg
  <2> QED BY <1>2, <1>3, <2>2 DEF ChainInv
<1>5. BlameInv
  BY <1>1, <1>2, <1>3 DEF BlameInv, NoBlame, RetInv, ErrInv
<1>6. NestInv /\ EndInv
  BY <1>3 DEF Init, NestInv, EndInv, rounds, IsRound
<1>7. MembersInv /\ ActiveInv
  BY <1>3 DEF MembersInv, ActiveInv
<1>8. ModuleInv
  <2>1. Main \in started /\ \A m \in started : m = Main
    BY DEF Init
  <2>2. program.items[Main] \in Seq(Agg \cup {Import})
    BY <1>2, ProgramFacts DEF DataInv
  <2>3. \A j \in DOMAIN program.items[Main] : 1 < j \/ 1 = j
    BY <2>2
  <2>4. \A j \in DOMAIN program.items[Main] : AheadAt(Main, j, 1)
    BY <1>1, <1>3, <2>3 DEF AheadAt
  <2>5. 1 \in 1..Depth
    BY <1>1
  <2> QED BY <2>1, <2>4, <2>5 DEF ModuleInv
<1>9. ScopeInv /\ DoneInv /\ AccInv
  BY <1>2 DEF ScopeInv, ScopeKnown, DoneInv, MembersKnown, AccInv, Accounted
<1> QED BY <1>1, <1>2, <1>4, <1>5, <1>6, <1>7, <1>8, <1>9 DEF Consistent

LEMMA NextConsistent ==
    ASSUME Consistent, [Next]_vars
    PROVE  Consistent'
<1>1. CASE Step
  BY <1>1, StepConsistent
<1>2. CASE UNCHANGED vars
  BY <1>2, Stutters
<1> QED BY <1>1, <1>2 DEF Next, Finished

LEMMA AlwaysConsistent == Spec => []Consistent
  BY InitConsistent, NextConsistent, PTL DEF Spec

-----------------------------------------------------------------------------
(***************************************************************************)
(* What follows from it.                                                   *)
(***************************************************************************)

\* The rounds in the order of the stack.
LEMMA OneRound ==
    ASSUME StackInv, NestInv
    PROVE  Cardinality({n \in DOMAIN stack : stack[n].proc = "runDeferred" /\ stack[n].pc = "round"})
              = IF nested THEN 1 ELSE 0
<1> DEFINE found == {n \in DOMAIN stack : stack[n].proc = "runDeferred" /\ stack[n].pc = "round"}
<1>1. Depth \in Nat /\ DOMAIN stack = 1..Depth
  BY EmptyStack DEF StackInv, Depth
<1>2. \A n \in 1..Depth : /\ Depth + 1 - n \in 1..Depth /\ Depth + 1 - (Depth + 1 - n) = n
  BY <1>1
<1>3. \A n \in 1..Depth : levels[Depth + 1 - n] = stack[n]
  BY <1>2 DEF levels
<1>4. \A n \in 1..Depth : n \in found <=> Depth + 1 - n \in rounds
  BY <1>1, <1>2, <1>3 DEF rounds, IsRound
<1>5. found \subseteq 1..Depth
  BY <1>1
<1> HIDE DEF found
<1>6. CASE ~nested /\ rounds = {}
  <2>1. found = {}
    BY <1>4, <1>5, <1>6
  <2> QED BY <1>6, <2>1, FS_EmptySet DEF found
<1>7. CASE nested /\ \E k \in 1..Depth : rounds = {k}
  <2>1. PICK k \in 1..Depth : rounds = {k}
    BY <1>7
  <2>2. Depth + 1 - k \in 1..Depth /\ Depth + 1 - (Depth + 1 - k) = k
    BY <1>2
  <2>3. \A n \in 1..Depth : Depth + 1 - n = k => n = Depth + 1 - k
    BY <1>1
  <2>4. found = {Depth + 1 - k}
    BY <1>4, <1>5, <2>1, <2>2, <2>3
  <2>5. Cardinality(found) = 1
    BY <2>4, FS_Singleton
  <2> QED BY <1>7, <2>5 DEF found
<1> QED BY <1>6, <1>7 DEF NestInv

\* Every variable stays in its range, and the flag that keeps
\* runDeferredSemantic from being entered twice is set exactly while one round
\* of it is running, however deep the analyses it starts nest.
THEOREM TypeCorrect == Spec => []TypeOK
<1>1. ASSUME Consistent PROVE TypeOK
  <2>1. DataInv /\ StackInv /\ NestInv
    BY <1>1 DEF Consistent
  <2>2. \A a \in Agg :
         /\ agg[a].semanticRun \in {"init", "semantic", "done"}
         /\ agg[a].baseok \in {"none", "start", "done", "semanticdone"}
         /\ agg[a].sizeok \in {"none", "fwd", "inProcess", "done"}
         /\ {agg[a].base, agg[a].baseClass} \subseteq Class \cup {NoBase}
    BY <2>1 DEF DataInv, AggSet, Runs
  <2>3. \A a \in Agg : agg[a].fields \in Seq(DOMAIN Members(a))
    BY <2>1 DEF DataInv, fieldsOf
  <2> QED BY <2>1, <2>2, <2>3, OneRound DEF TypeOK, DataInv
<1> QED BY <1>1, AlwaysConsistent, PTL

\* An analysis that goes on, instead of returning at once, finds a scope: a
\* symbol that is under way further out has had its scope taken, but only a
\* call in its members can find it so, and that one returns at once.
THEOREM ScopesCorrect == Spec => ScopeAtHand
<1>1. ASSUME Consistent, [Next]_vars, ~UNCHANGED vars,
             At("semantic", "enter"), Len(stack') = Len(stack)
      PROVE  agg[Top.of].scope \/ Top.sc
  <2>1. Step
    BY <1>1 DEF Next, Finished
  <2>2. StepEffect /\ StackInv /\ ScopeInv
    BY <1>1, <2>1, StepConsistent DEF Consistent
  <2>3. /\ stack # <<>> /\ Top.proc = "semantic" /\ Top.pc = "enter" /\ Top.of \in Agg
        /\ Depth \in Nat \ {0} /\ Top = levels[Depth]
    BY <1>1, <2>2, SemanticTop
  <2>4. Depth' = Depth
    BY <1>1 DEF Depth
  <2>5. SemanticEnterEffect
    <3>1. SemanticAtOnceEffect \/ SemanticEnterEffect
      BY <2>2, <2>3, StepKinds DEF Aside, SemanticEffect, ClassBaseEffect, ClassBasedEffect,
         ClassAncestorsEffect, SemanticMemberEffect, SemanticMembersDoneEffect,
         SemanticNoFieldsEffect, SemanticDeferEffect, SemanticDoneEffect, At
    <3>2. ~SemanticAtOnceEffect
      BY <2>3, <2>4 DEF SemanticAtOnceEffect, Popped
    <3> QED BY <3>1, <3>2
  <2>6. runOf[Top.of] \in Runs
    BY <1>1, <2>3 DEF Consistent, DataInv, AggSet, runOf
  <2>7. ~Basing(Top.of)
    BY <2>3 DEF Basing
  <2>8. scopeOf[Top.of]
    BY <2>2, <2>3, <2>5, <2>6, <2>7 DEF SemanticEnterEffect, ScopeInv, ScopeKnown, Runs
  <2> QED BY <2>3, <2>8 DEF scopeOf
<1>2. ASSUME Consistent, [Next]_vars
      PROVE  [At("semantic", "enter") /\ Len(stack') = Len(stack) => agg[Top.of].scope \/ Top.sc]_vars
  BY <1>1, <1>2
<1> QED BY <1>2, AlwaysConsistent, PTL DEF Spec, ScopeAtHand

\* No symbol is lost by the deferral: when pass 1 ends with no error, every
\* aggregate that the modules list has been completed, with all its variables,
\* and none is left in the list of deferred symbols.
THEOREM NothingIsLost == Spec => []NothingLost
<1>1. ASSUME Consistent PROVE NothingLost
  <2> SUFFICES ASSUME phase = "end", errors = 0
               PROVE  /\ deferred = <<>>
                      /\ \A a \in Declared : agg[a].semanticRun = "done" /\ ~agg[a].terror
                      /\ \A a \in Declared : \A i \in DOMAIN Members(a) :
                            IsVar(a, i) => var[a][i].semanticRun = "done" /\ ~var[a][i].terror
    BY DEF NothingLost
  <2>1. DataInv /\ StackInv /\ NoBlame /\ EndInv /\ ModuleInv /\ DoneInv /\ AccInv
    BY <1>1 DEF Consistent, BlameInv
  <2>2. deferred = <<>> /\ stack = <<>>
    BY <2>1 DEF EndInv
  <2>3. Depth = 0 /\ \A k : k \notin 1..Depth
    BY <2>1, <2>2, EmptyStack DEF StackInv
  <2>4. waiting = {}
    BY <2>2 DEF waiting
  <2>5. \A m \in started : \A j \in DOMAIN program.items[m] : Settled(m, j)
    BY <2>1, <2>3 DEF ModuleInv
  <2>6. Main \in started
    BY <2>1 DEF ModuleInv
  <2>7. \A a \in Declared : a \in Agg /\ runOf[a] # "init"
    <3> SUFFICES ASSUME NEW a \in Declared PROVE a \in Agg /\ runOf[a] # "init"
      OBVIOUS
    <3>1. /\ a \in Agg /\ a # Import
          /\ \E m \in {Main, Imported} : \E j \in DOMAIN program.items[m] : program.items[m][j] = a
      BY NamesAssumption DEF Declared
    <3>2. PICK m \in {Main, Imported} : \E j \in DOMAIN program.items[m] : program.items[m][j] = a
      BY <3>1
    <3>3. PICK j \in DOMAIN program.items[m] : program.items[m][j] = a
      BY <3>2
    <3>4. m \in started
      <4>1. CASE m = Imported
        <5>1. program.items[Imported] # <<>>
          BY <3>3, <4>1
        <5>2. PICK n \in DOMAIN program.items[Main] : program.items[Main][n] = Import
          BY <2>1, <5>1, ProgramFacts DEF DataInv
        <5> QED BY <2>5, <2>6, <4>1, <5>2 DEF Settled
      <4> QED BY <2>6, <4>1
    <3> QED BY <2>5, <3>1, <3>3, <3>4 DEF Settled
  <2>8. \A a \in Declared : a \in Agg /\ runOf[a] = "done"
    <3>1. \A a \in Agg : runOf[a] \in Runs
      BY <2>1 DEF DataInv, AggSet, runOf
    <3>2. \A a \in Agg : runOf[a] # "semantic"
      BY <2>1, <2>3, <2>4 DEF AccInv, Accounted, Entering
    <3> QED BY <2>7, <3>1, <3>2 DEF Runs
  <2>9. \A a \in Declared : a \in Agg /\ AllDone(a) /\ ~terrorOf[a] /\ badOf[a] = {}
    BY <2>1, <2>3, <2>8 DEF DoneInv, MembersKnown, NoBlame
  <2>10. \A a \in Declared : agg[a].semanticRun = "done" /\ ~agg[a].terror
    BY <2>8, <2>9 DEF runOf, terrorOf
  <2>11. \A a \in Declared : \A i \in DOMAIN Members(a) :
            IsVar(a, i) => var[a][i].semanticRun = "done" /\ ~var[a][i].terror
    BY <2>9 DEF AllDone, doneOf, badOf, IsVar
  <2> QED BY <2>2, <2>10, <2>11
<1> QED BY <1>1, AlwaysConsistent, PTL

\* The chains of base classes, which are walked while classes are still being
\* given their bases, end all the time: no class becomes its own ancestor.
THEOREM ChainsEnd == Spec => [](\A c \in Class : c \notin BaseChain(agg[c].baseClass))
<1>1. ASSUME Consistent
      PROVE  \A c \in Class : c \notin BaseChain(agg[c].baseClass)
  <2>1. \A c \in Class : c \notin Chain(baseClassOf, baseClassOf[c])
    BY <1>1 DEF Consistent, ChainInv
  <2>2. \A c \in Class : baseClassOf[c] = agg[c].baseClass
    BY DEF baseClassOf, Agg
  <2> QED BY <2>1, <2>2, BaseChainIs
<1> QED BY <1>1, AlwaysConsistent, PTL

-----------------------------------------------------------------------------
(***************************************************************************)
(* What the assertions about sizes rest on: the base class of an aggregate *)
(* that is being sized is settled and has its size, its fields are known,  *)
(* and a field that would be the aggregate itself has been refused.        *)
(***************************************************************************)

\* The class has its base class, or has none.
BaseKnown(a) == baseClassOf[a] # NoBase \/ baseOf[a] = NoBase

Choosing(a) ==
    /\ Depth > 0 /\ levels[Depth].proc = "semantic" /\ levels[Depth].of = a
    /\ levels[Depth].pc = "base"

BaseFound(a) ==
    /\ baseokOf[a] \notin {"none", "start"} => BaseKnown(a)
    /\ runOf[a] # "init" => BaseKnown(a) \/ Choosing(a)

BaseInv == \A a \in Agg : BaseFound(a)

\* Member j of a is a field of type a; it is analysed and marked as bad.
Itself(a, j) == Members(a)[j] = [kind |-> "field", of |-> a]
Refused(a, j) == Itself(a, j) => j \in doneOf[a] /\ j \in badOf[a]

SelfInv == \A a \in Agg : sizeokOf[a] # "none" => \A j \in DOMAIN Members(a) : Refused(a, j)

BaseSized(a) ==
    BaseKnown(a) /\ (baseClassOf[a] # NoBase => sizeokOf[baseClassOf[a]] = "done")

\* What a call knows as long as it runs.
SizeFrame(f) ==
    /\ f.proc = "determineSize" /\ f.pc = "based" => baseClassOf[f.of] # NoBase
    /\ f.proc = "determineSize" /\ f.pc = "fields" => BaseSized(f.of)
    /\ f.proc = "determineFields" /\ f.pc \in {"next", "push"} =>
         \A j \in DOMAIN Members(f.of) : j < f.i => Refused(f.of, j)
    /\ f.proc = "finalizeSize" =>
         /\ sizeokOf[f.of] # "none"
         /\ f.pc = "sized" => ~Itself(f.of, f.i)
         /\ f.pc = "enter" => BaseSized(f.of)

\* What the innermost call knows, from the answer it has just been given.
TopSized(f) ==
    /\ f.proc = "determineSize" /\ f.pc = "base" => runOf[f.of] # "init"
    /\ f.proc = "determineSize" /\ f.pc = "based" /\ ret =>
         sizeokOf[baseClassOf[f.of]] = "done"
    /\ f.proc = "determineSize" /\ f.pc = "fields" /\ ret => sizeokOf[f.of] # "none"
    /\ f.proc = "finalizeSize" /\ f.pc = "enter" => sizeokOf[f.of] # "done"

CallSized(f, g) ==
    f.proc = "determineSize" /\ f.pc = "based" => g.of = baseClassOf[f.of]

FramesInv ==
    /\ \A k \in 1..Depth, f \in FrameSet : f = levels[k] => SizeFrame(f)
    /\ \A k \in 1..Depth - 1, f, g \in FrameSet :
          f = levels[k] /\ g = levels[k + 1] => CallSized(f, g)
    /\ \A f \in FrameSet : Depth > 0 /\ f = levels[Depth] => TopSized(f)

SizeInv == BaseInv /\ SelfInv /\ FramesInv

\* What is known of bases, sizes and refused fields does not go back.
Lasting ==
    /\ program' = program
    /\ \A a \in Agg :
         /\ BaseKnown(a) => BaseKnown(a)' /\ baseClassOf'[a] = baseClassOf[a]
         /\ sizeokOf[a] = "done" => sizeokOf'[a] = "done"
         /\ sizeokOf[a] # "none" => sizeokOf'[a] # "none"
         /\ \A j \in DOMAIN Members(a) : Refused(a, j) => Refused(a, j)'

LEMMA BaseClasses ==
    ASSUME DataInv, NEW a \in Agg
    PROVE  baseClassOf[a] = NoBase \/ baseClassOf[a] \in Agg
  BY DEF DataInv, AggSet, baseClassOf, Agg

LEMMA FrameLasts ==
    ASSUME DataInv, Lasting, NEW f, FrameOK(f, program), SizeFrame(f)
    PROVE  SizeFrame(f)'
<1>1. \A a \in Agg : \A j \in DOMAIN Members(a) : Members(a)' = Members(a) /\ (Itself(a, j)' <=> Itself(a, j))
  BY DEF Lasting, Members, Itself
<1>2. \A a \in Agg : BaseSized(a) => BaseSized(a)'
  <2> SUFFICES ASSUME NEW a \in Agg, BaseSized(a) PROVE BaseSized(a)'
    OBVIOUS
  <2>1. BaseKnown(a)' /\ baseClassOf'[a] = baseClassOf[a]
    BY DEF Lasting, BaseSized
  <2>2. baseClassOf[a] # NoBase => sizeokOf'[baseClassOf[a]] = "done"
    BY BaseClasses DEF Lasting, BaseSized
  <2> QED BY <2>1, <2>2 DEF BaseSized
<1>3. ASSUME f.proc = "determineSize" PROVE SizeFrame(f)'
  <2>1. f.of \in Agg
    BY <1>3 DEF FrameOK
  <2>2. f.pc = "based" => baseClassOf'[f.of] # NoBase
    BY <1>3, <2>1 DEF SizeFrame, Lasting, BaseKnown
  <2>3. f.pc = "fields" => BaseSized(f.of)'
    BY <1>2, <1>3, <2>1 DEF SizeFrame
  <2> QED BY <1>3, <2>2, <2>3 DEF SizeFrame
<1>4. ASSUME f.proc = "determineFields" PROVE SizeFrame(f)'
  <2>1. f.of \in Agg
    BY <1>4 DEF FrameOK
  <2>2. Members(f.of)' = Members(f.of)
    BY DEF Lasting, Members
  <2>3. f.pc \in {"next", "push"} => \A j \in DOMAIN Members(f.of) : j < f.i => Refused(f.of, j)'
    BY <1>4, <2>1 DEF SizeFrame, Lasting
  <2> QED BY <1>4, <2>2, <2>3 DEF SizeFrame
<1>5. ASSUME f.proc = "finalizeSize" PROVE SizeFrame(f)'
  <2>1. f.of \in Agg
    BY <1>5 DEF FrameOK
  <2>2. sizeokOf'[f.of] # "none"
    BY <1>5, <2>1 DEF SizeFrame, Lasting
  <2>3. f.pc = "sized" => ~Itself(f.of, f.i)'
    <3>1. Itself(f.of, f.i)' <=> Itself(f.of, f.i)
      BY DEF Lasting, Members, Itself
    <3> QED BY <1>5, <3>1 DEF SizeFrame
  <2>4. f.pc = "enter" => BaseSized(f.of)'
    BY <1>2, <1>5, <2>1 DEF SizeFrame
  <2> QED BY <1>5, <2>2, <2>3, <2>4 DEF SizeFrame
<1>6. ASSUME f.proc \notin {"determineSize", "determineFields", "finalizeSize"} PROVE SizeFrame(f)'
  BY <1>6 DEF SizeFrame
<1> QED BY <1>3, <1>4, <1>5, <1>6

LEMMA CallLasts ==
    ASSUME DataInv, Lasting, NEW f, NEW g, FrameOK(f, program), SizeFrame(f), CallSized(f, g)
    PROVE  CallSized(f, g)'
  BY DEF FrameOK, SizeFrame, CallSized, Lasting, BaseKnown

\* What a step leaves to the innermost call after it.
SizeMove ==
    \/ /\ stack # <<>> /\ Popped
       /\ \A f \in FrameSet : Depth > 1 /\ f = levels[Depth - 1] => TopSized(f)'
    \/ /\ stack # <<>>
       /\ \E f : /\ WentOn(f) /\ (f.proc = "determineSize" => f.of = Top.of)
                              /\ SizeFrame(f)' /\ TopSized(f)'
    \/ /\ stack # <<>>
       /\ \E f, g : /\ Called(f, g) /\ (f.proc = "determineSize" => f.of = Top.of)
                                 /\ SizeFrame(f)' /\ SizeFrame(g)'
                                 /\ CallSized(f, g)' /\ TopSized(g)'
    \/ stack = <<>> /\ \A k \in 1..Depth' : levels'[k].proc = "runDeferred" /\ k = 1

\* Only the call that asks for the size of the base class waits there.
LEMMA BasedWaits ==
    ASSUME NEW f, NEW g, NEW p, Waits(f, g, p), g \in FrameSet, f.proc = "determineSize", f.pc = "based"
    PROVE  g.proc = "determineSize"
  BY DEF Waits, FrameSet, Procs

\* The calls below the innermost one go on knowing what they knew.
LEMMA FramesKept ==
    ASSUME DataInv, StackInv, StackInv', FramesInv, Lasting, SizeMove
    PROVE  FramesInv'
<1>1. CASE stack = <<>>
  <2>1. \A k \in 1..Depth' : levels'[k].proc = "runDeferred" /\ k = 1
    BY <1>1 DEF SizeMove
  <2>2. PICK d \in Nat : d = Depth'
    BY EmptyStack DEF StackInv, Depth
  <2>3. \A k \in 1..d - 1 : FALSE
    <3> SUFFICES ASSUME NEW k \in 1..d - 1 PROVE FALSE
      OBVIOUS
    <3>1. k \in 1..d /\ k + 1 \in 1..d /\ k + 1 # k
      OBVIOUS
    <3> QED BY <2>1, <2>2, <3>1
  <2>4. d > 0 => levels'[d].proc = "runDeferred"
    BY <2>1, <2>2
  <2> QED BY <2>1, <2>2, <2>3, <2>4 DEF FramesInv, SizeFrame, TopSized
<1>2. ASSUME stack # <<>>, NEW k \in 1..Depth, NEW f \in FrameSet, f = levels[k]
      PROVE  SizeFrame(f) /\ SizeFrame(f)' /\ FrameOK(f, program)
  BY <1>2, FrameLasts DEF FramesInv, StackInv
<1>3. ASSUME stack # <<>>, NEW k \in 1..Depth - 1, NEW f \in FrameSet, NEW g \in FrameSet,
             f = levels[k], g = levels[k + 1]
      PROVE  CallSized(f, g)'
  <2>1. CallSized(f, g)
    BY <1>3 DEF FramesInv
  <2>2. k \in 1..Depth
    BY <1>3, TopFacts
  <2> QED BY <1>2, <1>3, <2>1, <2>2, CallLasts
<1>4. ASSUME stack # <<>>, NEW f \in FrameSet, f.proc = "determineSize" => f.of = Top.of,
             Depth' - 1 >= Depth - 1, levels'[Depth] = f, Depth \in 1..Depth', Depth > 1,
             NEW e \in FrameSet, e = levels[Depth - 1], levels'[Depth - 1] = e
      PROVE  CallSized(e, f)'
  <2>1. Depth \in Nat \ {0} /\ Top = levels[Depth] /\ Top \in FrameSet
    BY <1>4, TopFacts
  <2>2. Depth - 1 \in 1..Depth - 1 /\ (Depth - 1) + 1 = Depth
    BY <1>4, <2>1
  <2>3. CASE f.proc = "determineSize"
    <3>1. PICK g : g = Top
      OBVIOUS
    <3>2. CallSized(e, g)'
      BY <1>3, <1>4, <2>1, <2>2, <3>1
    <3> QED BY <1>4, <2>3, <3>1, <3>2 DEF CallSized
  <2>4. CASE f.proc # "determineSize"
    <3>1. PICK d \in Nat : d = Depth'
      BY EmptyStack DEF StackInv, Depth
    <3>2. Depth - 1 \in 1..d - 1
      <4>1. Depth \in 1..d /\ Depth > 1
        BY <1>4, <3>1
      <4> QED BY <4>1, <2>1
    <3>3. Waits(levels'[Depth - 1], levels'[(Depth - 1) + 1], program')
      BY <3>1, <3>2 DEF StackInv
    <3>4. Waits(e, f, program')
      BY <1>4, <2>2, <3>3
    <3> QED BY <2>4, <3>4, BasedWaits DEF CallSized
  <2> QED BY <2>3, <2>4
<1>5. CASE stack # <<>> /\ Popped
  <2>1. /\ Depth \in Nat \ {0} /\ Depth' = Depth - 1
        /\ \A k \in 1..Depth' : k \in 1..Depth - 1 /\ k \in 1..Depth /\ levels'[k] = levels[k]
    BY <1>5, NextLevels DEF Popped
  <2>2. \A k \in 1..Depth' - 1 : k \in 1..Depth - 1 /\ levels'[k] = levels[k] /\ levels'[k + 1] = levels[k + 1]
    <3> SUFFICES ASSUME NEW k \in 1..Depth' - 1
                 PROVE k \in 1..Depth - 1 /\ levels'[k] = levels[k] /\ levels'[k + 1] = levels[k + 1]
      OBVIOUS
    <3>1. k \in 1..Depth' /\ k + 1 \in 1..Depth'
      BY <2>1
    <3> QED BY <2>1, <3>1
  <2>3. \A k \in 1..Depth', f \in FrameSet : f = levels'[k] => SizeFrame(f)'
    BY <1>2, <1>5, <2>1
  <2>4. \A k \in 1..Depth' - 1, f, g \in FrameSet :
          f = levels'[k] /\ g = levels'[k + 1] => CallSized(f, g)'
    BY <1>3, <1>5, <2>2
  <2>5. \A f \in FrameSet : Depth' > 0 /\ f = levels'[Depth'] => TopSized(f)'
    <3> SUFFICES ASSUME NEW f \in FrameSet, Depth' > 0, f = levels'[Depth'] PROVE TopSized(f)'
      OBVIOUS
    <3>1. Depth > 1 /\ Depth' \in 1..Depth'
      BY <2>1
    <3>2. f = levels[Depth - 1]
      BY <2>1, <3>1
    <3>3. CASE stack # <<>> /\ \A h \in FrameSet : Depth > 1 /\ h = levels[Depth - 1] => TopSized(h)'
      BY <3>1, <3>2, <3>3
    <3>4. CASE \E h : WentOn(h)
      BY <2>1, <3>4 DEF WentOn
    <3>5. CASE \E h, g : Called(h, g)
      BY <2>1, <3>5 DEF Called
    <3> QED BY <1>5, <3>3, <3>4, <3>5 DEF SizeMove
  <2> QED BY <2>3, <2>4, <2>5 DEF FramesInv
<1>6. CASE stack # <<>> /\ \E f : /\ WentOn(f) /\ (f.proc = "determineSize" => f.of = Top.of)
                                               /\ SizeFrame(f)' /\ TopSized(f)'
  <2>1. PICK f : /\ WentOn(f) /\ (f.proc = "determineSize" => f.of = Top.of)
                              /\ SizeFrame(f)' /\ TopSized(f)'
    BY <1>6
  <2>2. /\ Depth \in Nat \ {0} /\ Depth' = Depth /\ levels'[Depth] = f
        /\ \A k \in 1..Depth' : \/ k \in 1..Depth - 1 /\ k \in 1..Depth /\ levels'[k] = levels[k]
                                \/ k = Depth /\ levels'[k] = f
    BY <1>6, <2>1, NextLevels DEF WentOn
  <2>3. \A k \in 1..Depth', h \in FrameSet : h = levels'[k] => SizeFrame(h)'
    BY <1>2, <1>6, <2>1, <2>2
  <2>4. ASSUME NEW k \in 1..Depth' - 1, NEW h \in FrameSet, NEW g \in FrameSet,
               h = levels'[k], g = levels'[k + 1]
        PROVE  CallSized(h, g)'
    <3>1. k \in 1..Depth' /\ k + 1 \in 1..Depth' /\ k \in 1..Depth - 1 /\ k # Depth
      BY <2>2
    <3>2. h = levels[k]
      BY <2>2, <2>4, <3>1
    <3>3. CASE k + 1 = Depth
      <4>1. g = f /\ k = Depth - 1 /\ Depth > 1 /\ Depth \in 1..Depth' /\ Depth' - 1 >= Depth - 1
        BY <2>2, <2>4, <3>1, <3>3
      <4> QED BY <1>4, <1>6, <2>1, <2>2, <2>4, <3>2, <4>1
    <3>4. CASE k + 1 # Depth
      BY <1>3, <1>6, <2>2, <2>4, <3>1, <3>2, <3>4
    <3> QED BY <3>3, <3>4
  <2>5. \A h \in FrameSet : Depth' > 0 /\ h = levels'[Depth'] => TopSized(h)'
    BY <2>1, <2>2
  <2> QED BY <2>3, <2>4, <2>5 DEF FramesInv
<1>7. CASE stack # <<>> /\ \E f, g : /\ Called(f, g) /\ (f.proc = "determineSize" => f.of = Top.of)
                                                  /\ SizeFrame(f)' /\ SizeFrame(g)'
                                                  /\ CallSized(f, g)' /\ TopSized(g)'
  <2>1. PICK f, g :
           /\ Called(f, g) /\ (f.proc = "determineSize" => f.of = Top.of)
           /\ SizeFrame(f)' /\ SizeFrame(g)' /\ CallSized(f, g)' /\ TopSized(g)'
    BY <1>7
  <2>2. /\ Depth \in Nat \ {0} /\ Depth' = Depth + 1 /\ levels'[Depth] = f /\ levels'[Depth + 1] = g
        /\ \A k \in 1..Depth' : \/ k \in 1..Depth - 1 /\ k \in 1..Depth /\ levels'[k] = levels[k]
                                \/ k = Depth /\ levels'[k] = f
                                \/ k = Depth + 1 /\ levels'[k] = g
    BY <1>7, <2>1, NextLevels DEF Called
  <2>3. \A k \in 1..Depth', h \in FrameSet : h = levels'[k] => SizeFrame(h)'
    BY <1>2, <1>7, <2>1, <2>2
  <2>4. ASSUME NEW k \in 1..Depth' - 1, NEW h \in FrameSet, NEW e \in FrameSet,
               h = levels'[k], e = levels'[k + 1]
        PROVE  CallSized(h, e)'
    <3>1. k \in 1..Depth' /\ k + 1 \in 1..Depth' /\ k \in 1..Depth
      BY <2>2
    <3>2. CASE k = Depth
      BY <2>1, <2>2, <2>4, <3>2
    <3>3. CASE k # Depth
      <4>1. h = levels[k] /\ k \in 1..Depth - 1 /\ k + 1 # Depth + 1
        BY <2>2, <2>4, <3>1, <3>3
      <4>2. CASE k + 1 = Depth
        <5>1. e = f /\ k = Depth - 1 /\ Depth > 1 /\ Depth \in 1..Depth' /\ Depth' - 1 >= Depth - 1
          BY <2>2, <2>4, <3>1, <4>2
        <5> QED BY <1>4, <1>7, <2>1, <2>2, <2>4, <4>1, <5>1
      <4>3. CASE k + 1 # Depth
        BY <1>3, <1>7, <2>2, <2>4, <3>1, <4>1, <4>3
      <4> QED BY <4>2, <4>3
    <3> QED BY <3>2, <3>3
  <2>5. \A h \in FrameSet : Depth' > 0 /\ h = levels'[Depth'] => TopSized(h)'
    BY <2>1, <2>2
  <2> QED BY <2>3, <2>4, <2>5 DEF FramesInv
<1> QED BY <1>1, <1>5, <1>6, <1>7 DEF SizeMove

-----------------------------------------------------------------------------
(***************************************************************************)
(* Bases are settled by the visitor of classes, once and for all.          *)
(***************************************************************************)
LEMMA BaseMoves ==
    ASSUME DataInv, StackInv, ChainInv, StepEffect, NEW a \in Agg
    PROVE  /\ BaseKnown(a) => BaseKnown(a)' /\ baseClassOf'[a] = baseClassOf[a]
           /\ ClassBaseEffect /\ a = Top.of => BaseKnown(a)'
           /\ stack = <<>> \/ Top.proc # "semantic" \/ Top.of # a =>
                 /\ baseClassOf'[a] = baseClassOf[a] /\ baseOf'[a] = baseOf[a]
                 /\ baseokOf'[a] = baseokOf[a] /\ runOf'[a] = runOf[a]
<1>1. NoBase \notin Class
  BY NamesAssumption DEF Agg
<1>2. /\ baseClassOf = [b \in Agg |-> baseClassOf[b]] /\ baseOf = [b \in Agg |-> baseOf[b]]
      /\ baseokOf = [b \in Agg |-> baseokOf[b]] /\ runOf = [b \in Agg |-> runOf[b]]
  BY DEF baseClassOf, baseOf, baseokOf, runOf
<1>3. baseClassOf[a] \in {NoBase, baseOf[a]}
  BY DEF ChainInv
<1>4. ClassBaseEffect /\ a = Top.of => BaseKnown(a)'
  BY <1>1, <1>2 DEF ClassBaseEffect, BaseKnown
<1>5. CASE Aside
  BY <1>4, <1>5 DEF Aside, RunSame, BaseKnown
<1>6. CASE SemanticEffect
  <2>1. stack # <<>> /\ Top.proc = "semantic" /\ Top.of \in Agg /\ (a # Top.of => runOf'[a] = runOf[a])
    BY <1>6, SemanticTouches
  <2>2. CASE UNCHANGED <<baseClassOf, baseOf>>
    <3>1. a # Top.of => baseokOf'[a] = baseokOf[a]
      BY <1>2, <1>6, <2>1 DEF SemanticEffect, SemanticAtOnceEffect, SemanticEnterEffect, ClassBaseEffect,
         ClassBasedEffect, ClassAncestorsEffect, SemanticMemberEffect, SemanticMembersDoneEffect,
         SemanticNoFieldsEffect, SemanticDeferEffect, SemanticDoneEffect, Kept, AggSame, RunSame
    <3> QED BY <1>4, <2>1, <2>2, <3>1 DEF BaseKnown
  <2>3. CASE ClassBaseEffect
    <3>1. a # Top.of => baseokOf'[a] = baseokOf[a] /\ baseOf'[a] = baseOf[a] /\ baseClassOf'[a] = baseClassOf[a]
      BY <1>2, <2>3 DEF ClassBaseEffect
    <3>2. a = Top.of /\ BaseKnown(a) => baseClassOf'[a] = baseClassOf[a]
      BY <1>1, <1>2, <1>3, <2>3 DEF ClassBaseEffect, BaseKnown
    <3> QED BY <1>4, <2>1, <2>3, <3>1, <3>2 DEF BaseKnown
  <2>4. UNCHANGED <<baseClassOf, baseOf>> \/ ClassBaseEffect
    BY <1>6 DEF SemanticEffect, SemanticAtOnceEffect, SemanticEnterEffect, ClassBasedEffect,
       ClassAncestorsEffect, SemanticMemberEffect, SemanticMembersDoneEffect, SemanticNoFieldsEffect,
       SemanticDeferEffect, SemanticDoneEffect, Kept, AggSame, RunSame
  <2> QED BY <2>2, <2>3, <2>4
<1> QED BY <1>5, <1>6, StepKinds

\* A class that is past the choice of its base class knows it.
LEMMA StepBases ==
    ASSUME DataInv, StackInv, ChainInv, ActiveInv, BaseInv, StepEffect, NEW a \in Agg
    PROVE  BaseFound(a)'
<1>1. BaseFound(a)
  BY DEF BaseInv
<1>2. CASE stack = <<>> \/ Top.proc # "semantic" \/ Top.of # a
  <2>1. ~Choosing(a)
    BY <1>2, EmptyStack, TopFacts DEF Choosing, StackInv
  <2> QED BY <1>1, <1>2, <2>1, BaseMoves DEF BaseFound
<1>3. CASE stack # <<>> /\ Top.proc = "semantic" /\ Top.of = a
  <2>1. SemanticEffect
    BY <1>3, StepKinds DEF Aside
  <2>2. Depth \in Nat \ {0} /\ Top = levels[Depth] /\ Depth \in 1..Depth
    BY <1>3, TopFacts
  <2>3. Top.pc # "base" => ~Choosing(a)
    BY <2>2 DEF Choosing
  <2>4. Top.pc # "enter" => runOf[a] # "init"
    BY <1>3, <2>2 DEF ActiveInv
  <2>5. ASSUME BaseKnown(a) PROVE BaseFound(a)'
    BY <2>5, BaseMoves DEF BaseFound
  <2>6. CASE ClassBaseEffect
    BY <1>3, <2>6, BaseMoves DEF BaseFound
  <2>7. CASE Top.pc \notin {"enter", "base"}
    BY <1>1, <2>3, <2>4, <2>5, <2>7 DEF BaseFound
  <2>8. CASE SemanticAtOnceEffect
    <3>1. Top.pc = "enter" /\ runOf[a] # "init"
      BY <1>3, <2>8 DEF SemanticAtOnceEffect, At
    <3> QED BY <1>1, <2>3, <2>5, <3>1 DEF BaseFound
  <2>9. CASE SemanticEnterEffect
    <3>1. PICK f : f = levels'[Depth]
      OBVIOUS
    <3>2. /\ WentOn(f) /\ f.proc = "semantic" /\ f.of = a
          /\ f.pc = IF a \in Struct THEN "members"
                    ELSE IF baseokOf[a] \in {"none", "start"} THEN "base" ELSE "ancestors"
      BY <1>3, <2>9, <3>1 DEF SemanticEnterEffect
    <3>3. CASE a \in Struct
      <4>1. BaseKnown(a)
        BY <3>3 DEF ChainInv, BaseKnown
      <4> QED BY <2>5, <4>1
    <3>4. CASE baseokOf[a] \notin {"none", "start"}
      BY <1>1, <2>5, <3>4 DEF BaseFound
    <3>5. CASE a \notin Struct /\ baseokOf[a] \in {"none", "start"}
      <4>1. Depth' = Depth /\ levels'[Depth] = f /\ f.pc = "base"
        BY <3>2, <3>5 DEF WentOn
      <4>2. Choosing(a)'
        BY <2>2, <3>2, <4>1 DEF Choosing
      <4>3. baseokOf'[a] = baseokOf[a]
        BY <2>9 DEF SemanticEnterEffect
      <4> QED BY <3>5, <4>2, <4>3 DEF BaseFound
    <3> QED BY <3>3, <3>4, <3>5
  <2>10. \/ SemanticAtOnceEffect \/ SemanticEnterEffect \/ ClassBaseEffect \/ Top.pc \notin {"enter", "base"}
    BY <2>1 DEF SemanticEffect, ClassBasedEffect, ClassAncestorsEffect, SemanticMemberEffect,
       SemanticMembersDoneEffect, SemanticNoFieldsEffect, SemanticDeferEffect, SemanticDoneEffect, At
  <2> QED BY <2>6, <2>7, <2>8, <2>9, <2>10
<1> QED BY <1>2, <1>3

\* What the steps of other calls than the inner ones leave to the innermost call.
LEMMA OuterMove ==
    ASSUME StackInv, StackInv', ActiveInv, Grows, StepEffect,
           stack # <<>> => Top.proc \notin InnerProcs
    PROVE  SizeMove
<1>1. ~InnerEffect
  BY DEF InnerEffect
<1>2. CASE stack = <<>>
  <2>1. Depth' = 0 \/ (Depth' = 1 /\ levels'[1].proc = "runDeferred")
    BY <1>2, StepShape DEF Shape
  <2>2. \A k \in 1..Depth' : levels'[k].proc = "runDeferred" /\ k = 1
    <3>1. ASSUME Depth' = 0 PROVE \A k \in 1..Depth' : FALSE
      BY <3>1
    <3>2. ASSUME Depth' = 1 PROVE \A k \in 1..Depth' : k = 1
      BY <3>2
    <3> QED BY <2>1, <3>1, <3>2
  <2> QED BY <1>2, <2>2 DEF SizeMove
<1>3. CASE stack # <<>> /\ Popped
  <2> SUFFICES ASSUME NEW f \in FrameSet, Depth > 1, f = levels[Depth - 1] PROVE TopSized(f)'
    BY <1>3 DEF SizeMove
  <2>1. /\ Waits(f, Top, program) /\ Depth \in Nat \ {0} /\ Top = levels[Depth] /\ Top \in FrameSet
        /\ Depth \in 1..Depth
    BY <1>3, TopFacts
  <2>2. Top.proc \in {"module", "runDeferred", "semantic"}
    BY <1>3, <2>1 DEF FrameSet, Procs, InnerProcs
  <2>3. /\ f.proc # "finalizeSize"
        /\ f.proc = "determineSize" => f.pc = "base" /\ Top.proc = "semantic" /\ f.of = Top.of
    BY <2>1, <2>2 DEF Waits
  <2>4. ASSUME Top.proc = "semantic" PROVE runOf'[Top.of] # "init"
    <3>1. Top.of \in Agg /\ SemanticEffect
      BY <1>3, <2>4, TopAgg, StepKinds DEF Aside
    <3>2. CASE Top.pc # "enter"
      BY <2>1, <2>4, <3>1, <3>2 DEF ActiveInv, Grows
    <3>3. CASE SemanticAtOnceEffect
      BY <3>1, <3>3 DEF SemanticAtOnceEffect, Grows
    <3>4. CASE SemanticEnterEffect
      BY <1>3, <2>1, <3>4 DEF SemanticEnterEffect, WentOn, Popped
    <3>5. SemanticAtOnceEffect \/ SemanticEnterEffect \/ Top.pc # "enter"
      BY <3>1 DEF SemanticEffect, ClassBaseEffect, ClassBasedEffect, ClassAncestorsEffect,
         SemanticMemberEffect, SemanticMembersDoneEffect, SemanticNoFieldsEffect, SemanticDeferEffect,
         SemanticDoneEffect, At
    <3> QED BY <3>2, <3>3, <3>4, <3>5
  <2> QED BY <2>3, <2>4 DEF TopSized
<1>4. CASE stack # <<>> /\ \E f : WentOn(f) /\ f.proc = Top.proc
  <2>1. PICK f : WentOn(f) /\ f.proc = Top.proc
    BY <1>4
  <2>2. f.proc \notin InnerProcs
    BY <1>4, <2>1
  <2>3. SizeFrame(f)' /\ TopSized(f)' /\ f.proc # "determineSize"
    BY <2>2 DEF SizeFrame, TopSized, InnerProcs
  <2> QED BY <1>4, <2>1, <2>3 DEF SizeMove
<1>5. CASE stack # <<>> /\ \E f, g : Called(f, g) /\ f.proc = Top.proc /\ g.pc = "enter"
  <2>1. PICK f, g : Called(f, g) /\ f.proc = Top.proc /\ g.pc = "enter"
    BY <1>5
  <2>2. f.proc \notin InnerProcs
    BY <1>5, <2>1
  <2>3. Waits(f, g, program')
    <3>1. Depth \in Nat \ {0} /\ Depth' = Depth + 1 /\ levels'[Depth] = f /\ levels'[Depth + 1] = g
      BY <1>5, <2>1, TopFacts DEF Called
    <3>2. Depth \in 1..Depth' - 1
      BY <3>1
    <3>3. Waits(levels'[Depth], levels'[Depth + 1], program')
      BY <3>2 DEF StackInv
    <3> QED BY <3>1, <3>3
  <2>4. g.proc # "finalizeSize"
    BY <2>2, <2>3 DEF Waits, InnerProcs
  <2>5. SizeFrame(f)' /\ f.proc # "determineSize" /\ CallSized(f, g)'
    BY <2>2 DEF SizeFrame, CallSized, InnerProcs
  <2>6. SizeFrame(g)' /\ TopSized(g)'
    BY <2>1, <2>4 DEF SizeFrame, TopSized
  <2> QED BY <1>5, <2>1, <2>5, <2>6 DEF SizeMove
<1> QED BY <1>2, <1>3, <1>4, <1>5, StepShape DEF Shape

\* The steps of the other calls change no variable and no size.
LEMMA OuterKeeps ==
    ASSUME DataInv, StackInv, StepEffect, Step, ~InnerStep
    PROVE  /\ program' = program /\ VarSame /\ sizeokOf' = sizeokOf
           /\ stack # <<>> => Top.proc \notin InnerProcs
<1>1. program' = program /\ (stack # <<>> => Top.proc \notin InnerProcs)
  BY DEF Step, InnerStep, InnerProcs, At, ModuleMember, ModuleMemberDone, RunDeferredAtOnce, RunDeferredEnter,
     RunDeferredSymbol, RunDeferredRoundDone, SemanticAtOnce, SemanticEnter, ClassBase, ClassBased,
     ClassAncestors, SemanticMember, SemanticMembersDone, SemanticNoFields, SemanticDefer, SemanticDone,
     LastTry, ReportUnresolved
<1>2. sizeokOf' = sizeokOf
  BY <1>1 DEF StepEffect, InnerEffect, ModuleMemberEffect, ModuleMemberDoneEffect,
     RunDeferredAtOnceEffect, RunDeferredEnterEffect, RunDeferredSymbolEffect, RunDeferredRoundDoneEffect,
     RoundBegun, SemanticAtOnceEffect, SemanticEnterEffect, ClassBaseEffect, ClassBasedEffect, ClassAncestorsEffect,
     SemanticMemberEffect, SemanticMembersDoneEffect, SemanticNoFieldsEffect, SemanticDeferEffect,
     SemanticDoneEffect, LastTryEffect, ReportUnresolvedEffect, Quiet, Kept, AggSame
<1>3. VarInv
  BY DataParts
<1>4. VarSame
  <2>1. CASE SemanticEnter
    BY <2>1, SemanticEnterCore
  <2>2. CASE ClassAncestors
    <3>1. Top.of \in Agg
      BY <2>2, SemanticTop DEF ClassAncestors
    <3>2. CASE var' = var
      BY <1>1, <1>3, <3>2, SameVar
    <3>3. CASE DeclareMembers(Top.of)
      BY <1>1, <1>3, <3>1, <3>3, DeclareVars DEF DeclareMembers
    <3> QED BY <2>2, <3>2, <3>3 DEF ClassAncestors
  <2>3. CASE ~SemanticEnter /\ ~ClassAncestors
    <3>1. var' = var
      BY <2>3 DEF Step, InnerStep, ModuleMember, ModuleMemberDone, RunDeferredAtOnce, RunDeferredEnter,
         RunDeferredSymbol, RunDeferredRoundDone, SemanticAtOnce, ClassBase, ClassBased,
         SemanticMember, SemanticMembersDone, SemanticNoFields, SemanticDefer, SemanticDone,
         LastTry, ReportUnresolved
    <3> QED BY <1>1, <1>3, <3>1, SameVar
  <2> QED BY <2>1, <2>2, <2>3
<1> QED BY <1>1, <1>2, <1>4

\* What a step has to leave behind, besides what bases and calls need.
SizeKept ==
    /\ program' = program
    /\ \A a \in Agg :
         /\ sizeokOf[a] = "done" => sizeokOf'[a] = "done"
         /\ sizeokOf[a] # "none" => sizeokOf'[a] # "none"
         /\ \A j \in DOMAIN Members(a) : Refused(a, j) => Refused(a, j)'
         /\ sizeokOf[a] = "none" /\ sizeokOf'[a] # "none" => \A j \in DOMAIN Members(a) : Refused(a, j)'

LEMMA OuterSizes ==
    ASSUME DataInv, StackInv, StackInv', ActiveInv, Grows, StepEffect, Step, ~InnerStep
    PROVE  SizeKept /\ SizeMove
<1>1. /\ program' = program /\ VarSame /\ sizeokOf' = sizeokOf
      /\ stack # <<>> => Top.proc \notin InnerProcs
  BY OuterKeeps
<1>2. SizeMove
  BY <1>1, OuterMove
<1>3. \A a \in Agg : \A j \in DOMAIN Members(a) : Refused(a, j) => Refused(a, j)'
  BY <1>1 DEF VarSame, Refused, Itself, Members
<1> QED BY <1>1, <1>2, <1>3 DEF SizeKept

\* Together they keep the invariant.
LEMMA SizesKept ==
    ASSUME Consistent, Consistent', SizeInv, StepEffect, SizeKept, SizeMove
    PROVE  SizeInv'
<1>1. DataInv /\ StackInv /\ StackInv' /\ ChainInv /\ ActiveInv
  BY DEF Consistent
<1>2. BaseInv'
  <2>1. \A a \in Agg : BaseFound(a)'
    BY <1>1, StepBases DEF SizeInv
  <2> QED BY <2>1 DEF BaseInv
<1>3. SelfInv'
  <2> SUFFICES ASSUME NEW a \in Agg, sizeokOf'[a] # "none", NEW j \in DOMAIN Members(a)'
               PROVE  Refused(a, j)'
    BY DEF SelfInv
  <2>1. j \in DOMAIN Members(a)
    BY DEF SizeKept, Members
  <2>2. CASE sizeokOf[a] # "none"
    BY <2>1, <2>2 DEF SizeInv, SelfInv, SizeKept
  <2>3. CASE sizeokOf[a] = "none"
    BY <2>1, <2>3 DEF SizeKept
  <2> QED BY <2>2, <2>3
<1>4. Lasting
  <2>1. \A a \in Agg : BaseKnown(a) => BaseKnown(a)' /\ baseClassOf'[a] = baseClassOf[a]
    BY <1>1, BaseMoves
  <2> QED BY <2>1 DEF SizeKept, Lasting
<1>5. FramesInv'
  BY <1>1, <1>4, FramesKept DEF SizeInv
<1> QED BY <1>2, <1>3, <1>5 DEF SizeInv

-----------------------------------------------------------------------------
(***************************************************************************)
(* The steps of the inner calls.                                           *)
(***************************************************************************)

\* The innermost call goes on at pc.
Onward(f, pc) == f.proc = Top.proc /\ f.of = Top.of /\ f.pc = pc

LEMMA Goes ==
    ASSUME StackInv, stack # <<>>, NEW pc \in Pcs
    PROVE  /\ Continue(Goto(pc)) => \E f : WentOn(f) /\ Onward(f, pc)
           /\ \A g \in FrameSet : Call(Goto(pc), g) =>
                \E f, h : Called(f, h) /\ Onward(f, pc) /\ h.proc = g.proc /\ h.of = g.of /\ h.pc = g.pc
<1>1. Goto(pc) \in FrameSet /\ Onward(Goto(pc), pc)
  BY TopFacts, GotoIs DEF Onward
<1>2. stack \in Seq(FrameSet)
  BY DEF StackInv
<1> DEFINE t == Goto(pc)
<1> HIDE DEF t
<1>3. t \in FrameSet /\ Onward(t, pc)
  BY <1>1 DEF t
<1>4. Continue(t) => \E f : WentOn(f) /\ Onward(f, pc)
  BY <1>2, <1>3, ContinueShape DEF Continue
<1>5. \A g \in FrameSet : Call(t, g) =>
         \E f, h : Called(f, h) /\ Onward(f, pc) /\ h.proc = g.proc /\ h.of = g.of /\ h.pc = g.pc
  BY <1>2, <1>3, CallShape DEF Call
<1> QED BY <1>4, <1>5 DEF t

LEMMA GoesToMember ==
    ASSUME StackInv, stack # <<>>, NEW pc \in Pcs, NEW i \in Nat
    PROVE  /\ Continue(GotoMember(pc, i)) => \E f : WentOn(f) /\ Onward(f, pc) /\ f.i = i
           /\ \A g \in FrameSet : Call(GotoMember(pc, i), g) =>
                \E f, h : /\ Called(f, h) /\ Onward(f, pc) /\ f.i = i
                          /\ h.proc = g.proc /\ h.of = g.of /\ h.pc = g.pc
<1>1. GotoMember(pc, i) \in FrameSet /\ Onward(GotoMember(pc, i), pc) /\ GotoMember(pc, i).i = i
  BY TopFacts, GotoIs DEF Onward
<1>2. stack \in Seq(FrameSet)
  BY DEF StackInv
<1> DEFINE t == GotoMember(pc, i)
<1> HIDE DEF t
<1>3. t \in FrameSet /\ Onward(t, pc) /\ t.i = i
  BY <1>1 DEF t
<1>4. Continue(t) => \E f : WentOn(f) /\ Onward(f, pc) /\ f.i = i
  BY <1>2, <1>3, ContinueShape DEF Continue
<1>5. \A g \in FrameSet : Call(t, g) =>
         \E f, h : /\ Called(f, h) /\ Onward(f, pc) /\ f.i = i
                   /\ h.proc = g.proc /\ h.of = g.of /\ h.pc = g.pc
  BY <1>2, <1>3, CallShape DEF Call
<1> QED BY <1>4, <1>5 DEF t

\* What the innermost call knows before the step.
LEMMA TopKnows ==
    ASSUME StackInv, FramesInv, stack # <<>>
    PROVE  SizeFrame(Top) /\ TopSized(Top)
<1>1. Depth \in Nat \ {0} /\ Top = levels[Depth] /\ Top \in FrameSet /\ Depth \in 1..Depth
  BY TopFacts
<1>2. PICK f \in FrameSet : f = Top
  BY <1>1
<1>3. SizeFrame(f) /\ TopSized(f)
  BY <1>1, <1>2 DEF FramesInv
<1> QED BY <1>2, <1>3

\* The answers of the inner calls, as those who wait for them need them.
LEMMA Answers ==
    ASSUME StackInv, FramesInv, stack # <<>>, Top.proc \in InnerProcs, Popped, RunSame,
           Top.proc = "determineSize" /\ ret' => sizeokOf'[Top.of] = "done",
           Top.proc = "determineFields" /\ ret' => sizeokOf'[Top.of] # "none"
    PROVE  SizeMove
<1> SUFFICES ASSUME NEW f \in FrameSet, Depth > 1, f = levels[Depth - 1] PROVE TopSized(f)'
  BY DEF SizeMove
<1>1. /\ Waits(f, Top, program) /\ Depth \in Nat \ {0} /\ Top = levels[Depth] /\ Top \in FrameSet
      /\ Depth - 1 \in 1..Depth - 1 /\ (Depth - 1) + 1 = Depth
  BY TopFacts
<1>2. CallSized(f, Top)
  <2>1. PICK g \in FrameSet : g = Top
    BY <1>1
  <2> QED BY <1>1, <2>1 DEF FramesInv
<1>3. /\ f.proc # "finalizeSize" \/ f.pc = "sized"
      /\ f.proc = "determineSize" => f.pc # "base"
      /\ f.proc = "determineSize" /\ f.pc = "based" =>
            Top.proc = "determineSize" /\ Top.of = baseClassOf[f.of]
      /\ f.proc = "determineSize" /\ f.pc = "fields" => Top.proc = "determineFields" /\ Top.of = f.of
  BY <1>1, <1>2 DEF Waits, InnerProcs, CallSized
<1> QED BY <1>3 DEF TopSized, RunSame

\* Where sizes stay and no field that was refused is touched.
LEMMA SameSizes ==
    ASSUME program' = program, sizeokOf' = sizeokOf,
           \A a \in Agg : \A j \in DOMAIN Members(a) : Refused(a, j) => Refused(a, j)'
    PROVE  SizeKept
  BY DEF SizeKept

LEMMA SameFields ==
    ASSUME program' = program, UNCHANGED <<doneOf, badOf>>
    PROVE  \A a \in Agg : \A j \in DOMAIN Members(a) : Refused(a, j) => Refused(a, j)'
  BY DEF Refused, Itself, Members

LEMMA OtherFields ==
    ASSUME program' = program, NEW b \in Agg, NEW j \in DOMAIN Members(b), NEW run, NEW bad \in BOOLEAN,
           VarBecame(b, j, run, bad), ~(Refused(b, j) /\ Itself(b, j))
    PROVE  \A a \in Agg : \A i \in DOMAIN Members(a) : Refused(a, i) => Refused(a, i)'
<1> SUFFICES ASSUME NEW a \in Agg, NEW i \in DOMAIN Members(a), Refused(a, i) PROVE Refused(a, i)'
  OBVIOUS
<1>1. Itself(a, i)' <=> Itself(a, i)
  BY DEF Itself, Members
<1>2. ASSUME Itself(a, i) PROVE i \in doneOf'[a] /\ i \in badOf'[a]
  <2>1. i \in doneOf[a] /\ i \in badOf[a]
    BY <1>2 DEF Refused
  <2>2. a # b \/ i # j
    BY <1>2
  <2>3. CASE a # b
    BY <2>1, <2>3 DEF VarBecame
  <2>4. CASE a = b /\ i # j
    BY <2>1, <2>4 DEF VarBecame
  <2> QED BY <2>2, <2>3, <2>4
<1> QED BY <1>1, <1>2 DEF Refused

\* A step that writes nothing.
LEMMA SameSize ==
    ASSUME DataInv, program' = program, agg' = agg, var' = var
    PROVE  SizeKept /\ AggSame /\ VarSame
<1>1. AggSame /\ VarSame
  BY SameAgg, SameVar, DataParts
<1>2. \A a \in Agg : \A j \in DOMAIN Members(a) : Refused(a, j) => Refused(a, j)'
  BY <1>1, SameFields DEF VarSame
<1> QED BY <1>1, <1>2, SameSizes DEF AggSame

LEMMA InnerRuns ==
    ASSUME Consistent, InnerStep
    PROVE  RunSame /\ stack # <<>> /\ Top.proc \in InnerProcs /\ Top.of \in Agg /\ Top \in FrameSet
           /\ DataInv /\ StackInv /\ program' = program
<1>1. InnerEffect /\ DataInv /\ StackInv
  BY InnerCore DEF Consistent, BlameInv
<1>2. stack # <<>> /\ Top.proc \in InnerProcs
  BY <1>1 DEF InnerEffect
<1> QED BY <1>1, <1>2, TopAgg, TopFacts DEF InnerEffect, InnerProcs

\* A call that returns has answered; a call that fails has answered FALSE.
LEMMA Answer ==
    ASSUME Consistent, SizeInv, InnerStep, stack' = Tail(stack),
           Top.proc = "determineSize" /\ ret' => sizeokOf'[Top.of] = "done",
           Top.proc = "determineFields" /\ ret' => sizeokOf'[Top.of] # "none"
    PROVE  SizeMove
<1>1. /\ RunSame /\ stack # <<>> /\ Top.proc \in InnerProcs /\ StackInv /\ FramesInv
      /\ stack \in Seq(FrameSet)
  BY InnerRuns DEF SizeInv, StackInv
<1>2. Popped
  BY <1>1, ReturnShape
<1> QED BY <1>1, <1>2, Answers

LEMMA TypedSizes ==
    ASSUME Consistent, SizeInv, InnerStep, Top.proc = "variable", Return, NEW bad \in BOOLEAN,
           NEW reported \in Nat, Typed(Top.of, Top.i, bad, reported), agg' = agg,
           UNCHANGED <<started, deferred, dprogress, nested, ret, phase>>,
           ~(Refused(Top.of, Top.i) /\ Itself(Top.of, Top.i))
    PROVE  SizeKept /\ SizeMove
<1>1. /\ stack # <<>> /\ Top.of \in Agg /\ DataInv /\ StackInv /\ program' = program
  BY InnerRuns
<1>2. Top.i \in DOMAIN Members(Top.of)
  BY <1>1, TopFacts DEF FrameOK, Members
<1>3. AggSame /\ VarBecame(Top.of, Top.i, "done", bad)
  BY <1>1, <1>2, TypedCore
<1>4. \A a \in Agg : \A j \in DOMAIN Members(a) : Refused(a, j) => Refused(a, j)'
  BY <1>1, <1>2, <1>3, OtherFields
<1>5. SizeKept
  BY <1>1, <1>3, <1>4, SameSizes DEF AggSame
<1>6. SizeMove
  BY Answer DEF Return
<1> QED BY <1>5, <1>6

LEMMA VariableSizes ==
    ASSUME Consistent, SizeInv,
           VariableAtOnce \/ VariableOfStruct \/ VariableOfSize \/ VariableSized
    PROVE  SizeKept /\ SizeMove
<1> DEFINE a == Top.of
           i == Top.i
<1>1. /\ InnerStep /\ RunSame /\ stack # <<>> /\ a \in Agg /\ Top \in FrameSet
      /\ DataInv /\ StackInv /\ program' = program /\ program \in Programs
  BY InnerRuns DEF InnerStep, DataInv
<1>2. Top.proc = "variable"
  BY DEF VariableAtOnce, VariableOfStruct, VariableOfSize, VariableSized, At
<1>3. /\ i \in DOMAIN Members(a) /\ Members(a)[i].kind # Import
      /\ Top.pc = "sized" => Members(a)[i].kind # "field"
  BY <1>1, <1>2, TopFacts DEF FrameOK, Members
<1>4. Members(a)[i].kind # "field" => ~Itself(a, i)
  <2>1. ASSUME Itself(a, i) PROVE Members(a)[i].kind = "field"
    BY <2>1 DEF Itself
  <2> QED BY <2>1
<1>5. /\ i \in doneOf[a] <=> var[a][i].semanticRun = "done"
      /\ i \in badOf[a] <=> var[a][i].terror
      /\ var[a][i] \in VarSet
  BY <1>1, <1>3, VarFacts, DataParts
<1>6. Members(a)[i].of \in Agg /\ agg[Members(a)[i].of].terror \in BOOLEAN
  <2>1. Members(a)[i].of \in Agg
    BY <1>1, <1>3, ProgramFacts
  <2>2. agg[Members(a)[i].of] \in AggSet
    BY <1>1, <2>1, AggFields DEF DataInv
  <2> QED BY <2>1, <2>2 DEF AggSet
<1>7. CASE VariableAtOnce
  <2>1. agg' = agg /\ var' = var /\ stack' = Tail(stack)
    BY <1>7 DEF VariableAtOnce, Return
  <2> QED BY <1>1, <1>2, <2>1, SameSize, Answer
<1>8. CASE VariableOfStruct
  <2>1. i \notin doneOf[a]
    BY <1>5, <1>8 DEF VariableOfStruct
  <2>2. ~(Refused(a, i) /\ Itself(a, i))
    BY <2>1 DEF Refused
  <2>3. /\ Typed(a, i, agg[Members(a)[i].of].terror, 0) /\ agg' = agg /\ Return
        /\ UNCHANGED <<started, deferred, dprogress, nested, ret, phase>>
    BY <1>8 DEF VariableOfStruct, Return
  <2> QED BY <1>1, <1>2, <1>6, <2>2, <2>3, TypedSizes
<1>9. CASE VariableSized
  <2>1. Top.pc = "sized"
    BY <1>9 DEF VariableSized, At
  <2>2. ~(Refused(a, i) /\ Itself(a, i))
    BY <1>3, <1>4, <2>1
  <2>3. \E bad \in BOOLEAN, reported \in Nat : Typed(a, i, bad, reported)
    <3> DEFINE s == Members(a)[i].of
               wrong == IF s \in Class THEN agg[s].sizeok # "done" ELSE ~ret
    <3>1. Typed(a, i, wrong, IF s \in Class /\ wrong THEN 1 ELSE 0)
      BY <1>9 DEF VariableSized
    <3>2. wrong \in BOOLEAN /\ (IF s \in Class /\ wrong THEN 1 ELSE 0) \in Nat
      BY <1>1 DEF DataInv
    <3> HIDE DEF wrong, s
    <3> QED BY <3>1, <3>2
  <2>4. PICK bad \in BOOLEAN, reported \in Nat : Typed(a, i, bad, reported)
    BY <2>3
  <2>5. agg' = agg /\ Return /\ UNCHANGED <<started, deferred, dprogress, nested, ret, phase>>
    BY <1>9 DEF VariableSized, Return
  <2> QED BY <1>1, <1>2, <2>2, <2>4, <2>5, TypedSizes
<1>10. CASE VariableOfSize
  <2> DEFINE s == Members(a)[i].of
             v == [var[a][i] EXCEPT !.semanticRun = "semantic", !.scope = FALSE]
  <2>1. agg' = agg /\ Members(a)[i].kind # "field" /\ (Continue(Goto("sized")) \/ Call(Goto("sized"), DetermineSize(s)))
    BY <1>10 DEF VariableOfSize
  <2>2. v \in VarSet /\ v.terror \in BOOLEAN
    BY <1>5 DEF VarSet, Runs
  <2>3. var' = [var EXCEPT ![a] = [var[a] EXCEPT ![i] = v]]
    BY <1>1, <1>3, <1>5, <1>10, DataParts DEF VariableOfSize, VarInv
  <2>4. VarBecame(a, i, v.semanticRun, v.terror)
    <3> HIDE DEF v
    <3> QED BY <1>1, <1>3, <2>2, <2>3, SetVar, DataParts
  <2>5. SizeKept
    <3>1. \A b \in Agg : \A j \in DOMAIN Members(b) : Refused(b, j) => Refused(b, j)'
      <4> HIDE DEF v
      <4> QED BY <1>1, <1>3, <1>4, <2>1, <2>2, <2>4, OtherFields
    <3>2. sizeokOf' = sizeokOf
      BY <2>1, SameAgg DEF AggSame
    <3> QED BY <1>1, <3>1, <3>2, SameSizes
  <2>6. "sized" \in Pcs
    BY DEF Pcs
  <2>7. CASE Continue(Goto("sized"))
    <3>1. PICK f : WentOn(f) /\ Onward(f, "sized")
      BY <1>1, <2>6, <2>7, Goes
    <3>2. f.proc = "variable"
      BY <1>2, <3>1 DEF Onward
    <3>3. SizeFrame(f)' /\ TopSized(f)'
      BY <3>2 DEF SizeFrame, TopSized
    <3> QED BY <1>1, <2>5, <3>1, <3>2, <3>3 DEF SizeMove
  <2>8. CASE Call(Goto("sized"), DetermineSize(s))
    <3>1. DetermineSize(s) \in FrameSet /\ DetermineSize(s).proc = "determineSize" /\ DetermineSize(s).pc = "enter"
      BY <1>6, NewFrames
    <3>2. PICK f, h : Called(f, h) /\ Onward(f, "sized") /\ h.proc = "determineSize" /\ h.pc = "enter"
      <4> HIDE DEF s
      <4> QED BY <1>1, <2>6, <2>8, <3>1, Goes
    <3>3. f.proc = "variable"
      BY <1>2, <3>2 DEF Onward
    <3>4. SizeFrame(f)' /\ SizeFrame(h)' /\ CallSized(f, h)' /\ TopSized(h)'
      BY <3>2, <3>3 DEF SizeFrame, TopSized, CallSized
    <3> QED BY <1>1, <2>5, <3>2, <3>3, <3>4 DEF SizeMove
  <2> QED BY <2>1, <2>7, <2>8
<1> QED BY <1>7, <1>8, <1>9, <1>10

\* Only the size of the aggregate is written, or nothing of it.
LEMMA WritesSize ==
    ASSUME DataInv, program' = program, var' = var, NEW a \in Agg, agg' = [agg EXCEPT ![a] = agg'[a]],
           NEW ok, agg'[a].sizeok = ok,
           sizeokOf[a] = "done" => ok = "done", sizeokOf[a] # "none" => ok # "none",
           sizeokOf[a] = "none" /\ ok # "none" => \A j \in DOMAIN Members(a) : Refused(a, j)
    PROVE  SizeKept /\ sizeokOf'[a] = ok
<1>1. VarSame
  BY SameVar, DataParts
<1>2. \A b \in Agg : \A j \in DOMAIN Members(b) : Refused(b, j) => Refused(b, j)'
  BY <1>1, SameFields DEF VarSame
<1>3. \A b \in Agg : b # a => sizeokOf'[b] = sizeokOf[b]
  BY DEF DataInv, sizeokOf
<1>4. sizeokOf'[a] = ok
  BY DEF sizeokOf
<1>5. SizeKept
  <2> SUFFICES ASSUME NEW b \in Agg
               PROVE  /\ sizeokOf[b] = "done" => sizeokOf'[b] = "done"
                      /\ sizeokOf[b] # "none" => sizeokOf'[b] # "none"
                      /\ sizeokOf[b] = "none" /\ sizeokOf'[b] # "none" =>
                            \A j \in DOMAIN Members(b) : Refused(b, j)'
    BY <1>2 DEF SizeKept
  <2>1. CASE b = a
    BY <1>2, <1>4, <2>1
  <2>2. CASE b # a
    BY <1>3, <2>2
  <2> QED BY <2>1, <2>2
<1> QED BY <1>4, <1>5

LEMMA SizeFailed ==
    ASSUME Consistent, SizeInv, InnerStep, Top.proc = "determineSize", SizeFail, var' = var
    PROVE  SizeKept /\ SizeMove
<1>1. /\ Top.of \in Agg /\ DataInv /\ program' = program
  BY InnerRuns
<1>2. agg \in [Agg -> AggSet]
  BY <1>1 DEF DataInv
<1>3. agg' = [agg EXCEPT ![Top.of] = agg'[Top.of]] /\ agg'[Top.of].sizeok = sizeokOf[Top.of]
  BY <1>1, <1>2 DEF SizeFail, sizeokOf, AggSet
<1>4. SizeKept
  BY <1>1, <1>3, WritesSize
<1>5. SizeMove
  BY Answer DEF SizeFail, ReturnValue
<1> QED BY <1>4, <1>5

\* What the innermost call for a size knows of the base class of its aggregate.
LEMMA AskedBases ==
    ASSUME Consistent, SizeInv, InnerStep, Top.proc = "determineSize", NEW a \in Agg, a = Top.of
    PROVE  /\ Top.pc = "base" => BaseKnown(a)
           /\ BaseKnown(a) => BaseKnown(a)'
           /\ BaseSized(a) /\ sizeokOf' = sizeokOf => BaseSized(a)'
           /\ Top.pc = "based" => baseClassOf[a] # NoBase
           /\ Top.pc = "based" /\ ret => BaseSized(a)
           /\ Top.pc = "fields" => BaseSized(a)
           /\ Top.pc = "fields" /\ ret => sizeokOf[a] # "none"
<1>1. /\ RunSame /\ stack # <<>> /\ StackInv /\ FramesInv /\ BaseInv
  BY InnerRuns DEF SizeInv
<1>2. SizeFrame(Top) /\ TopSized(Top)
  BY <1>1, TopKnows
<1>3. ~Choosing(a)
  BY <1>1, TopFacts DEF Choosing
<1>4. Top.pc = "base" => BaseKnown(a)
  BY <1>1, <1>2, <1>3 DEF TopSized, BaseInv, BaseFound
<1>5. BaseKnown(a) => BaseKnown(a)'
  BY <1>1 DEF BaseKnown, RunSame
<1>6. BaseSized(a) /\ sizeokOf' = sizeokOf => BaseSized(a)'
  BY <1>1, <1>5 DEF BaseSized, RunSame
<1> QED BY <1>1, <1>2, <1>4, <1>5, <1>6 DEF SizeFrame, TopSized, BaseSized, BaseKnown

LEMMA SizeSizes ==
    ASSUME Consistent, SizeInv,
           SizeAtOnce \/ SizeEnter \/ SizeBase \/ SizeBased \/ SizeFields \/ SizeFinal
    PROVE  SizeKept /\ SizeMove
<1>1. /\ InnerStep /\ RunSame /\ stack # <<>> /\ Top.of \in Agg /\ Top \in FrameSet
      /\ DataInv /\ StackInv /\ program' = program
  BY InnerRuns DEF InnerStep
<1>2. Top.proc = "determineSize"
  BY DEF SizeAtOnce, SizeEnter, SizeBase, SizeBased, SizeFields, SizeFinal, At
<1>3. PICK a \in Agg : a = Top.of
  BY <1>1
<1>4. /\ agg[a] \in AggSet /\ sizeokOf[a] = agg[a].sizeok /\ terrorOf[a] = agg[a].terror
      /\ scopeOf[a] = agg[a].scope /\ baseClassOf[a] = agg[a].baseClass /\ runOf[a] = agg[a].semanticRun
  BY <1>1, AggFields DEF DataInv
<1>5. /\ Top.pc = "base" => BaseKnown(a)
      /\ BaseKnown(a) => BaseKnown(a)'
      /\ BaseSized(a) /\ sizeokOf' = sizeokOf => BaseSized(a)'
      /\ Top.pc = "based" => baseClassOf[a] # NoBase
      /\ Top.pc = "based" /\ ret => BaseSized(a)
      /\ Top.pc = "fields" => BaseSized(a)
      /\ Top.pc = "fields" /\ ret => sizeokOf[a] # "none"
  BY <1>1, <1>2, <1>3, AskedBases
<1>6. "base" \in Pcs /\ "based" \in Pcs /\ "fields" \in Pcs /\ "final" \in Pcs
  BY DEF Pcs
<1>7. agg' = agg /\ var' = var => SizeKept /\ sizeokOf' = sizeokOf
  BY <1>1, SameSize DEF AggSame
<1>8. SizeFail /\ var' = var => SizeKept /\ SizeMove
  BY <1>1, <1>2, SizeFailed
<1>9. CASE SizeAtOnce
  <2>1. agg' = agg /\ var' = var /\ stack' = Tail(stack) /\ (ret' => sizeokOf[a] = "done")
    BY <1>3, <1>4, <1>9 DEF SizeAtOnce, ReturnValue
  <2> QED BY <1>1, <1>2, <1>3, <1>7, <2>1, Answer
<1>10. CASE SizeEnter
  <2>1. agg' = agg /\ var' = var
    BY <1>10 DEF SizeEnter
  <2>2. CASE scopeOf[a]
    <3> DEFINE g == Semantic(a, FALSE)
    <3>1. Call(Goto("base"), g)
      BY <1>3, <1>4, <1>10, <2>2 DEF SizeEnter
    <3>2. g \in FrameSet /\ g.proc = "semantic"
      BY NewFrames
    <3> HIDE DEF g
    <3>3. PICK f, h : Called(f, h) /\ Onward(f, "base") /\ h.proc = "semantic"
      BY <1>1, <1>6, <3>1, <3>2, Goes
    <3>4. SizeFrame(f)' /\ SizeFrame(h)' /\ CallSized(f, h)' /\ TopSized(h)'
      BY <1>2, <3>3 DEF SizeFrame, TopSized, CallSized, Onward
    <3> QED BY <1>1, <1>7, <2>1, <3>3, <3>4 DEF SizeMove, Onward
  <2>3. CASE ~scopeOf[a]
    <3>1. Continue(Goto("base"))
      BY <1>3, <1>4, <1>10, <2>3 DEF SizeEnter
    <3>2. PICK f : WentOn(f) /\ Onward(f, "base")
      BY <1>1, <1>6, <3>1, Goes
    <3>3. runOf'[a] # "init"
      BY <1>1, <2>3 DEF Consistent, ScopeInv, ScopeKnown, RunSame
    <3>4. SizeFrame(f)' /\ TopSized(f)'
      BY <1>2, <1>3, <3>2, <3>3 DEF SizeFrame, TopSized, Onward
    <3> QED BY <1>1, <1>7, <2>1, <3>2, <3>4 DEF SizeMove, Onward
  <2> QED BY <2>2, <2>3
<1>11. CASE SizeBase
  <2>1. agg' = agg /\ var' = var /\ Top.pc = "base" /\ baseClassOf'[a] = baseClassOf[a]
    BY <1>1, <1>11 DEF SizeBase, At, RunSame
  <2>2. CASE baseClassOf[a] # NoBase
    <3>1. PICK b \in Agg : b = baseClassOf[a]
      BY <1>1, <2>2, BaseClasses
    <3>2. Call(Goto("based"), DetermineSize(b))
      BY <1>3, <1>4, <1>11, <2>2, <3>1 DEF SizeBase
    <3>3. /\ DetermineSize(b) \in FrameSet /\ DetermineSize(b).proc = "determineSize"
          /\ DetermineSize(b).of = b /\ DetermineSize(b).pc = "enter"
      BY NewFrames
    <3>4. PICK f, h : Called(f, h) /\ Onward(f, "based") /\ h.proc = "determineSize" /\ h.of = b /\ h.pc = "enter"
      BY <1>1, <1>6, <3>2, <3>3, Goes
    <3>5. f.of = a /\ f.proc = "determineSize" /\ f.pc = "based" /\ baseClassOf'[a] = b /\ b # NoBase
      BY <1>2, <1>3, <2>1, <2>2, <3>1, <3>4 DEF Onward
    <3>6. SizeFrame(f)' /\ SizeFrame(h)' /\ CallSized(f, h)' /\ TopSized(h)'
      BY <3>4, <3>5 DEF SizeFrame, TopSized, CallSized
    <3> QED BY <1>1, <1>3, <1>7, <2>1, <3>4, <3>5, <3>6 DEF SizeMove
  <2>3. CASE baseClassOf[a] = NoBase
    <3>1. Call(Goto("fields"), DetermineFields(a))
      BY <1>3, <1>4, <1>11, <2>3 DEF SizeBase
    <3>2. /\ DetermineFields(a) \in FrameSet /\ DetermineFields(a).proc = "determineFields"
          /\ DetermineFields(a).pc = "enter"
      BY NewFrames
    <3>3. PICK f, h : Called(f, h) /\ Onward(f, "fields") /\ h.proc = "determineFields" /\ h.pc = "enter"
      BY <1>1, <1>6, <3>1, <3>2, Goes
    <3>4. BaseSized(a)'
      BY <1>5, <1>7, <2>1, <2>3 DEF BaseSized
    <3>5. f.of = a /\ f.proc = "determineSize" /\ f.pc = "fields"
      BY <1>2, <1>3, <3>3 DEF Onward
    <3>6. SizeFrame(f)' /\ SizeFrame(h)' /\ CallSized(f, h)' /\ TopSized(h)'
      BY <3>3, <3>4, <3>5 DEF SizeFrame, TopSized, CallSized
    <3> QED BY <1>1, <1>3, <1>7, <2>1, <3>3, <3>5, <3>6 DEF SizeMove
  <2> QED BY <2>2, <2>3
<1>12. CASE SizeBased
  <2>1. Top.pc = "based" /\ var' = var
    BY <1>12 DEF SizeBased, At
  <2>2. CASE ret
    <3>1. Call(Goto("fields"), DetermineFields(a)) /\ agg' = agg
      BY <1>3, <1>12, <2>2 DEF SizeBased
    <3>2. /\ DetermineFields(a) \in FrameSet /\ DetermineFields(a).proc = "determineFields"
          /\ DetermineFields(a).pc = "enter"
      BY NewFrames
    <3>3. PICK f, h : Called(f, h) /\ Onward(f, "fields") /\ h.proc = "determineFields" /\ h.pc = "enter"
      BY <1>1, <1>6, <3>1, <3>2, Goes
    <3>4. BaseSized(a)'
      BY <1>5, <1>7, <2>1, <2>2, <3>1
    <3>5. f.of = a /\ f.proc = "determineSize" /\ f.pc = "fields"
      BY <1>2, <1>3, <3>3 DEF Onward
    <3>6. SizeFrame(f)' /\ SizeFrame(h)' /\ CallSized(f, h)' /\ TopSized(h)'
      BY <3>3, <3>4, <3>5 DEF SizeFrame, TopSized, CallSized
    <3> QED BY <1>1, <1>3, <1>7, <2>1, <3>1, <3>3, <3>5, <3>6 DEF SizeMove
  <2>3. CASE ~ret
    BY <1>8, <1>12, <2>1, <2>3 DEF SizeBased
  <2> QED BY <2>2, <2>3
<1>13. CASE SizeFields
  <2>1. Top.pc = "fields" /\ var' = var
    BY <1>13 DEF SizeFields, At
  <2>2. CASE ~ret
    BY <1>8, <1>13, <2>1, <2>2 DEF SizeFields
  <2>3. CASE ret /\ sizeokOf[a] # "done"
    <3>1. Call(Goto("final"), FinalizeSize(a)) /\ agg' = agg
      BY <1>3, <1>4, <1>13, <2>3 DEF SizeFields
    <3>2. /\ FinalizeSize(a) \in FrameSet /\ FinalizeSize(a).proc = "finalizeSize"
          /\ FinalizeSize(a).of = a /\ FinalizeSize(a).pc = "enter"
      BY NewFrames
    <3>3. PICK f, h : Called(f, h) /\ Onward(f, "final") /\ h.proc = "finalizeSize" /\ h.of = a /\ h.pc = "enter"
      BY <1>1, <1>6, <3>1, <3>2, Goes
    <3>4. sizeokOf'[a] # "none" /\ sizeokOf'[a] # "done" /\ BaseSized(a)'
      BY <1>5, <1>7, <2>1, <2>3, <3>1
    <3>5. f.of = a /\ f.proc = "determineSize" /\ f.pc = "final"
      BY <1>2, <1>3, <3>3 DEF Onward
    <3>6. SizeFrame(f)' /\ SizeFrame(h)' /\ CallSized(f, h)' /\ TopSized(h)'
      BY <3>3, <3>4, <3>5 DEF SizeFrame, TopSized, CallSized
    <3> QED BY <1>1, <1>3, <1>7, <2>1, <3>1, <3>3, <3>5, <3>6 DEF SizeMove
  <2>4. CASE ret /\ sizeokOf[a] = "done"
    <3>1. Continue(Goto("final")) /\ agg' = agg
      BY <1>3, <1>4, <1>13, <2>4 DEF SizeFields
    <3>2. PICK f : WentOn(f) /\ Onward(f, "final")
      BY <1>1, <1>6, <3>1, Goes
    <3>3. SizeFrame(f)' /\ TopSized(f)'
      BY <1>2, <3>2 DEF SizeFrame, TopSized, Onward
    <3> QED BY <1>1, <1>7, <2>1, <3>1, <3>2, <3>3 DEF SizeMove, Onward
  <2> QED BY <2>2, <2>3, <2>4
<1>14. CASE SizeFinal
  <2>1. var' = var
    BY <1>14 DEF SizeFinal
  <2>2. CASE SizeFail
    BY <1>8, <2>1, <2>2
  <2>3. CASE agg' = agg /\ stack' = Tail(stack) /\ (ret' => sizeokOf[a] = "done")
    BY <1>1, <1>2, <1>3, <1>7, <2>1, <2>3, Answer
  <2> QED BY <1>3, <1>4, <1>14, <2>2, <2>3 DEF SizeFinal, ReturnValue
<1> QED BY <1>9, <1>10, <1>11, <1>12, <1>13, <1>14

\* There is no field between a member and the next field.
LEMMA BeforeNext ==
    ASSUME program \in Programs, NEW a \in Agg, NEW i \in Nat \ {0}, NEW k \in DOMAIN Members(a), i <= k,
           NextField(a, i) = 0 \/ k < NextField(a, i)
    PROVE  ~Itself(a, k)
<1> DEFINE rest == {j \in i..Len(Members(a)) : IsField(a, j)}
<1>1. DOMAIN Members(a) = 1..Len(Members(a)) /\ Len(Members(a)) \in Nat
  BY ProgramFacts
<1>2. rest \in SUBSET Nat /\ 0 \notin rest
  BY <1>1
<1>3. Itself(a, k) => k \in rest
  BY <1>1 DEF Itself, IsField
<1>4. CASE rest = {}
  BY <1>3, <1>4
<1>5. CASE rest # {}
  <2> HIDE DEF rest
  <2>1. \E j \in rest : \A m \in rest : j <= m
    BY <1>2, <1>5, LeastOf
  <2>2. NextField(a, i) = CHOOSE j \in rest : \A m \in rest : j <= m
    BY <1>5 DEF NextField, rest
  <2>3. NextField(a, i) \in rest /\ \A m \in rest : NextField(a, i) <= m
    BY <2>1, <2>2
  <2>4. PICK n : n = NextField(a, i)
    OBVIOUS
  <2>5. n \in Nat /\ n # 0
    BY <1>2, <2>3, <2>4
  <2>6. k \in Nat
    BY <1>1
  <2>7. k < n
    BY <2>4, <2>5
  <2>8. k \notin rest
    BY <2>3, <2>4, <2>5, <2>6, <2>7
  <2> QED BY <1>3, <2>8
<1> QED BY <1>4, <1>5

LEMMA FieldsSizes ==
    ASSUME Consistent, SizeInv, FieldsEnter \/ FieldsStart \/ FieldsNext \/ FieldsPush
    PROVE  SizeKept /\ SizeMove
<1>1. /\ InnerStep /\ RunSame /\ stack # <<>> /\ Top.of \in Agg /\ Top \in FrameSet
      /\ DataInv /\ StackInv /\ program' = program /\ program \in Programs /\ FramesInv
  BY InnerRuns DEF InnerStep, DataInv, SizeInv
<1>2. Top.proc = "determineFields"
  BY DEF FieldsEnter, FieldsStart, FieldsNext, FieldsPush, At
<1>3. PICK a \in Agg : a = Top.of
  BY <1>1
<1>4. /\ agg[a] \in AggSet /\ sizeokOf[a] = agg[a].sizeok /\ terrorOf[a] = agg[a].terror
      /\ scopeOf[a] = agg[a].scope /\ agg \in [Agg -> AggSet]
  BY <1>1, AggFields DEF DataInv
<1>5. FrameOK(Top, program) /\ SizeFrame(Top)
  BY <1>1, TopFacts, TopKnows
<1>6. /\ Top.pc \in {"next", "push"} => \A j \in DOMAIN Members(a) : j < Top.i => Refused(a, j)
      /\ Top.pc = "next" => Top.i \in Nat \ {0}
      /\ Top.pc = "push" => Top.i \in DOMAIN Members(a)
      /\ DOMAIN Members(a) = 1..Len(Members(a)) /\ Len(Members(a)) \in Nat
  BY <1>1, <1>2, <1>3, <1>5, ProgramFacts DEF SizeFrame, FrameOK, Members
<1>7. "start" \in Pcs /\ "next" \in Pcs /\ "push" \in Pcs
  BY DEF Pcs
<1>8. agg' = agg /\ var' = var => SizeKept /\ sizeokOf' = sizeokOf /\ VarSame
  BY <1>1, SameSize DEF AggSame
<1>9. VarSame => \A b \in Agg : \A j \in DOMAIN Members(b) : Members(b)' = Members(b) /\ (Refused(b, j) => Refused(b, j)')
  BY <1>1, SameFields DEF VarSame, Members
<1>10. CASE FieldsEnter
  <2>1. agg' = agg /\ var' = var
    BY <1>10 DEF FieldsEnter
  <2>2. CASE scopeOf[a]
    <3> DEFINE g == Semantic(a, FALSE)
    <3>1. Call(Goto("start"), g)
      BY <1>3, <1>4, <1>10, <2>2 DEF FieldsEnter
    <3>2. g \in FrameSet /\ g.proc = "semantic"
      BY NewFrames
    <3> HIDE DEF g
    <3>3. PICK f, h : Called(f, h) /\ Onward(f, "start") /\ h.proc = "semantic"
      BY <1>1, <1>7, <3>1, <3>2, Goes
    <3>4. SizeFrame(f)' /\ SizeFrame(h)' /\ CallSized(f, h)' /\ TopSized(h)'
      BY <1>2, <3>3 DEF SizeFrame, TopSized, CallSized, Onward
    <3> QED BY <1>1, <1>8, <2>1, <3>3, <3>4 DEF SizeMove, Onward
  <2>3. CASE ~scopeOf[a]
    <3>1. Continue(Goto("start"))
      BY <1>3, <1>4, <1>10, <2>3 DEF FieldsEnter
    <3>2. PICK f : WentOn(f) /\ Onward(f, "start")
      BY <1>1, <1>7, <3>1, Goes
    <3>3. SizeFrame(f)' /\ TopSized(f)'
      BY <1>2, <3>2 DEF SizeFrame, TopSized, Onward
    <3> QED BY <1>1, <1>8, <2>1, <3>2, <3>3 DEF SizeMove, Onward
  <2> QED BY <2>2, <2>3
<1>11. CASE FieldsStart
  <2>1. var' = var
    BY <1>11 DEF FieldsStart
  <2>2. CASE sizeokOf[a] # "none"
    <3>1. agg' = agg /\ stack' = Tail(stack)
      BY <1>3, <1>4, <1>11, <2>2 DEF FieldsStart, ReturnValue
    <3> QED BY <1>1, <1>2, <1>3, <1>8, <2>1, <2>2, <3>1, Answer
  <2>3. CASE sizeokOf[a] = "none"
    <3>1. agg' = [agg EXCEPT ![a].fields = <<>>] /\ Continue(GotoMember("next", 1))
      BY <1>3, <1>4, <1>11, <2>3 DEF FieldsStart
    <3>2. agg' = [agg EXCEPT ![a] = agg'[a]] /\ agg'[a].sizeok = "none"
      BY <1>4, <2>3, <3>1 DEF AggSet
    <3>3. SizeKept
      BY <1>1, <2>1, <2>3, <3>2, WritesSize
    <3>4. PICK f : WentOn(f) /\ Onward(f, "next") /\ f.i = 1
      BY <1>1, <1>7, <3>1, GoesToMember
    <3>5. f.of = a /\ f.proc = "determineFields" /\ f.pc = "next"
      BY <1>2, <1>3, <3>4 DEF Onward
    <3>6. \A j \in DOMAIN Members(a)' : ~(j < f.i)
      BY <1>1, <1>6, <3>4 DEF Members
    <3>7. SizeFrame(f)' /\ TopSized(f)'
      BY <3>5, <3>6 DEF SizeFrame, TopSized
    <3> QED BY <1>1, <3>3, <3>4, <3>5, <3>7 DEF SizeMove
  <2> QED BY <2>2, <2>3
<1>12. CASE FieldsNext
  <2> DEFINE n == NextField(a, Top.i)
  <2>1. Top.pc = "next" /\ var' = var /\ VarSame
    BY <1>1, <1>12, SameVar, DataParts DEF FieldsNext, At
  <2>2. \A k \in DOMAIN Members(a) : n = 0 \/ k < n => Refused(a, k)
    <3> SUFFICES ASSUME NEW k \in DOMAIN Members(a), n = 0 \/ k < n PROVE Refused(a, k)
      OBVIOUS
    <3>1. CASE k < Top.i
      BY <1>6, <2>1, <3>1
    <3>2. CASE ~(k < Top.i)
      <4>1. Top.i <= k /\ Top.i \in Nat \ {0}
        BY <1>6, <2>1, <3>2
      <4>2. ~Itself(a, k)
        BY <1>1, <4>1, BeforeNext
      <4> QED BY <4>2 DEF Refused
    <3> QED BY <3>1, <3>2
  <2>3. n \in Nat
    BY <1>1, <1>6, <2>1, NextFieldIs
  <2>4. /\ n = 0 => /\ agg' = [agg EXCEPT ![a].sizeok = IF @ # "done" THEN "fwd" ELSE @]
                    /\ stack' = Tail(stack)
        /\ n # 0 => /\ agg' = agg
                    /\ Call(GotoMember("push", n), Variable(a, n, FALSE)) \/ Continue(GotoMember("push", n))
    BY <1>3, <1>12 DEF FieldsNext, ReturnValue
  <2> HIDE DEF n
  <2>5. CASE n = 0
    <3>1. /\ agg' = [agg EXCEPT ![a] = agg'[a]]
          /\ agg'[a].sizeok = IF sizeokOf[a] # "done" THEN "fwd" ELSE sizeokOf[a]
      BY <1>4, <2>4, <2>5 DEF AggSet
    <3>2. PICK ok : ok = agg'[a].sizeok
      OBVIOUS
    <3>3. SizeKept /\ sizeokOf'[a] = ok /\ ok # "none"
      BY <1>1, <2>1, <2>2, <2>5, <3>1, <3>2, WritesSize
    <3> QED BY <1>1, <1>2, <1>3, <2>4, <2>5, <3>3, Answer
  <2>6. CASE n # 0
    <3>1. agg' = agg /\ SizeKept
      BY <1>8, <2>1, <2>4, <2>6
    <3>2. ASSUME NEW f, Onward(f, "push"), f.i = n
          PROVE  SizeFrame(f)' /\ TopSized(f)' /\ f.proc # "determineSize"
      <4>1. f.of = a /\ f.proc = "determineFields" /\ f.pc = "push"
        BY <1>2, <1>3, <3>2 DEF Onward
      <4>2. \A j \in DOMAIN Members(a)' : j < f.i => Refused(a, j)'
        BY <1>1, <1>9, <2>1, <2>2, <3>2 DEF Members
      <4> QED BY <4>1, <4>2 DEF SizeFrame, TopSized
    <3>3. CASE Continue(GotoMember("push", n))
      <4>1. PICK f : WentOn(f) /\ Onward(f, "push") /\ f.i = n
        BY <1>1, <1>7, <2>3, <3>3, GoesToMember
      <4> QED BY <1>1, <3>1, <3>2, <4>1 DEF SizeMove
    <3>4. CASE Call(GotoMember("push", n), Variable(a, n, FALSE))
      <4> DEFINE g == Variable(a, n, FALSE)
      <4>1. g \in FrameSet /\ g.proc = "variable"
        BY <2>3, NewFrames
      <4>2. Call(GotoMember("push", n), g)
        BY <3>4
      <4> HIDE DEF g
      <4>3. PICK f, h : Called(f, h) /\ Onward(f, "push") /\ f.i = n /\ h.proc = "variable"
        BY <1>1, <1>7, <2>3, <4>1, <4>2, GoesToMember
      <4>4. SizeFrame(h)' /\ TopSized(h)' /\ CallSized(f, h)'
        BY <3>2, <4>3 DEF SizeFrame, TopSized, CallSized
      <4> QED BY <1>1, <3>1, <3>2, <4>3, <4>4 DEF SizeMove
    <3> QED BY <2>4, <2>6, <3>3, <3>4
  <2> QED BY <2>5, <2>6
<1>13. CASE FieldsPush
  <2> DEFINE i == Top.i
  <2>1. Top.pc = "push" /\ var' = var /\ VarSame /\ i \in DOMAIN Members(a)
    BY <1>1, <1>6, <1>13, SameVar, DataParts DEF FieldsPush, At
  <2>2. /\ i \in doneOf[a] <=> var[a][i].semanticRun = "done"
        /\ i \in badOf[a] <=> var[a][i].terror
    BY <1>1, <2>1, VarFacts, DataParts
  <2>3. CASE agg' = agg /\ stack' = Tail(stack) /\ ret' = (sizeokOf[a] # "none")
    BY <1>1, <1>2, <1>3, <1>8, <2>1, <2>3, Answer
  <2>4. CASE agg' = [agg EXCEPT ![a].fields = Append(@, i), ![a].terror = TRUE, ![a].errors = TRUE]
             /\ stack' = Tail(stack) /\ ret' = FALSE
    <3>1. agg' = [agg EXCEPT ![a] = agg'[a]] /\ agg'[a].sizeok = sizeokOf[a]
      BY <1>4, <2>4 DEF AggSet
    <3>2. PICK ok : ok = sizeokOf[a]
      OBVIOUS
    <3>3. SizeKept
      BY <1>1, <2>1, <3>1, <3>2, WritesSize
    <3> QED BY <1>1, <1>2, <2>4, <3>3, Answer
  <2>5. CASE /\ sizeokOf[a] = "none" /\ var[a][i].semanticRun = "done" /\ ~ContainsItself(a, i)
             /\ agg' = [agg EXCEPT ![a].fields = Append(@, i)]
             /\ Continue(GotoMember("next", i + 1))
    <3>1. agg' = [agg EXCEPT ![a] = agg'[a]] /\ agg'[a].sizeok = "none"
      BY <1>4, <2>5 DEF AggSet
    <3>2. SizeKept
      BY <1>1, <2>1, <2>5, <3>1, WritesSize
    <3>3. i + 1 \in Nat /\ i \in Nat
      BY <1>6, <2>1
    <3>4. PICK f : WentOn(f) /\ Onward(f, "next") /\ f.i = i + 1
      BY <1>1, <1>7, <2>5, <3>3, GoesToMember
    <3>5. f.of = a /\ f.proc = "determineFields" /\ f.pc = "next"
      BY <1>2, <1>3, <3>4 DEF Onward
    <3>6. Refused(a, i)
      BY <2>2, <2>5 DEF Refused, Itself, ContainsItself
    <3>7. \A j \in DOMAIN Members(a)' : j < f.i => Refused(a, j)'
      <4> SUFFICES ASSUME NEW j \in DOMAIN Members(a)', j < f.i PROVE Refused(a, j)'
        OBVIOUS
      <4>1. j \in DOMAIN Members(a)
        BY <1>1 DEF Members
      <4>2. j < i \/ j = i
        BY <1>6, <3>3, <3>4, <4>1
      <4>3. Refused(a, j)
        BY <1>6, <2>1, <3>6, <4>1, <4>2
      <4> QED BY <1>9, <2>1, <4>1, <4>3
    <3>8. SizeFrame(f)' /\ TopSized(f)'
      BY <3>5, <3>7 DEF SizeFrame, TopSized
    <3> QED BY <1>1, <3>2, <3>4, <3>5, <3>8 DEF SizeMove
  <2>6. \/ agg' = agg /\ stack' = Tail(stack) /\ ret' = (sizeokOf[a] # "none")
        \/ agg' = [agg EXCEPT ![a].fields = Append(@, i), ![a].terror = TRUE, ![a].errors = TRUE]
           /\ stack' = Tail(stack) /\ ret' = FALSE
        \/ /\ sizeokOf[a] = "none" /\ var[a][i].semanticRun = "done" /\ ~ContainsItself(a, i)
           /\ agg' = [agg EXCEPT ![a].fields = Append(@, i)]
           /\ Continue(GotoMember("next", i + 1))
    BY <1>3, <1>4, <1>13 DEF FieldsPush, ReturnValue
  <2> QED BY <2>3, <2>4, <2>5, <2>6
<1> QED BY <1>10, <1>11, <1>12, <1>13

LEMMA KeepsSize ==
    ASSUME DataInv, NEW a \in Agg, agg' = [agg EXCEPT ![a] = agg'[a]], agg'[a].sizeok = sizeokOf[a]
    PROVE  sizeokOf' = sizeokOf
<1>1. \A b \in Agg : agg'[b].sizeok = agg[b].sizeok
  BY DEF DataInv, sizeokOf
<1> QED BY <1>1 DEF sizeokOf

\* A finalization goes on with the next field.
LEMMA NextPlaced ==
    ASSUME Consistent, SizeInv, InnerStep, Top.proc = "finalizeSize", NEW n \in Nat,
           Continue(GotoMember("next", n)), sizeokOf'[Top.of] # "none"
    PROVE  SizeMove
<1>1. stack # <<>> /\ StackInv /\ "next" \in Pcs
  BY InnerRuns DEF Pcs
<1>2. PICK f : WentOn(f) /\ Onward(f, "next") /\ f.i = n
  BY <1>1, GoesToMember
<1>3. SizeFrame(f)' /\ TopSized(f)'
  BY <1>2 DEF Onward, SizeFrame, TopSized
<1> QED BY <1>1, <1>2, <1>3 DEF SizeMove, Onward

LEMMA FinalizeSizes ==
    ASSUME Consistent, SizeInv, FinalizeEnter \/ FinalizeField \/ FinalizeSized \/ FinalizeDone
    PROVE  SizeKept /\ SizeMove
<1>1. /\ InnerStep /\ RunSame /\ stack # <<>> /\ Top.of \in Agg /\ Top \in FrameSet
      /\ DataInv /\ StackInv /\ program' = program /\ program \in Programs /\ FramesInv /\ SelfInv
  BY InnerRuns DEF InnerStep, DataInv, SizeInv
<1>2. Top.proc = "finalizeSize"
  BY DEF FinalizeEnter, FinalizeField, FinalizeSized, FinalizeDone, At
<1>3. PICK a \in Agg : a = Top.of
  BY <1>1
<1>4. /\ agg[a] \in AggSet /\ sizeokOf[a] = agg[a].sizeok /\ agg \in [Agg -> AggSet]
  BY <1>1, AggFields DEF DataInv
<1>5. FrameOK(Top, program) /\ SizeFrame(Top)
  BY <1>1, TopFacts, TopKnows
<1>6. /\ sizeokOf[a] # "none"
      /\ Top.pc = "sized" => Top.i \in DOMAIN Members(a) /\ ~Itself(a, Top.i)
      /\ Top.pc = "next" => Top.i \in Nat
      /\ DOMAIN Members(a) = 1..Len(Members(a)) /\ Len(Members(a)) \in Nat
  BY <1>1, <1>2, <1>3, <1>5, ProgramFacts DEF SizeFrame, FrameOK, Members
<1>7. \A b \in Agg : \A j \in DOMAIN Members(b) : Itself(b, j)' <=> Itself(b, j)
  BY <1>1 DEF Itself, Members
<1>8. agg' = agg /\ var' = var => SizeKept /\ sizeokOf' = sizeokOf
  BY <1>1, SameSize DEF AggSame
<1>9. CASE FinalizeEnter
  <2>1. var' = var
    BY <1>9 DEF FinalizeEnter
  <2>2. CASE agg' = agg /\ stack' = Tail(stack)
    BY <1>1, <1>2, <1>8, <2>1, <2>2, Answer
  <2>3. CASE /\ agg' = [agg EXCEPT ![a].fields = <<>>,
                                   ![a].sizeok = IF a \in Struct THEN "inProcess" ELSE @]
             /\ Continue(GotoMember("next", 1))
    <3>1. /\ agg' = [agg EXCEPT ![a] = agg'[a]]
          /\ agg'[a].sizeok = IF a \in Struct THEN "inProcess" ELSE sizeokOf[a]
      BY <1>4, <2>3 DEF AggSet
    <3>2. PICK ok : ok = agg'[a].sizeok
      OBVIOUS
    <3>3. sizeokOf[a] # "done"
      <4>1. Top.pc = "enter"
        BY <1>9 DEF FinalizeEnter, At
      <4> QED BY <1>1, <1>2, <1>3, <4>1, TopKnows DEF TopSized
    <3>4. ok # "none"
      BY <1>6, <3>1, <3>2
    <3>5. SizeKept /\ sizeokOf'[a] = ok
      BY <1>1, <1>6, <2>1, <3>1, <3>2, <3>3, <3>4, WritesSize
    <3> QED BY <1>1, <1>2, <1>3, <2>3, <3>4, <3>5, NextPlaced
  <2> QED BY <1>3, <1>9, <2>2, <2>3 DEF FinalizeEnter, Return
<1>10. CASE FinalizeField
  <2>1. PICK n : n = NextField(a, Top.i)
    OBVIOUS
  <2>2. Top.pc = "next" /\ n # 0
    BY <1>3, <1>10, <2>1 DEF FinalizeField, At
  <2>3. n \in DOMAIN Members(a) /\ n \in Nat /\ n + 1 \in Nat
    <3>1. Top.i \in Nat
      BY <1>6, <2>2
    <3>2. n \in DOMAIN Members(a) /\ n \in Nat
      BY <1>1, <2>1, <2>2, <3>1, NextFieldIs
    <3> QED BY <3>2
  <2>4. /\ n \in doneOf[a] <=> var[a][n].semanticRun = "done"
        /\ n \in badOf[a] <=> var[a][n].terror
        /\ var[a][n] \in VarSet /\ VarInv
    BY <1>1, <2>3, VarFacts, DataParts
  <2>5. CASE agg' = agg /\ var' = var /\ Continue(GotoMember("next", n + 1))
    BY <1>1, <1>2, <1>3, <1>6, <1>8, <2>3, <2>5, NextPlaced
  <2>6. CASE /\ var[a][n].semanticRun = "done" /\ Members(a)[n].kind = "field" /\ ~var[a][n].terror
             /\ agg' = agg /\ var' = var
             /\ Call(GotoMember("sized", n), DetermineSize(Members(a)[n].of))
    <3>1. Members(a)[n].of \in Agg
      BY <1>1, <2>3, <2>6, ProgramFacts DEF Agg
    <3>2. PICK b \in Agg : b = Members(a)[n].of
      BY <3>1
    <3>3. /\ DetermineSize(b) \in FrameSet /\ DetermineSize(b).proc = "determineSize"
          /\ DetermineSize(b).of = b /\ DetermineSize(b).pc = "enter"
      BY NewFrames
    <3>4. Call(GotoMember("sized", n), DetermineSize(b)) /\ "sized" \in Pcs
      BY <2>6, <3>2 DEF Pcs
    <3>5. PICK f, h : /\ Called(f, h) /\ Onward(f, "sized") /\ f.i = n
                      /\ h.proc = "determineSize" /\ h.pc = "enter"
      BY <1>1, <2>3, <3>3, <3>4, GoesToMember
    <3>6. Refused(a, n)
      BY <1>1, <1>6, <2>3 DEF SelfInv
    <3>7. ~Itself(a, n)'
      BY <1>7, <2>3, <2>4, <2>6, <3>6 DEF Refused
    <3>8. f.of = a /\ f.proc = "finalizeSize" /\ f.pc = "sized" /\ SizeKept /\ sizeokOf' = sizeokOf
      BY <1>2, <1>3, <1>8, <2>6, <3>5 DEF Onward
    <3>9. SizeFrame(f)' /\ SizeFrame(h)' /\ CallSized(f, h)' /\ TopSized(h)'
      BY <1>6, <3>5, <3>7, <3>8 DEF SizeFrame, TopSized, CallSized
    <3> QED BY <1>1, <3>5, <3>8, <3>9 DEF SizeMove
  <2>7. CASE /\ agg' = [agg EXCEPT ![a].fields = Append(@, n)]
             /\ var' = [var EXCEPT ![a][n].placed = ~var[a][n].terror]
             /\ Continue(GotoMember("next", n + 1))
    <3> DEFINE v == [var[a][n] EXCEPT !.placed = ~var[a][n].terror]
    <3>1. agg' = [agg EXCEPT ![a] = agg'[a]] /\ agg'[a].sizeok = sizeokOf[a]
      BY <1>4, <2>7 DEF AggSet
    <3>2. sizeokOf' = sizeokOf
      BY <1>1, <3>1, KeepsSize
    <3>3. v \in VarSet /\ v.semanticRun = var[a][n].semanticRun /\ v.terror = var[a][n].terror
      BY <2>4 DEF VarSet, Runs
    <3>4. var' = [var EXCEPT ![a] = [var[a] EXCEPT ![n] = v]]
      BY <2>3, <2>4, <2>7 DEF VarInv
    <3>5. VarBecame(a, n, v.semanticRun, v.terror)
      <4> HIDE DEF v
      <4> QED BY <1>1, <2>3, <2>4, <3>3, <3>4, SetVar
    <3> HIDE DEF v
    <3>6. doneOf'[a] = doneOf[a] /\ badOf'[a] = badOf[a]
      BY <2>4, <3>3, <3>5 DEF VarBecame
    <3>7. \A b \in Agg : doneOf'[b] = doneOf[b] /\ badOf'[b] = badOf[b]
      BY <3>5, <3>6 DEF VarBecame
    <3>8. \A b \in Agg : \A j \in DOMAIN Members(b) : Refused(b, j) => Refused(b, j)'
      BY <1>7, <3>7 DEF Refused
    <3>9. SizeKept
      BY <1>1, <3>2, <3>8, SameSizes
    <3> QED BY <1>1, <1>2, <1>3, <1>6, <2>3, <2>7, <3>2, <3>9, NextPlaced
  <2>8. \/ agg' = agg /\ var' = var /\ Continue(GotoMember("next", n + 1))
        \/ /\ var[a][n].semanticRun = "done" /\ Members(a)[n].kind = "field" /\ ~var[a][n].terror
           /\ agg' = agg /\ var' = var
           /\ Call(GotoMember("sized", n), DetermineSize(Members(a)[n].of))
        \/ /\ agg' = [agg EXCEPT ![a].fields = Append(@, n)]
           /\ var' = [var EXCEPT ![a][n].placed = ~var[a][n].terror]
           /\ Continue(GotoMember("next", n + 1))
    BY <1>3, <1>10, <2>1 DEF FinalizeField
  <2> QED BY <2>5, <2>6, <2>7, <2>8
<1>11. CASE FinalizeSized
  <2>1. PICK i : i = Top.i
    OBVIOUS
  <2>2. /\ Top.pc = "sized" /\ i \in DOMAIN Members(a) /\ ~Itself(a, i) /\ i + 1 \in Nat
    BY <1>6, <1>11, <2>1 DEF FinalizeSized, At
  <2>3. /\ agg' = [agg EXCEPT ![a].fields = IF ret THEN Append(@, i) ELSE @]
        /\ var' = [var EXCEPT ![a][i].placed = ret, ![a][i].terror = ~ret]
        /\ Continue(GotoMember("next", i + 1))
    BY <1>3, <1>11, <2>1 DEF FinalizeSized
  <2>4. var[a][i] \in VarSet /\ VarInv /\ ret \in BOOLEAN
    BY <1>1, <2>2, VarFacts, DataParts DEF DataInv
  <2> DEFINE v == [var[a][i] EXCEPT !.placed = ret, !.terror = ~ret]
  <2>5. agg' = [agg EXCEPT ![a] = agg'[a]] /\ agg'[a].sizeok = sizeokOf[a]
    BY <1>4, <2>3 DEF AggSet
  <2>6. sizeokOf' = sizeokOf
    BY <1>1, <2>5, KeepsSize
  <2>7. v \in VarSet /\ v.terror \in BOOLEAN
    BY <2>4 DEF VarSet, Runs
  <2>8. var' = [var EXCEPT ![a] = [var[a] EXCEPT ![i] = v]]
    BY <2>2, <2>3, <2>4 DEF VarInv
  <2> HIDE DEF v
  <2>9. VarBecame(a, i, v.semanticRun, v.terror)
    BY <1>1, <2>2, <2>4, <2>7, <2>8, SetVar
  <2>10. \A b \in Agg : \A j \in DOMAIN Members(b) : Refused(b, j) => Refused(b, j)'
    BY <1>1, <2>2, <2>7, <2>9, OtherFields
  <2>11. SizeKept
    BY <1>1, <2>6, <2>10, SameSizes
  <2> QED BY <1>1, <1>2, <1>3, <1>6, <2>2, <2>3, <2>6, <2>11, NextPlaced
<1>12. CASE FinalizeDone
  <2>1. var' = var /\ stack' = Tail(stack)
    BY <1>12 DEF FinalizeDone, Return
  <2>2. /\ agg' = [agg EXCEPT ![a] = agg'[a]]
        /\ agg'[a].sizeok \in {sizeokOf[a], "done"}
    BY <1>3, <1>4, <1>12 DEF FinalizeDone, AggSet
  <2>3. PICK ok : ok = agg'[a].sizeok
    OBVIOUS
  <2>4. SizeKept
    BY <1>1, <1>6, <2>1, <2>2, <2>3, WritesSize
  <2> QED BY <1>1, <1>2, <2>1, <2>4, Answer
<1> QED BY <1>9, <1>10, <1>11, <1>12

-----------------------------------------------------------------------------
(***************************************************************************)
(* Every step keeps what is known of sizes.                                *)
(***************************************************************************)
LEMMA StepSizes ==
    ASSUME Consistent, SizeInv, Step
    PROVE  SizeInv'
<1>1. Consistent' /\ StepEffect
  BY StepConsistent
<1>2. /\ DataInv /\ StackInv /\ StackInv' /\ ActiveInv /\ Grows
  BY <1>1, StepGrows DEF Consistent, BlameInv
<1>3. SizeKept /\ SizeMove
  <2>1. CASE InnerStep
    BY <2>1, VariableSizes, SizeSizes, FieldsSizes, FinalizeSizes DEF InnerStep
  <2>2. CASE ~InnerStep
    BY <1>1, <1>2, <2>2, OuterSizes
  <2> QED BY <2>1, <2>2
<1> QED BY <1>1, <1>3, SizesKept

LEMMA StutterSizes ==
    ASSUME Consistent, SizeInv, UNCHANGED vars
    PROVE  SizeInv'
<1>1. Depth' = Depth /\ levels' = levels /\ ret' = ret /\ program' = program
  BY SameLevels DEF vars
<1>2. UNCHANGED <<runOf, baseokOf, baseClassOf, baseOf, sizeokOf>>
  BY SameAgg DEF vars, AggSame
<1>3. \A a : Members(a)' = Members(a)
  BY <1>1 DEF Members
<1>4. UNCHANGED <<doneOf, badOf>>
  BY <1>3 DEF vars, doneOf, badOf
<1>5. BaseInv' /\ SelfInv'
  BY <1>1, <1>2, <1>3, <1>4 DEF SizeInv, BaseInv, BaseFound, BaseKnown, Choosing, SelfInv, Refused, Itself
<1>6. \A f : /\ SizeFrame(f)' <=> SizeFrame(f)
             /\ TopSized(f)' <=> TopSized(f)
  BY <1>1, <1>2, <1>3, <1>4 DEF SizeFrame, TopSized, BaseSized, BaseKnown, Refused, Itself
<1>7. \A f, g : CallSized(f, g)' <=> CallSized(f, g)
  BY <1>2 DEF CallSized
<1>8. FramesInv'
  BY <1>1, <1>6, <1>7 DEF SizeInv, FramesInv
<1> QED BY <1>5, <1>8 DEF SizeInv

LEMMA InitSizes ==
    ASSUME Init
    PROVE  SizeInv
<1>1. Depth = 1 /\ levels[1] = ModuleSemantic(Main) /\ ModuleSemantic(Main).proc = "module"
  BY InitStack, NewFrames
<1>2. \A a \in Agg : runOf[a] = "init"
  BY InitData
<1>3. \A a \in Agg : baseokOf[a] = "none" /\ sizeokOf[a] = "none"
  BY DEF Init, baseokOf, sizeokOf
<1>4. BaseInv /\ SelfInv
  BY <1>2, <1>3 DEF BaseInv, BaseFound, SelfInv
<1>5. \A k \in 1..Depth : k = 1
  BY <1>1
<1>6. \A k \in 1..Depth - 1 : FALSE
  BY <1>1
<1>7. FramesInv
  BY <1>1, <1>5, <1>6 DEF FramesInv, SizeFrame, TopSized
<1> QED BY <1>4, <1>7 DEF SizeInv

LEMMA AlwaysSized == Spec => [](Consistent /\ SizeInv)
<1>1. Init => Consistent /\ SizeInv
  BY InitConsistent, InitSizes
<1>2. Consistent /\ SizeInv /\ [Next]_vars => (Consistent /\ SizeInv)'
  <2> SUFFICES ASSUME Consistent, SizeInv, [Next]_vars PROVE Consistent' /\ SizeInv'
    OBVIOUS
  <2>1. Consistent'
    BY NextConsistent
  <2>2. Step \/ UNCHANGED vars
    BY DEF Next, Finished
  <2> QED BY <2>1, <2>2, StepSizes, StutterSizes
<1> QED BY <1>1, <1>2, PTL DEF Spec

\* The assertions of the code hold: finalizeSize is entered with a size that
\* is not known yet and a base class whose size is, the size of an aggregate is
\* never asked for by the placing of one of its own fields, and a class whose
\* fields cannot be determined is an error.
THEOREM AssertionsCorrect == Spec => []AssertionsHold
<1>1. ASSUME Consistent, SizeInv PROVE AssertionsHold
  <2>1. DataInv /\ StackInv /\ RetInv /\ FramesInv
    BY <1>1 DEF Consistent, BlameInv, SizeInv
  <2>2. ASSUME At("finalizeSize", "enter")
        PROVE  /\ agg[Top.of].sizeok # "done"
               /\ agg[Top.of].baseClass # NoBase => agg[agg[Top.of].baseClass].sizeok = "done"
    <3>1. stack # <<>> /\ Top.proc = "finalizeSize" /\ Top.pc = "enter"
      BY <2>2 DEF At
    <3>2. Top.of \in Agg
      BY <2>1, <3>1, TopAgg
    <3>3. sizeokOf[Top.of] # "done" /\ BaseSized(Top.of)
      BY <2>1, <3>1, TopKnows DEF SizeFrame, TopSized
    <3>4. PICK a \in Agg : a = Top.of
      BY <3>2
    <3>5. sizeokOf[a] = agg[a].sizeok /\ baseClassOf[a] = agg[a].baseClass
      BY <2>1, AggFields DEF DataInv
    <3>6. baseClassOf[a] # NoBase => agg[baseClassOf[a]].sizeok = "done"
      <4>1. CASE baseClassOf[a] \in Agg
        <5>1. PICK b \in Agg : b = baseClassOf[a]
          BY <4>1
        <5>2. sizeokOf[b] = agg[b].sizeok
          BY <2>1, AggFields DEF DataInv
        <5> QED BY <3>3, <3>4, <5>1, <5>2 DEF BaseSized
      <4> QED BY <2>1, <4>1, BaseClasses
    <3> QED BY <3>3, <3>4, <3>5, <3>6
  <2>3. ASSUME At("determineSize", "enter"), Len(stack) > 1,
               stack[2].proc = "finalizeSize", stack[2].of = Top.of
        PROVE  FALSE
    <3>1. stack # <<>> /\ Top.proc = "determineSize"
      BY <2>3 DEF At
    <3>2. /\ Depth \in Nat \ {0} /\ Top = levels[Depth] /\ Depth - 1 \in 1..Depth
          /\ (Depth - 1) + 1 = Depth /\ Depth - 1 \in 1..Depth - 1
          /\ levels[Depth - 1] = stack[2] /\ Depth > 1
      <4>1. Depth \in Nat \ {0} /\ Top = levels[Depth] /\ Depth > 1
        BY <2>1, <2>3, <3>1, TopFacts DEF Depth
      <4>2. /\ Depth - 1 \in 1..Depth /\ (Depth - 1) + 1 = Depth /\ Depth - 1 \in 1..Depth - 1
            /\ Depth + 1 - (Depth - 1) = 2
        BY <4>1
      <4> QED BY <4>1, <4>2 DEF levels
    <3>3. PICK f \in FrameSet : f = stack[2]
      <4>1. stack \in Seq(FrameSet) /\ 2 \in 1..Len(stack)
        BY <2>1, <2>3 DEF StackInv
      <4> QED BY <4>1
    <3>4. SizeFrame(f) /\ FrameOK(f, program) /\ Waits(f, Top, program)
      <4>1. \A k \in 1..Depth, h \in FrameSet : h = levels[k] => SizeFrame(h)
        BY <2>1 DEF FramesInv
      <4>2. FrameOK(levels[Depth - 1], program) /\ Waits(levels[Depth - 1], levels[(Depth - 1) + 1], program)
        BY <2>1, <3>2 DEF StackInv
      <4> QED BY <3>2, <3>3, <4>1, <4>2
    <3>5. /\ f.pc = "sized" /\ Top.of = program.members[f.of][f.i].of /\ f.of = Top.of /\ f.proc = "finalizeSize"
      BY <2>3, <3>1, <3>3, <3>4 DEF Waits
    <3>6. /\ f.of \in Agg /\ f.i \in DOMAIN Members(f.of) /\ Members(f.of)[f.i].kind = "field"
          /\ Members(f.of)[f.i].of = f.of
      BY <3>4, <3>5 DEF FrameOK, Members
    <3>7. Members(f.of)[f.i] \in Member
      BY <2>1, <3>6, ProgramFacts DEF DataInv
    <3>8. Members(f.of)[f.i] = [kind |-> "field", of |-> f.of]
      BY <3>6, <3>7 DEF Member
    <3> QED BY <3>4, <3>5, <3>8 DEF SizeFrame, Itself
  <2>4. ASSUME At("semantic", "fields"), ~ret, Top.of \in Class
        PROVE  agg[Top.of].terror
    <3>1. Depth > 0 /\ Top = levels[Depth]
      BY <2>1, <2>4, TopFacts DEF At
    <3> QED BY <2>1, <2>4, <3>1, NamesAssumption DEF RetInv, At
  <2> QED BY <2>2, <2>3, <2>4 DEF AssertionsHold
<1> QED BY <1>1, AlwaysSized, PTL

-----------------------------------------------------------------------------
(***************************************************************************)
(* A type that contains itself does not get through pass 1: an aggregate   *)
(* is sized after all that it contains, and a struct is done after its     *)
(* fields.  What the inner calls do, as far as that matters.               *)
(***************************************************************************)

\* The members that have a place, and those that are in the list of fields.
placedOf == [a \in Agg |-> {i \in DOMAIN Members(a) : var[a][i].placed}]
listedOf == [a \in Agg |-> {fieldsOf[a][n] : n \in DOMAIN fieldsOf[a]}]

Sized(a) == a \in Agg /\ sizeokOf[a] = "done"
OfType(a, j) == Members(a)[j].kind = "field"
PartOf(a, j) == Members(a)[j].of

NoFieldIn(a, i, n) == \A j \in DOMAIN Members(a) : i <= j /\ j < n => ~IsField(a, j)
NoFieldFrom(a, i) == \A j \in DOMAIN Members(a) : i <= j => ~IsField(a, j)

\* A call that fills the list of fields; one that gives the fields their places.
Filling(f, a) == f.proc = "determineFields" /\ f.of = a /\ f.pc \in {"next", "push"}
Placing(f, a) == f.proc = "finalizeSize" /\ f.of = a /\ f.pc \in {"next", "sized"}

LEMMA Skipped ==
    ASSUME program \in Programs, NEW a \in Agg, NEW i \in Nat \ {0}
    PROVE  /\ NextField(a, i) = 0 => NoFieldFrom(a, i)
           /\ NoFieldIn(a, i, NextField(a, i))
           /\ NextField(a, i) # 0 => i <= NextField(a, i)
<1> DEFINE rest == {j \in i..Len(Members(a)) : IsField(a, j)}
<1>1. DOMAIN Members(a) = 1..Len(Members(a)) /\ Len(Members(a)) \in Nat
  BY ProgramFacts
<1>2. rest \in SUBSET Nat /\ 0 \notin rest
  BY <1>1
<1>3. \A j \in DOMAIN Members(a) : i <= j /\ IsField(a, j) => j \in rest /\ j \in Nat
  BY <1>1
<1>4. CASE rest = {}
  BY <1>3, <1>4 DEF NoFieldFrom, NoFieldIn, NextField
<1>5. CASE rest # {}
  <2> HIDE DEF rest
  <2>1. \E j \in rest : \A m \in rest : j <= m
    BY <1>2, <1>5, LeastOf
  <2>2. NextField(a, i) = CHOOSE j \in rest : \A m \in rest : j <= m
    BY <1>5 DEF NextField, rest
  <2>3. NextField(a, i) \in rest /\ \A m \in rest : NextField(a, i) <= m
    BY <2>1, <2>2
  <2>4. PICK n \in Nat : n = NextField(a, i) /\ n # 0 /\ \A m \in rest : n <= m
    BY <1>2, <2>3
  <2>5. \A j \in DOMAIN Members(a) : i <= j /\ j < n => ~IsField(a, j)
    <3> SUFFICES ASSUME NEW j \in DOMAIN Members(a), i <= j, j < n, IsField(a, j) PROVE FALSE
      OBVIOUS
    <3>1. n <= j /\ j \in Nat
      BY <1>3, <2>4
    <3> QED BY <2>4, <3>1
  <2>6. i <= n
    BY <2>3, <2>4 DEF rest
  <2> QED BY <2>4, <2>5, <2>6 DEF NoFieldIn
<1> QED BY <1>4, <1>5

LEMMA PlacesStay ==
    ASSUME program' = program, var' = var
    PROVE  placedOf' = placedOf /\ doneOf' = doneOf
  BY DEF placedOf, doneOf, Members

LEMMA SetPlaced ==
    ASSUME VarInv, program' = program, NEW b \in Agg, NEW j \in DOMAIN Members(b), NEW v \in VarSet,
           var' = [var EXCEPT ![b] = [var[b] EXCEPT ![j] = v]]
    PROVE  /\ \A a \in Agg : a # b => placedOf'[a] = placedOf[a]
           /\ placedOf'[b] = IF v.placed THEN placedOf[b] \cup {j} ELSE placedOf[b] \ {j}
<1>1. \A a \in Agg : var'[a] = IF a = b THEN [var[b] EXCEPT ![j] = v] ELSE var[a]
  BY DEF VarInv
<1>2. \A a \in Agg : Members(a)' = Members(a)
  BY DEF Members
<1>3. var'[b][j] = v
  BY <1>1 DEF VarInv
<1>4. \A a \in Agg : \A i \in DOMAIN Members(a) : (a # b \/ i # j) => var'[a][i] = var[a][i]
  BY <1>1 DEF VarInv
<1>5. \A a \in Agg : a # b => placedOf'[a] = placedOf[a]
  BY <1>2, <1>4 DEF placedOf
<1>6. placedOf'[b] = {i \in DOMAIN Members(b) : var'[b][i].placed}
  BY <1>2 DEF placedOf
<1> QED BY <1>3, <1>4, <1>5, <1>6 DEF placedOf

LEMMA Appended ==
    ASSUME NEW S, NEW s \in Seq(S), NEW x
    PROVE  {Append(s, x)[n] : n \in DOMAIN Append(s, x)} = {s[n] : n \in DOMAIN s} \cup {x}
<1>1. DOMAIN s = 1..Len(s) /\ Len(s) \in Nat
  OBVIOUS
<1>2. /\ DOMAIN Append(s, x) = 1..Len(s) + 1 /\ Append(s, x)[Len(s) + 1] = x
      /\ \A n \in 1..Len(s) : Append(s, x)[n] = s[n]
  OBVIOUS
<1>3. \A n : n \in 1..Len(s) + 1 <=> n \in 1..Len(s) \/ n = Len(s) + 1
  BY <1>1
<1> QED BY <1>1, <1>2, <1>3

\* Only a has a new size or list of fields.
LEMMA WritesOne ==
    ASSUME DataInv, NEW a \in Agg, agg' = [agg EXCEPT ![a] = agg'[a]]
    PROVE  /\ \A b \in Agg : b # a => sizeokOf'[b] = sizeokOf[b] /\ listedOf'[b] = listedOf[b]
           /\ sizeokOf'[a] = agg'[a].sizeok
           /\ agg'[a].sizeok = agg[a].sizeok => sizeokOf' = sizeokOf
           /\ agg'[a].fields = agg[a].fields => listedOf' = listedOf
           /\ agg'[a].fields = <<>> => listedOf'[a] = {}
           /\ \A i : agg'[a].fields = Append(agg[a].fields, i) => listedOf'[a] = listedOf[a] \cup {i}
<1>1. \A b \in Agg : b # a => agg'[b] = agg[b]
  BY DEF DataInv
<1>2. \A b \in Agg : b # a => sizeokOf'[b] = sizeokOf[b] /\ listedOf'[b] = listedOf[b]
  BY <1>1 DEF sizeokOf, listedOf, fieldsOf
<1>3. /\ sizeokOf'[a] = agg'[a].sizeok /\ sizeokOf[a] = agg[a].sizeok
      /\ fieldsOf'[a] = agg'[a].fields /\ fieldsOf[a] = agg[a].fields
  BY DEF sizeokOf, fieldsOf
<1>4. agg'[a].sizeok = agg[a].sizeok => sizeokOf' = sizeokOf
  BY <1>2, <1>3 DEF sizeokOf
<1>5. /\ listedOf[a] = {agg[a].fields[n] : n \in DOMAIN agg[a].fields}
      /\ listedOf'[a] = {agg'[a].fields[n] : n \in DOMAIN agg'[a].fields}
  BY <1>3 DEF listedOf
<1>6. agg'[a].fields = agg[a].fields => listedOf' = listedOf
  <2> SUFFICES ASSUME agg'[a].fields = agg[a].fields PROVE listedOf' = listedOf
    OBVIOUS
  <2>1. \A b \in Agg : fieldsOf'[b] = fieldsOf[b]
    BY <1>1, <1>3 DEF fieldsOf
  <2> QED BY <2>1 DEF listedOf
<1>7. agg'[a].fields = <<>> => listedOf'[a] = {}
  BY <1>5
<1>8. fieldsOf[a] \in Seq(DOMAIN Members(a))
  BY DEF DataInv
<1>9. \A i : agg'[a].fields = Append(agg[a].fields, i) => listedOf'[a] = listedOf[a] \cup {i}
  BY <1>3, <1>5, <1>8, Appended
<1> QED BY <1>2, <1>3, <1>4, <1>6, <1>7, <1>9

-----------------------------------------------------------------------------
(***************************************************************************)
(* While no error is reported and none is about to be.                     *)
(***************************************************************************)
Failing == Depth > 0 /\ levels[Depth].pc = "fields" /\ ~ret
Calm == errors = 0 /\ ~Failing

Listed(a, i) == \A j \in DOMAIN Members(a) : j < i /\ IsField(a, j) => j \in listedOf[a]
AllListed(a) == \A j \in DOMAIN Members(a) : IsField(a, j) => j \in listedOf[a]
PartsSized(a) == \A c \in Agg : Contains(a, c) => Sized(c)

\* The members of an aggregate that are analysed, in the list or in place.
Parts(a) ==
    /\ sizeokOf[a] # "none" => \A j \in DOMAIN Members(a) : IsField(a, j) => j \in doneOf[a]
    /\ listedOf[a] \subseteq doneOf[a]
    /\ a \in Struct /\ sizeokOf[a] = "fwd" => AllListed(a)
    /\ \A j \in doneOf[a] : OfType(a, j) \/ Sized(PartOf(a, j))
    /\ \A j \in placedOf[a] : OfType(a, j) => Sized(PartOf(a, j))
    /\ Sized(a) => PartsSized(a)

PartsInv == \A a \in Agg : Parts(a)

\* The sized aggregates can be put in an order.
SizedTree ==
    \A S \in SUBSET Agg : S # {} /\ (\A x \in S : Sized(x)) =>
        \E x \in S : \A y \in S : ~Contains(x, y)

\* The structs that are done and need not be sized.
Ready(a) == a \in Struct /\ runOf[a] = "done" /\ sizeokOf[a] \in {"none", "fwd"}

ReadyInv ==
    /\ \A a \in Struct : Ready(a) =>
         \A j \in DOMAIN Members(a) : OfType(a, j) => runOf[PartOf(a, j)] = "done"
    /\ \A S \in SUBSET Struct : S # {} /\ (\A x \in S : Ready(x)) =>
         \E x \in S : \A j \in DOMAIN Members(x) : OfType(x, j) => PartOf(x, j) \notin S

\* The innermost of the calls that fill a list finds in it what is behind it.
FillInv ==
    \A a \in Agg, k \in 1..Depth : Filling(levels[k], a) /\ sizeokOf[a] = "none" =>
        \/ \E n \in 1..Depth : n > k /\ Filling(levels[n], a)
        \/ Listed(a, levels[k].i)

PlaceInv == \A a \in Agg : sizeokOf[a] = "inProcess" => \E k \in 1..Depth : Placing(levels[k], a)

\* What a call that gives places knows, and what the innermost call knows.
CalmFrame(f) ==
    f.proc = "finalizeSize" =>
        /\ BaseSized(f.of)
        /\ f.pc # "enter" =>
             /\ \A j \in DOMAIN Members(f.of) :
                  OfType(f.of, j) /\ (j < f.i \/ j \in listedOf[f.of]) => Sized(PartOf(f.of, j))
             /\ f.of \in Struct => sizeokOf[f.of] \in {"inProcess", "done"}

TopCalm(f) ==
    /\ f.proc \in {"variable", "finalizeSize"} /\ f.pc = "sized" => Sized(PartOf(f.of, f.i))
    /\ f.pc = "fields" => sizeokOf[f.of] # "none"
    /\ f.proc = "determineFields" /\ f.pc = "next" => sizeokOf[f.of] = "none"

CalmFrames ==
    /\ \A k \in 1..Depth, f \in FrameSet : f = levels[k] => CalmFrame(f)
    /\ \A f \in FrameSet : Depth > 0 /\ f = levels[Depth] => TopCalm(f)

BaseRight == \A c \in Class : baseOf[c] = program.base[c]

CalmInv == PartsInv /\ SizedTree /\ ReadyInv /\ FillInv /\ PlaceInv /\ CalmFrames /\ BaseRight

\* Unless there is an error, a step is one between calm states.
Calmly ==
    /\ Consistent /\ SizeInv /\ CalmInv /\ Calm
    /\ Step /\ Consistent' /\ StepEffect /\ Calm'

LEMMA CalmBefore ==
    ASSUME Consistent, Step, Calm'
    PROVE  Calm
<1>1. DataInv /\ StackInv /\ NoBlame /\ RetInv /\ Grows
  <2>1. Consistent' /\ StepEffect
    BY StepConsistent
  <2> QED BY <2>1, StepGrows DEF Consistent, BlameInv
<1>2. errors = 0 /\ errors' = 0
  BY <1>1 DEF Calm, Grows
<1>3. ASSUME Failing PROVE FALSE
  <2>1. stack # <<>>
    BY <1>1, <1>3, EmptyStack DEF Failing, StackInv
  <2>2. /\ Top = levels[Depth] /\ Top \in FrameSet /\ FrameOK(Top, program) /\ Top.pc = "fields" /\ ~ret
    BY <1>1, <1>3, <2>1, TopFacts DEF Failing
  <2>3. Top.proc \in {"semantic", "determineSize"} /\ Top.of \in Agg
    BY <2>2 DEF FrameOK, FrameSet, Procs
  <2>4. Top.proc # "semantic"
    BY <1>1, <1>2, <1>3, <2>2, <2>3 DEF Failing, RetInv, NoBlame
  <2>5. SizeFields
    BY <2>1, <2>2, <2>3, <2>4 DEF Step, At, ModuleMember, ModuleMemberDone, RunDeferredAtOnce, RunDeferredEnter,
       RunDeferredSymbol, RunDeferredRoundDone, SemanticAtOnce, SemanticEnter, ClassBase, ClassBased,
       ClassAncestors, SemanticMember, SemanticMembersDone, SemanticNoFields, SemanticDefer, SemanticDone,
       VariableAtOnce, VariableOfStruct, VariableOfSize, VariableSized, SizeAtOnce, SizeEnter, SizeBase,
       SizeBased, SizeFinal, FieldsEnter, FieldsStart, FieldsNext, FieldsPush, FinalizeEnter, FinalizeField,
       FinalizeSized, FinalizeDone, LastTry, ReportUnresolved
  <2>6. ~agg[Top.of].terror
    BY <1>1, <1>2, <2>3 DEF NoBlame, terrorOf
  <2> QED BY <1>2, <2>2, <2>5, <2>6 DEF SizeFields, SizeFail
<1> QED BY <1>2, <1>3 DEF Calm

\* With no error, nothing is bad, before the step or after it.
LEMMA CalmFacts ==
    ASSUME Calmly
    PROVE  /\ DataInv /\ StackInv /\ ChainInv /\ NoBlame /\ FramesInv /\ DataInv' /\ StackInv' /\ NoBlame'
           /\ program' = program /\ program \in Programs /\ Grows /\ errors = 0 /\ errors' = 0
           /\ \A a \in Agg : /\ ~terrorOf[a] /\ badOf[a] = {} /\ badOf'[a] = {} /\ ~terrorOf'[a]
                             /\ agg[a] \in AggSet /\ terrorOf[a] = agg[a].terror
                             /\ sizeokOf[a] = agg[a].sizeok
           /\ \A a : Members(a)' = Members(a)
<1>1. /\ DataInv /\ StackInv /\ ChainInv /\ NoBlame /\ FramesInv /\ DataInv' /\ StackInv' /\ NoBlame'
      /\ errors = 0 /\ errors' = 0 /\ StepEffect
  BY DEF Calmly, Consistent, BlameInv, SizeInv, Calm
<1>2. Grows
  BY <1>1, StepGrows
<1>3. \A a \in Agg : ~terrorOf[a] /\ badOf[a] = {} /\ badOf'[a] = {} /\ ~terrorOf'[a]
  BY <1>1 DEF NoBlame
<1>4. \A a \in Agg : agg[a] \in AggSet /\ terrorOf[a] = agg[a].terror /\ sizeokOf[a] = agg[a].sizeok
  BY <1>1, AggFields DEF DataInv
<1>5. program' = program /\ program \in Programs
  BY <1>1, <1>2 DEF Grows, DataInv
<1>6. \A a : Members(a)' = Members(a)
  BY <1>5 DEF Members
<1> QED BY <1>1, <1>2, <1>3, <1>4, <1>5, <1>6

-----------------------------------------------------------------------------
\* What a step leaves of an aggregate.
Stays(b) ==
    /\ sizeokOf'[b] = sizeokOf[b] /\ listedOf'[b] = listedOf[b]
    /\ placedOf'[b] = placedOf[b] /\ doneOf'[b] = doneOf[b]

Follows(b) ==
    /\ sizeokOf[b] # "none" => sizeokOf'[b] # "none"
    /\ Sized(b) => Sized(b)'
    /\ b \in Struct /\ sizeokOf[b] \in {"inProcess", "done"} => sizeokOf'[b] \in {"inProcess", "done"}
    /\ doneOf[b] \subseteq doneOf'[b]
    /\ \A j \in doneOf'[b] : j \in doneOf[b] \/ OfType(b, j) \/ Sized(PartOf(b, j))
    /\ \A j \in placedOf'[b] : j \in placedOf[b] \/ ~OfType(b, j) \/ Sized(PartOf(b, j))
    /\ \A j \in listedOf'[b] :
         \/ j \in listedOf[b]
         \/ j \in doneOf[b] /\ (sizeokOf[b] = "none" \/ ~OfType(b, j) \/ Sized(PartOf(b, j)))
    /\ sizeokOf'[b] = "none" => listedOf'[b] = listedOf[b] \/ (Depth' > 0 /\ Filling(levels'[Depth'], b))
    /\ sizeokOf'[b] = "inProcess" => sizeokOf[b] = "inProcess" \/ (Depth' > 0 /\ Placing(levels'[Depth'], b))
    /\ sizeokOf[b] = "none" /\ sizeokOf'[b] # "none" => AllListed(b)
    /\ b \in Struct /\ sizeokOf'[b] = "fwd" => listedOf'[b] = listedOf[b]
    /\ Sized(b)' => Sized(b) \/ PartsSized(b)

\* The innermost call goes on as f.
Holds(f) ==
    /\ CalmFrame(f)'
    /\ \A b \in Agg : /\ Filling(Top, b) => Filling(f, b)
                      /\ Placing(Top, b) => Placing(f, b)
                      /\ Filling(f, b) /\ sizeokOf'[b] = "none" => Listed(b, f.i)'

CalmMove ==
    \/ /\ stack # <<>> /\ Popped /\ listedOf' = listedOf
       /\ \A b \in Agg : /\ Depth > 1 /\ Filling(Top, b) => sizeokOf'[b] # "none"
                         /\ Placing(Top, b) => sizeokOf'[b] # "inProcess"
       /\ \A f \in FrameSet : Depth > 1 /\ f = levels[Depth - 1] => TopCalm(f)'
    \/ stack # <<>> /\ \E f : WentOn(f) /\ Holds(f) /\ TopCalm(f)'
    \/ /\ stack # <<>>
       /\ \E f, g : Called(f, g) /\ Holds(f) /\ g.pc = "enter" /\ CalmFrame(g)'
    \/ stack = <<>> /\ \A k \in 1..Depth' : levels'[k].proc = "runDeferred" /\ levels'[k].pc = "enter"

LEMMA StayFollows ==
    ASSUME NEW b \in Agg, Stays(b)
    PROVE  Follows(b)
  BY DEF Stays, Follows, Sized

LEMMA CalmLasts ==
    ASSUME Calmly, \A b \in Agg : Follows(b), NEW f \in FrameSet, FrameOK(f, program), SizeFrame(f), CalmFrame(f)
    PROVE  CalmFrame(f)'
<1>1. /\ DataInv /\ StackInv /\ ChainInv /\ StepEffect /\ program' = program /\ program \in Programs
      /\ \A a : Members(a)' = Members(a)
  BY CalmFacts DEF Calmly
<1>2. \A x : Sized(x) => Sized(x)'
  BY DEF Follows, Sized
<1> SUFFICES ASSUME f.proc = "finalizeSize" PROVE CalmFrame(f)'
  BY DEF CalmFrame
<1>3. PICK a \in Agg : a = f.of
  BY DEF FrameOK
<1>4. BaseSized(a)'
  <2>1. BaseKnown(a) /\ (baseClassOf[a] # NoBase => Sized(baseClassOf[a]))
    BY <1>1, <1>3, BaseClasses DEF CalmFrame, BaseSized, Sized
  <2>2. BaseKnown(a)' /\ baseClassOf'[a] = baseClassOf[a]
    BY <1>1, <2>1, BaseMoves
  <2>3. baseClassOf[a] # NoBase => sizeokOf'[baseClassOf[a]] = "done"
    BY <1>1, <1>2, <2>1, BaseClasses DEF Sized
  <2> QED BY <2>2, <2>3 DEF BaseSized
<1>5. ASSUME f.pc # "enter", NEW j \in DOMAIN Members(a), OfType(a, j), j < f.i \/ j \in listedOf'[a]
      PROVE  Sized(PartOf(a, j))'
  <2>1. sizeokOf[a] # "none" /\ Follows(a)
    BY <1>3 DEF SizeFrame
  <2>2. j < f.i \/ j \in listedOf[a] \/ Sized(PartOf(a, j))
    BY <1>5, <2>1 DEF Follows
  <2>3. Sized(PartOf(a, j))
    BY <1>3, <1>5, <2>2 DEF CalmFrame
  <2>4. PartOf(a, j)' = PartOf(a, j)
    BY <1>1 DEF PartOf
  <2>5. PICK x : x = PartOf(a, j)
    OBVIOUS
  <2> QED BY <1>2, <2>3, <2>4, <2>5 DEF Sized
<1>6. \A j \in DOMAIN Members(a)' : OfType(a, j)' <=> OfType(a, j)
  BY <1>1 DEF OfType
<1>7. f.pc # "enter" /\ a \in Struct => sizeokOf'[a] \in {"inProcess", "done"}
  BY <1>3 DEF CalmFrame, Follows
<1>8. f.pc # "enter" => \A j \in DOMAIN Members(a)' :
          OfType(a, j)' /\ (j < f.i \/ j \in listedOf'[a]) => Sized(PartOf(a, j))'
  BY <1>1, <1>5, <1>6
<1> QED BY <1>3, <1>4, <1>7, <1>8 DEF CalmFrame

LEMMA PartsKept ==
    ASSUME Calmly, \A b \in Agg : Follows(b)
    PROVE  PartsInv' /\ SizedTree'
<1>1. /\ program' = program /\ program \in Programs /\ PartsInv /\ SizedTree
      /\ \A a : Members(a)' = Members(a)
  BY CalmFacts DEF Calmly, CalmInv
<1>2. \A x : Sized(x) => Sized(x)'
  BY DEF Follows, Sized
<1>3. \A a \in Agg : /\ \A j \in DOMAIN Members(a) :
                          /\ IsField(a, j)' <=> IsField(a, j)
                          /\ OfType(a, j)' <=> OfType(a, j)
                          /\ PartOf(a, j)' = PartOf(a, j)
                     /\ \A c : Contains(a, c)' <=> Contains(a, c)
  BY <1>1 DEF IsField, OfType, PartOf, Contains
<1>4. \A a \in Agg : PartsSized(a) => PartsSized(a)'
  BY <1>2, <1>3 DEF PartsSized
<1>5. \A a \in Agg : doneOf'[a] \subseteq DOMAIN Members(a) /\ placedOf'[a] \subseteq DOMAIN Members(a)
  BY <1>1 DEF doneOf, placedOf
<1>6. \A a \in Agg : \A j \in DOMAIN Members(a) : Sized(PartOf(a, j)) => Sized(PartOf(a, j))'
  <2> SUFFICES ASSUME NEW a \in Agg, NEW j \in DOMAIN Members(a), Sized(PartOf(a, j))
               PROVE  Sized(PartOf(a, j))'
    OBVIOUS
  <2>1. PICK x : x = PartOf(a, j)
    OBVIOUS
  <2> QED BY <1>2, <1>3, <2>1 DEF Sized
<1>7. ASSUME NEW a \in Agg PROVE Parts(a)'
  <2>1. Parts(a) /\ Follows(a)
    BY <1>1 DEF PartsInv
  <2>2. sizeokOf'[a] # "none" => \A j \in DOMAIN Members(a)' : IsField(a, j)' => j \in doneOf'[a]
    BY <1>1, <1>3, <2>1 DEF Parts, Follows, AllListed
  <2>3. listedOf'[a] \subseteq doneOf'[a]
    BY <2>1 DEF Parts, Follows
  <2>4. a \in Struct /\ sizeokOf'[a] = "fwd" => AllListed(a)'
    <3> SUFFICES ASSUME a \in Struct, sizeokOf'[a] = "fwd" PROVE AllListed(a)'
      OBVIOUS
    <3>1. listedOf'[a] = listedOf[a] /\ sizeokOf[a] \in {"none", "fwd"}
      <4>1. sizeokOf[a] \in {"none", "fwd", "inProcess", "done"}
        BY CalmFacts DEF AggSet
      <4> QED BY <2>1, <4>1 DEF Follows
    <3>2. AllListed(a)
      BY <2>1, <3>1 DEF Parts, Follows
    <3> QED BY <1>1, <1>3, <3>1, <3>2 DEF AllListed
  <2>5. \A j \in doneOf'[a] : OfType(a, j)' \/ Sized(PartOf(a, j))'
    BY <1>3, <1>5, <1>6, <2>1 DEF Parts, Follows
  <2>6. \A j \in placedOf'[a] : OfType(a, j)' => Sized(PartOf(a, j))'
    BY <1>3, <1>5, <1>6, <2>1 DEF Parts, Follows
  <2>7. Sized(a)' => PartsSized(a)'
    BY <1>4, <2>1 DEF Parts, Follows
  <2> QED BY <2>2, <2>3, <2>4, <2>5, <2>6, <2>7 DEF Parts
<1>8. SizedTree'
  <2> SUFFICES ASSUME NEW S \in SUBSET Agg, S # {}, \A x \in S : Sized(x)'
               PROVE  \E x \in S : \A y \in S : ~Contains(x, y)
    BY <1>3 DEF SizedTree
  <2>1. \A x \in S : PartsSized(x)
    BY <1>1 DEF Follows, PartsInv, Parts
  <2> DEFINE T == {x \in S : Sized(x)}
  <2>2. CASE T = {}
    BY <2>1, <2>2 DEF PartsSized
  <2>3. CASE T # {}
    <3>1. PICK x \in T : \A y \in T : ~Contains(x, y)
      BY <1>1, <2>3 DEF SizedTree
    <3> QED BY <2>1, <3>1 DEF PartsSized
  <2> QED BY <2>2, <2>3
<1> QED BY <1>7, <1>8 DEF PartsInv

\* The calls go on knowing what they knew.
LEMMA CallsKept ==
    ASSUME Calmly, \A b \in Agg : Follows(b), CalmMove
    PROVE  CalmFrames' /\ FillInv' /\ PlaceInv'
<1>1. /\ DataInv /\ StackInv /\ StackInv' /\ FramesInv /\ program' = program
      /\ CalmFrames /\ FillInv /\ PlaceInv /\ \A a : Members(a)' = Members(a)
  BY CalmFacts DEF Calmly, CalmInv
<1>2. \A b \in Agg, i \in Nat : Listed(b, i) /\ listedOf'[b] = listedOf[b] => Listed(b, i)'
  BY <1>1 DEF Listed, IsField
<1>3. PICK d \in Nat : d = Depth' /\ (d = 0 <=> stack' = <<>>)
  BY <1>1, EmptyStack DEF StackInv, Depth
<1>4. \A k \in 1..d : levels'[k] \in FrameSet
  BY <1>1, <1>3 DEF StackInv, Depth, levels
<1>5. d > 0 => d \in 1..d
  OBVIOUS
<1>6. CASE stack = <<>>
  <2>1. \A k \in 1..d : levels'[k].proc = "runDeferred" /\ levels'[k].pc = "enter"
    BY <1>3, <1>6 DEF CalmMove
  <2>2. CalmFrames'
    <3>1. \A k \in 1..d, f \in FrameSet : f = levels'[k] => CalmFrame(f)' /\ TopCalm(f)'
      BY <2>1 DEF CalmFrame, TopCalm
    <3> QED BY <1>3, <1>5, <3>1 DEF CalmFrames
  <2>3. FillInv'
    <3>1. \A a \in Agg, k \in 1..d : ~Filling(levels'[k], a)
      BY <2>1 DEF Filling
    <3> QED BY <1>3, <3>1 DEF FillInv, Filling
  <2>4. PlaceInv'
    <3>1. \A k : k \notin 1..Depth
      BY <1>6, EmptyStack, <1>1 DEF StackInv
    <3>2. \A a \in Agg : sizeokOf[a] # "inProcess"
      BY <1>1, <3>1 DEF PlaceInv
    <3>3. \A a \in Agg : ~(d > 0 /\ Placing(levels'[d], a))
      BY <1>5, <2>1 DEF Placing
    <3> QED BY <1>3, <3>2, <3>3 DEF PlaceInv, Follows
  <2> QED BY <2>2, <2>3, <2>4
<1>7. ASSUME stack # <<>>, NEW k \in 1..Depth, NEW f \in FrameSet, f = levels[k]
      PROVE  CalmFrame(f)'
  <2>1. SizeFrame(f) /\ FrameOK(f, program) /\ CalmFrame(f)
    BY <1>1, <1>7 DEF FramesInv, StackInv, CalmFrames
  <2> QED BY <2>1, CalmLasts
<1>8. ASSUME stack # <<>>, NEW k \in 1..Depth - 1, NEW a \in Agg, NEW i \in Nat,
             levels[k].i = i, Filling(levels[k], a), sizeokOf'[a] = "none"
      PROVE  \/ d > 0 /\ Filling(levels'[d], a)
             \/ \E n \in 1..Depth : n > k /\ Filling(levels[n], a)
             \/ Listed(a, i)'
  <2>1. sizeokOf[a] = "none" /\ Depth \in Nat /\ k \in 1..Depth
    BY <1>8, TopFacts, <1>1 DEF Follows
  <2>2. (\E n \in 1..Depth : n > k /\ Filling(levels[n], a)) \/ Listed(a, i)
    BY <1>1, <1>8, <2>1 DEF FillInv
  <2>3. listedOf'[a] = listedOf[a] \/ (d > 0 /\ Filling(levels'[d], a))
    BY <1>3, <1>8 DEF Follows
  <2> QED BY <1>2, <2>2, <2>3
<1>9. ASSUME stack # <<>>
      PROVE  /\ Depth \in Nat \ {0} /\ Top = levels[Depth]
             /\ \A k \in 1..Depth : levels[k] \in FrameSet /\ levels[k].i \in Nat
  <2>1. Depth \in Nat \ {0} /\ Top = levels[Depth] /\ \A k \in 1..Depth : levels[k] \in FrameSet
    BY <1>1, <1>9, TopLevel DEF StackInv
  <2> QED BY <2>1 DEF FrameSet
<1> DEFINE Filled == \A a \in Agg, k \in 1..d : Filling(levels'[k], a) /\ sizeokOf'[a] = "none" =>
                        \/ \E n \in 1..d : n > k /\ Filling(levels'[n], a)
                        \/ Listed(a, levels[k].i)'
           Placed == \A a \in Agg : sizeokOf'[a] = "inProcess" => \E k \in 1..d : Placing(levels'[k], a)
<1>10. (Filled => FillInv') /\ (Placed => PlaceInv')
  BY <1>3 DEF FillInv, PlaceInv, Filling, Placing
<1> HIDE DEF Filled, Placed
<1>11. CASE stack # <<>> /\ Popped
  <2>1. /\ Depth \in Nat \ {0} /\ d = Depth - 1 /\ Depth \in 1..Depth
        /\ \A k \in 1..d : k \in 1..Depth - 1 /\ k \in 1..Depth /\ levels'[k] = levels[k]
        /\ \A k \in 1..Depth : k \in 1..d \/ k = Depth
    <3>1. Depth \in Nat \ {0} /\ d = Depth - 1
      BY <1>3, <1>9, <1>11 DEF Popped
    <3>2. \A k \in 1..d : k \in 1..Depth - 1 /\ k \in 1..Depth /\ levels'[k] = levels[k]
      BY <1>1, <1>3, <1>11, NextLevels
    <3>3. \A k \in 1..Depth : k \in 1..d \/ k = Depth
      BY <3>1
    <3> QED BY <3>1, <3>2, <3>3
  <2>2. /\ listedOf' = listedOf
        /\ \A b \in Agg : /\ Depth > 1 /\ Filling(Top, b) => sizeokOf'[b] # "none"
                          /\ Placing(Top, b) => sizeokOf'[b] # "inProcess"
        /\ \A f \in FrameSet : Depth > 1 /\ f = levels[Depth - 1] => TopCalm(f)'
    <3>1. \A f : ~WentOn(f)
      BY <1>3, <2>1 DEF WentOn
    <3>2. \A f, g : ~Called(f, g)
      BY <1>3, <2>1 DEF Called
    <3> QED BY <1>11, <3>1, <3>2 DEF CalmMove
  <2>3. CalmFrames'
    <3>1. \A k \in 1..d, f \in FrameSet : f = levels'[k] => CalmFrame(f)'
      BY <1>7, <1>11, <2>1
    <3>2. ASSUME NEW f \in FrameSet, d > 0, f = levels'[d] PROVE TopCalm(f)'
      <4>1. Depth > 1 /\ f = levels[Depth - 1]
        BY <1>5, <2>1, <3>2
      <4> QED BY <2>2, <4>1
    <3> QED BY <1>3, <3>1, <3>2 DEF CalmFrames
  <2>4. Filled
    <3> SUFFICES ASSUME NEW a \in Agg, NEW k \in 1..d, Filling(levels'[k], a), sizeokOf'[a] = "none"
                 PROVE  (\E n \in 1..d : n > k /\ Filling(levels'[n], a)) \/ Listed(a, levels[k].i)'
      BY DEF Filled
    <3>1. k \in 1..Depth /\ levels'[k] = levels[k] /\ Depth > 1
      BY <2>1
    <3>2. PICK i \in Nat : i = levels[k].i
      BY <1>9, <1>11, <3>1
    <3>3. sizeokOf[a] = "none"
      BY DEF Follows
    <3>4. (\E n \in 1..Depth : n > k /\ Filling(levels[n], a)) \/ Listed(a, i)
      BY <1>1, <3>1, <3>2, <3>3 DEF FillInv
    <3>5. CASE Listed(a, i)
      <4>1. Listed(a, i)'
        BY <1>2, <2>2, <3>5
      <4> QED BY <3>1, <3>2, <4>1 DEF Listed
    <3>6. CASE \E n \in 1..Depth : n > k /\ Filling(levels[n], a)
      <4>1. PICK n \in 1..Depth : n > k /\ Filling(levels[n], a)
        BY <3>6
      <4>2. n # Depth
        BY <1>9, <1>11, <2>2, <3>1, <4>1
      <4> QED BY <2>1, <4>1, <4>2
    <3> QED BY <3>4, <3>5, <3>6
  <2>5. Placed
    <3> SUFFICES ASSUME NEW a \in Agg, sizeokOf'[a] = "inProcess"
                 PROVE  \E k \in 1..d : Placing(levels'[k], a)
      BY DEF Placed
    <3>1. CASE sizeokOf[a] = "inProcess"
      <4>1. PICK k \in 1..Depth : Placing(levels[k], a)
        BY <1>1, <3>1 DEF PlaceInv
      <4>2. k # Depth
        BY <1>9, <1>11, <2>2, <4>1
      <4> QED BY <2>1, <4>1, <4>2
    <3>2. CASE d > 0 /\ Placing(levels'[d], a)
      BY <1>5, <3>2
    <3> QED BY <1>3, <3>1, <3>2 DEF Follows
  <2> QED BY <1>10, <2>3, <2>4, <2>5
<1>12. ASSUME stack # <<>>, NEW f, Holds(f), levels'[Depth] = f, d >= Depth,
              \A k \in 1..Depth - 1 : levels'[k] = levels[k],
              NEW a \in Agg
       PROVE  /\ \A k \in 1..Depth : Filling(levels'[k], a) /\ sizeokOf'[a] = "none" =>
                    \/ \E n \in 1..d : n > k /\ Filling(levels'[n], a)
                    \/ Listed(a, levels[k].i)'
              /\ sizeokOf'[a] = "inProcess" => \E k \in 1..d : Placing(levels'[k], a)
  <2>1. /\ Depth \in Nat \ {0} /\ Top = levels[Depth] /\ Depth \in 1..d
        /\ \A k \in 1..Depth : k \in 1..d /\ (k # Depth => k \in 1..Depth - 1 /\ levels'[k] = levels[k])
    <3>1. Depth \in Nat \ {0} /\ Top = levels[Depth]
      BY <1>9, <1>12
    <3>2. \A k \in 1..Depth : k \in 1..d /\ (k # Depth => k \in 1..Depth - 1)
      BY <1>12, <3>1
    <3>3. Depth \in 1..d
      BY <1>12, <3>1
    <3> QED BY <1>12, <3>1, <3>2, <3>3
  <2>2. /\ Filling(Top, a) => Filling(f, a)
        /\ Placing(Top, a) => Placing(f, a)
        /\ Filling(f, a) /\ sizeokOf'[a] = "none" => Listed(a, f.i)'
    BY <1>12 DEF Holds
  <2>3. ASSUME NEW k \in 1..Depth, Filling(levels'[k], a), sizeokOf'[a] = "none"
        PROVE  (\E n \in 1..d : n > k /\ Filling(levels'[n], a)) \/ Listed(a, levels[k].i)'
    <3>1. CASE k = Depth
      <4>1. Listed(a, f.i)'
        BY <1>12, <2>2, <2>3, <3>1
      <4> QED BY <1>12, <3>1, <4>1 DEF Listed
    <3>2. CASE k # Depth
      <4>1. k \in 1..Depth - 1 /\ levels'[k] = levels[k]
        BY <2>1, <3>2
      <4>2. PICK i \in Nat : i = levels[k].i
        BY <1>9, <1>12
      <4>3. \/ d > 0 /\ Filling(levels'[d], a)
            \/ \E n \in 1..Depth : n > k /\ Filling(levels[n], a)
            \/ Listed(a, i)'
        BY <1>8, <1>12, <2>3, <4>1, <4>2
      <4>4. CASE Listed(a, i)'
        BY <4>1, <4>2, <4>4 DEF Listed
      <4>5. CASE d > 0 /\ Filling(levels'[d], a)
        <5>1. d \in 1..d /\ d > k
          BY <2>1, <4>1, <4>5, <1>12
        <5> QED BY <4>5, <5>1
      <4>6. CASE \E n \in 1..Depth : n > k /\ Filling(levels[n], a)
        <5>1. PICK n \in 1..Depth : n > k /\ Filling(levels[n], a)
          BY <4>6
        <5>2. n \in 1..d /\ Filling(levels'[n], a)
          BY <1>12, <2>1, <2>2, <5>1
        <5> QED BY <5>1, <5>2
      <4> QED BY <4>3, <4>4, <4>5, <4>6
    <3> QED BY <3>1, <3>2
  <2>4. ASSUME sizeokOf'[a] = "inProcess" PROVE \E k \in 1..d : Placing(levels'[k], a)
    <3>1. CASE sizeokOf[a] = "inProcess"
      <4>1. PICK k \in 1..Depth : Placing(levels[k], a)
        BY <1>1, <3>1 DEF PlaceInv
      <4> QED BY <1>12, <2>1, <2>2, <4>1
    <3>2. CASE d > 0 /\ Placing(levels'[d], a)
      BY <1>5, <3>2
    <3> QED BY <1>3, <2>4, <3>1, <3>2 DEF Follows
  <2> QED BY <2>3, <2>4
<1>13. CASE stack # <<>> /\ \E f : WentOn(f) /\ Holds(f) /\ TopCalm(f)'
  <2>1. PICK f : WentOn(f) /\ Holds(f) /\ TopCalm(f)'
    BY <1>13
  <2>2. /\ Depth \in Nat \ {0} /\ d = Depth /\ levels'[Depth] = f /\ d >= Depth
        /\ \A k \in 1..Depth - 1 : levels'[k] = levels[k]
        /\ \A k \in 1..d : k \in 1..Depth /\ (levels'[k] = levels[k] \/ k = Depth)
    BY <1>1, <1>3, <1>13, <2>1, NextLevels DEF WentOn
  <2>3. CalmFrames'
    <3>1. \A k \in 1..d, h \in FrameSet : h = levels'[k] => CalmFrame(h)'
      BY <1>7, <1>13, <2>1, <2>2 DEF Holds
    <3>2. \A h \in FrameSet : d > 0 /\ h = levels'[d] => TopCalm(h)'
      BY <2>1, <2>2
    <3> QED BY <1>3, <3>1, <3>2 DEF CalmFrames
  <2>4. Filled /\ Placed
    <3>1. /\ \A a \in Agg, k \in 1..Depth : Filling(levels'[k], a) /\ sizeokOf'[a] = "none" =>
                    \/ \E n \in 1..d : n > k /\ Filling(levels'[n], a)
                    \/ Listed(a, levels[k].i)'
          /\ \A a \in Agg : sizeokOf'[a] = "inProcess" => \E k \in 1..d : Placing(levels'[k], a)
      BY <1>12, <1>13, <2>1, <2>2
    <3> QED BY <2>2, <3>1 DEF Filled, Placed
  <2> QED BY <1>10, <2>3, <2>4
<1>14. CASE /\ stack # <<>>
            /\ \E f, g : Called(f, g) /\ Holds(f) /\ g.pc = "enter" /\ CalmFrame(g)'
  <2>1. PICK f, g : Called(f, g) /\ Holds(f) /\ g.pc = "enter" /\ CalmFrame(g)'
    BY <1>14
  <2>2. /\ Depth \in Nat \ {0} /\ d = Depth + 1 /\ levels'[Depth] = f /\ d >= Depth /\ levels'[d] = g
        /\ \A k \in 1..Depth - 1 : levels'[k] = levels[k]
        /\ \A k \in 1..d : \/ k \in 1..Depth /\ (levels'[k] = levels[k] \/ k = Depth)
                           \/ k = d
    BY <1>1, <1>3, <1>14, <2>1, NextLevels DEF Called
  <2>3. CalmFrames'
    <3>1. \A k \in 1..d, h \in FrameSet : h = levels'[k] => CalmFrame(h)'
      BY <1>7, <1>14, <2>1, <2>2 DEF Holds
    <3>2. TopCalm(g)'
      BY <2>1 DEF TopCalm
    <3>3. \A h \in FrameSet : d > 0 /\ h = levels'[d] => TopCalm(h)'
      BY <2>2, <3>2
    <3> QED BY <1>3, <3>1, <3>3 DEF CalmFrames
  <2>4. Filled /\ Placed
    <3>1. /\ \A a \in Agg, k \in 1..Depth : Filling(levels'[k], a) /\ sizeokOf'[a] = "none" =>
                    \/ \E n \in 1..d : n > k /\ Filling(levels'[n], a)
                    \/ Listed(a, levels[k].i)'
          /\ \A a \in Agg : sizeokOf'[a] = "inProcess" => \E k \in 1..d : Placing(levels'[k], a)
      BY <1>12, <1>14, <2>1, <2>2
    <3>2. \A a \in Agg : ~Filling(levels'[d], a)
      BY <2>1, <2>2 DEF Filling
    <3> QED BY <2>2, <3>1, <3>2 DEF Filled, Placed
  <2> QED BY <1>10, <2>3, <2>4
<1> QED BY <1>6, <1>11, <1>13, <1>14 DEF CalmMove

-----------------------------------------------------------------------------
(***************************************************************************)
(* The steps of the inner calls, between calm states.                      *)
(***************************************************************************)
LEMMA GotoStill ==
    ASSUME Top \in FrameSet, NEW pc \in Pcs
    PROVE  Goto(pc) = GotoMember(pc, Top.i)
  BY DEF FrameSet, Goto, GotoMember

\* What is known of the innermost call before an inner step.
LEMMA InnerCalm ==
    ASSUME Calmly, InnerStep
    PROVE  /\ stack # <<>> /\ Top \in FrameSet /\ Top.proc \in InnerProcs /\ Top.of \in Agg
           /\ Depth \in Nat \ {0} /\ Depth \in 1..Depth /\ Top = levels[Depth] /\ RunSame
           /\ FrameOK(Top, program) /\ (Depth > 1 => Waits(levels[Depth - 1], Top, program))
           /\ CalmFrame(Top) /\ TopCalm(Top) /\ SizeFrame(Top) /\ TopSized(Top)
           /\ Parts(Top.of) /\ Consistent /\ SizeInv /\ DataInv /\ StackInv /\ VarInv
           /\ agg \in [Agg -> AggSet] /\ errors \in Nat
<1>1. Consistent /\ SizeInv /\ DataInv /\ StackInv /\ FramesInv /\ CalmFrames /\ PartsInv
  BY CalmFacts DEF Calmly, CalmInv
<1>2. stack # <<>> /\ Top \in FrameSet /\ Top.proc \in InnerProcs /\ Top.of \in Agg /\ RunSame
  BY <1>1, InnerRuns
<1>3. /\ Depth \in Nat \ {0} /\ Depth \in 1..Depth /\ Top = levels[Depth] /\ FrameOK(Top, program)
      /\ Depth > 1 => Waits(levels[Depth - 1], Top, program)
  BY <1>1, <1>2, TopFacts
<1>4. SizeFrame(Top) /\ TopSized(Top)
  BY <1>1, <1>2, TopKnows
<1>5. CalmFrame(Top) /\ TopCalm(Top)
  <2>1. PICK f \in FrameSet : f = Top
    BY <1>2
  <2>2. CalmFrame(f) /\ TopCalm(f)
    BY <1>1, <1>3, <2>1 DEF CalmFrames
  <2> QED BY <2>1, <2>2
<1>6. Parts(Top.of)
  BY <1>1, <1>2 DEF PartsInv
<1>7. VarInv /\ agg \in [Agg -> AggSet] /\ errors \in Nat
  BY <1>1, DataParts DEF OthersOK
<1> QED BY <1>1, <1>2, <1>3, <1>4, <1>5, <1>6, <1>7

LEMMA IdleStays ==
    ASSUME program' = program, agg' = agg, var' = var
    PROVE  listedOf' = listedOf /\ sizeokOf' = sizeokOf /\ \A b \in Agg : Stays(b) /\ Follows(b)
<1>1. sizeokOf' = sizeokOf /\ fieldsOf' = fieldsOf
  BY SameAgg DEF AggSame
<1>2. listedOf' = listedOf
  BY <1>1 DEF listedOf
<1>3. placedOf' = placedOf /\ doneOf' = doneOf
  BY PlacesStay
<1>4. \A b \in Agg : Stays(b)
  BY <1>1, <1>2, <1>3 DEF Stays
<1> QED BY <1>1, <1>2, <1>4, StayFollows

\* A call that returns has done what the one that waits for it needs.
LEMMA PopCalm ==
    ASSUME Calmly, InnerStep, stack' = Tail(stack), listedOf' = listedOf,
           Top.proc = "determineSize" => sizeokOf'[Top.of] = "done",
           Top.proc = "determineFields" /\ Depth > 1 => sizeokOf'[Top.of] # "none",
           Top.proc = "finalizeSize" /\ Top.pc # "enter" => sizeokOf'[Top.of] # "inProcess"
    PROVE  CalmMove
<1>1. /\ stack # <<>> /\ Top \in FrameSet /\ Top.proc \in InnerProcs /\ stack \in Seq(FrameSet)
      /\ Depth > 1 => Waits(levels[Depth - 1], Top, program)
  BY InnerCalm DEF StackInv
<1>2. Popped /\ program' = program
  BY <1>1, ReturnShape, CalmFacts
<1>3. \A b \in Agg : /\ Depth > 1 /\ Filling(Top, b) => sizeokOf'[b] # "none"
                     /\ Placing(Top, b) => sizeokOf'[b] # "inProcess"
  BY DEF Filling, Placing
<1>4. ASSUME NEW f \in FrameSet, Depth > 1, f = levels[Depth - 1] PROVE TopCalm(f)'
  <2>1. Waits(f, Top, program)
    BY <1>1, <1>4
  <2>2. f.proc \in {"variable", "finalizeSize"} /\ f.pc = "sized" =>
           Top.proc = "determineSize" /\ Top.of = program.members[f.of][f.i].of
    BY <1>1, <2>1 DEF Waits, InnerProcs
  <2>3. f.pc = "fields" => Top.proc = "determineFields" /\ Top.of = f.of
    BY <1>1, <2>1 DEF Waits, InnerProcs
  <2>4. ~(f.proc = "determineFields" /\ f.pc = "next")
    BY <1>1, <2>1 DEF Waits, InnerProcs
  <2>5. PartOf(f.of, f.i)' = program.members[f.of][f.i].of
    BY <1>2 DEF PartOf, Members
  <2>6. f.proc \in {"variable", "finalizeSize"} /\ f.pc = "sized" => Sized(PartOf(f.of, f.i))'
    <3> SUFFICES ASSUME f.proc \in {"variable", "finalizeSize"}, f.pc = "sized" PROVE Sized(PartOf(f.of, f.i))'
      OBVIOUS
    <3>1. PICK x \in Agg : x = Top.of /\ sizeokOf'[x] = "done"
      BY <2>2, InnerCalm
    <3> QED BY <2>2, <2>5, <3>1 DEF Sized
  <2> QED BY <1>4, <2>3, <2>4, <2>6 DEF TopCalm
<1> QED BY <1>1, <1>2, <1>3, <1>4 DEF CalmMove

\* A variable that has been given its type.
LEMMA TypedVar ==
    ASSUME VarInv, NEW a \in Agg, NEW i \in DOMAIN Members(a), NEW bad \in BOOLEAN,
           var' = [var EXCEPT ![a][i].semanticRun = "done", ![a][i].terror = bad]
    PROVE  \E v \in VarSet : /\ v.semanticRun = "done" /\ v.placed = var[a][i].placed
                             /\ var' = [var EXCEPT ![a] = [var[a] EXCEPT ![i] = v]]
<1> DEFINE v == [var[a][i] EXCEPT !.semanticRun = "done", !.terror = bad]
<1>1. var[a][i] \in VarSet
  BY VarFacts
<1>2. v \in VarSet /\ v.semanticRun = "done" /\ v.placed = var[a][i].placed
  BY <1>1 DEF VarSet, Runs
<1>3. var' = [var EXCEPT ![a] = [var[a] EXCEPT ![i] = v]]
  BY DEF VarInv
<1> HIDE DEF v
<1> QED BY <1>2, <1>3

LEMMA WrittenCalm ==
    ASSUME Calmly, InnerStep, Top.proc = "variable", stack' = Tail(stack), agg' = agg,
           NEW a \in Agg, a = Top.of, NEW i, i = Top.i, OfType(a, i) \/ Sized(PartOf(a, i)),
           NEW v \in VarSet, v.semanticRun = "done", v.placed = var[a][i].placed,
           var' = [var EXCEPT ![a] = [var[a] EXCEPT ![i] = v]]
    PROVE  CalmMove /\ \A b \in Agg : Follows(b)
<1>1. FrameOK(Top, program) /\ DataInv /\ VarInv /\ program' = program
  BY InnerCalm, CalmFacts
<1>2. i \in DOMAIN Members(a)
  BY <1>1 DEF FrameOK, Members
<1>3. VarBecame(a, i, v.semanticRun, v.terror)
  BY <1>1, <1>2, SetVar
<1>4. /\ \A b \in Agg : b # a => placedOf'[b] = placedOf[b]
      /\ placedOf'[a] = IF v.placed THEN placedOf[a] \cup {i} ELSE placedOf[a] \ {i}
  BY <1>1, <1>2, SetPlaced
<1>5. \A b \in Agg : placedOf'[b] = placedOf[b]
  <2>1. i \in placedOf[a] <=> v.placed
    BY <1>2 DEF placedOf
  <2> QED BY <1>4, <2>1
<1>6. sizeokOf' = sizeokOf /\ listedOf' = listedOf
  BY SameAgg DEF AggSame, listedOf
<1>7. ASSUME NEW b \in Agg PROVE Follows(b)
  <2>1. CASE b # a
    <3>1. Stays(b)
      BY <1>3, <1>5, <1>6, <2>1 DEF VarBecame, Stays
    <3> QED BY <3>1, StayFollows
  <2>2. CASE b = a
    <3>1. doneOf'[b] = doneOf[b] \cup {i} /\ placedOf'[b] = placedOf[b]
      BY <1>3, <1>5, <2>2 DEF VarBecame
    <3> QED BY <1>2, <1>6, <2>2, <3>1 DEF Follows, Sized
  <2> QED BY <2>1, <2>2
<1>8. CalmMove
  BY <1>6, PopCalm
<1> QED BY <1>7, <1>8

LEMMA VariableCalm ==
    ASSUME Calmly, VariableAtOnce \/ VariableOfStruct \/ VariableOfSize \/ VariableSized
    PROVE  CalmMove /\ \A b \in Agg : Follows(b)
<1> DEFINE a == Top.of
           i == Top.i
           s == Members(a)[i].of
<1>1. InnerStep /\ Top.proc = "variable"
  BY DEF InnerStep, VariableAtOnce, VariableOfStruct, VariableOfSize, VariableSized, At
<1>2. /\ stack # <<>> /\ a \in Agg /\ FrameOK(Top, program) /\ TopCalm(Top) /\ Top \in FrameSet
      /\ DataInv /\ StackInv /\ VarInv /\ program' = program /\ program \in Programs
  BY <1>1, InnerCalm, CalmFacts
<1>3. i \in DOMAIN Members(a) /\ i \in Nat /\ s \in Agg
  <2>1. i \in DOMAIN Members(a) /\ Members(a)[i].kind # Import
    BY <1>1, <1>2 DEF FrameOK, Members
  <2> QED BY <1>2, <2>1, ProgramFacts DEF FrameSet
<1>4. CASE VariableAtOnce
  <2>1. agg' = agg /\ var' = var /\ stack' = Tail(stack)
    BY <1>4 DEF VariableAtOnce, Return
  <2> QED BY <1>1, <1>2, <2>1, IdleStays, PopCalm
<1>5. CASE VariableOfStruct
  <2>1. /\ var' = [var EXCEPT ![a][i].semanticRun = "done", ![a][i].terror = agg[s].terror]
        /\ agg' = agg /\ stack' = Tail(stack) /\ OfType(a, i)
    BY <1>5 DEF VariableOfStruct, Typed, Return, OfType
  <2>2. agg[s].terror \in BOOLEAN
    BY <1>2, <1>3, AggFields DEF DataInv, AggSet
  <2>3. PICK v \in VarSet : /\ v.semanticRun = "done" /\ v.placed = var[a][i].placed
                            /\ var' = [var EXCEPT ![a] = [var[a] EXCEPT ![i] = v]]
    BY <1>2, <1>3, <2>1, <2>2, TypedVar
  <2>4. agg' = agg /\ stack' = Tail(stack) /\ OfType(a, i)
    BY <2>1
  <2> QED BY <1>1, <1>2, <2>3, <2>4, WrittenCalm
<1>6. CASE VariableSized
  <2>1. PICK bad : var' = [var EXCEPT ![a][i].semanticRun = "done", ![a][i].terror = bad] /\ bad \in BOOLEAN
    <3> DEFINE wrong == IF s \in Class THEN agg[s].sizeok # "done" ELSE ~ret
    <3>1. var' = [var EXCEPT ![a][i].semanticRun = "done", ![a][i].terror = wrong]
      BY <1>6 DEF VariableSized, Typed
    <3>2. wrong \in BOOLEAN
      BY <1>2 DEF DataInv
    <3> HIDE DEF wrong
    <3> QED BY <3>1, <3>2
  <2>2. agg' = agg /\ stack' = Tail(stack) /\ Sized(PartOf(a, i))
    BY <1>1, <1>2, <1>6 DEF VariableSized, Return, TopCalm, At
  <2>3. PICK v \in VarSet : /\ v.semanticRun = "done" /\ v.placed = var[a][i].placed
                            /\ var' = [var EXCEPT ![a] = [var[a] EXCEPT ![i] = v]]
    BY <1>2, <1>3, <2>1, TypedVar
  <2> QED BY <1>1, <1>2, <2>2, <2>3, WrittenCalm
<1>7. CASE VariableOfSize
  <2> DEFINE v == [var[a][i] EXCEPT !.semanticRun = "semantic", !.scope = FALSE]
  <2>1. /\ agg' = agg /\ var[a][i].semanticRun # "done"
        /\ \/ Continue(Goto("sized")) /\ s \in Class /\ agg[s].sizeok = "done"
           \/ Call(Goto("sized"), DetermineSize(s))
    BY <1>7 DEF VariableOfSize
  <2>2. /\ v \in VarSet /\ v.semanticRun = "semantic" /\ v.terror = var[a][i].terror /\ v.placed = var[a][i].placed
        /\ i \notin doneOf[a]
    <3>1. var[a][i] \in VarSet /\ (i \in doneOf[a] <=> var[a][i].semanticRun = "done")
      BY <1>2, <1>3, VarFacts
    <3> QED BY <2>1, <3>1 DEF VarSet, Runs
  <2>3. var' = [var EXCEPT ![a] = [var[a] EXCEPT ![i] = v]]
    BY <1>2, <1>3, <1>7 DEF VariableOfSize, VarInv
  <2> HIDE DEF v
  <2>4. VarBecame(a, i, v.semanticRun, v.terror)
    BY <1>2, <1>3, <2>2, <2>3, SetVar
  <2>5. /\ \A b \in Agg : b # a => placedOf'[b] = placedOf[b]
        /\ placedOf'[a] = IF v.placed THEN placedOf[a] \cup {i} ELSE placedOf[a] \ {i}
    BY <1>2, <1>3, <2>2, <2>3, SetPlaced
  <2>6. sizeokOf' = sizeokOf /\ listedOf' = listedOf
    BY <2>1, SameAgg DEF AggSame, listedOf
  <2>7. \A b \in Agg : Follows(b)
    <3>1. i \in placedOf[a] <=> v.placed
      BY <1>2, <1>3, <2>2 DEF placedOf
    <3>2. placedOf'[a] = placedOf[a]
      BY <2>5, <3>1
    <3>3. doneOf'[a] = doneOf[a]
      BY <2>2, <2>4 DEF VarBecame
    <3>4. \A b \in Agg : placedOf'[b] = placedOf[b] /\ doneOf'[b] = doneOf[b]
      BY <2>4, <2>5, <3>2, <3>3 DEF VarBecame
    <3> QED BY <2>6, <3>4, StayFollows DEF Stays
  <2>8. "sized" \in Pcs
    BY DEF Pcs
  <2>9. CASE Continue(Goto("sized")) /\ s \in Class /\ agg[s].sizeok = "done"
    <3>1. Continue(GotoMember("sized", i))
      BY <1>2, <2>8, <2>9, GotoStill
    <3>2. PICK f : WentOn(f) /\ Onward(f, "sized") /\ f.i = i
      BY <1>2, <1>3, <2>8, <3>1, GoesToMember
    <3>3. f.proc = "variable" /\ f.of = a /\ f.pc = "sized"
      BY <1>1, <3>2 DEF Onward
    <3>4. Sized(s) /\ PartOf(f.of, f.i)' = s
      BY <1>2, <1>3, <2>9, <3>2, <3>3, AggFields DEF Sized, DataInv, PartOf, Members
    <3>5. Sized(PartOf(f.of, f.i))'
      <4>1. PICK x : x = s
        OBVIOUS
      <4> QED BY <2>6, <3>4, <4>1 DEF Sized
    <3>6. TopCalm(f)' /\ Holds(f)
      BY <1>1, <3>3, <3>5 DEF TopCalm, Holds, CalmFrame, Filling, Placing
    <3> QED BY <1>2, <2>7, <3>2, <3>6 DEF CalmMove
  <2>10. CASE Call(Goto("sized"), DetermineSize(s))
    <3>1. DetermineSize(s) \in FrameSet /\ DetermineSize(s).proc = "determineSize" /\ DetermineSize(s).pc = "enter"
      BY <1>3, NewFrames
    <3>2. PICK f, h : Called(f, h) /\ Onward(f, "sized") /\ h.proc = "determineSize" /\ h.pc = "enter"
      <4> HIDE DEF s
      <4> QED BY <1>2, <2>8, <2>10, <3>1, Goes
    <3>3. f.proc = "variable"
      BY <1>1, <3>2 DEF Onward
    <3>4. Holds(f) /\ CalmFrame(h)'
      BY <1>1, <3>2, <3>3 DEF Holds, CalmFrame, Filling, Placing
    <3> QED BY <1>2, <2>7, <3>2, <3>4 DEF CalmMove
  <2> QED BY <2>1, <2>9, <2>10
<1> QED BY <1>4, <1>5, <1>6, <1>7

LEMMA SizeGoes ==
    ASSUME Calmly, InnerStep, Top.proc = "determineSize", agg' = agg, NEW pc \in Pcs,
           \/ pc # "fields" /\ Continue(Goto(pc))
           \/ \E g \in FrameSet : /\ Call(Goto(pc), g) /\ g.pc = "enter"
                                  /\ g.proc = "finalizeSize" => BaseSized(g.of)
    PROVE  CalmMove
<1>1. stack # <<>> /\ StackInv /\ RunSame /\ sizeokOf' = sizeokOf
  BY InnerCalm, SameAgg DEF AggSame
<1>2. \A b : BaseSized(b) => BaseSized(b)'
  BY <1>1 DEF BaseSized, BaseKnown, RunSame
<1>3. ASSUME NEW f, Onward(f, pc) PROVE Holds(f)
  BY <1>3 DEF Onward, Holds, CalmFrame, Filling, Placing
<1>4. CASE pc # "fields" /\ Continue(Goto(pc))
  <2>1. PICK f : WentOn(f) /\ Onward(f, pc)
    BY <1>1, <1>4, Goes
  <2>2. TopCalm(f)'
    BY <1>4, <2>1 DEF Onward, TopCalm
  <2> QED BY <1>1, <1>3, <2>1, <2>2 DEF CalmMove
<1>5. CASE \E g \in FrameSet : /\ Call(Goto(pc), g) /\ g.pc = "enter"
                               /\ g.proc = "finalizeSize" => BaseSized(g.of)
  <2>1. PICK g \in FrameSet : /\ Call(Goto(pc), g) /\ g.pc = "enter"
                              /\ g.proc = "finalizeSize" => BaseSized(g.of)
    BY <1>5
  <2>2. PICK f, h : Called(f, h) /\ Onward(f, pc) /\ h.proc = g.proc /\ h.of = g.of /\ h.pc = g.pc
    BY <1>1, <2>1, Goes
  <2>3. CalmFrame(h)'
    BY <1>2, <2>1, <2>2 DEF CalmFrame
  <2> QED BY <1>1, <1>3, <2>1, <2>2, <2>3 DEF CalmMove
<1> QED BY <1>4, <1>5

LEMMA SizeCalm ==
    ASSUME Calmly, SizeAtOnce \/ SizeEnter \/ SizeBase \/ SizeBased \/ SizeFields \/ SizeFinal
    PROVE  CalmMove /\ \A b \in Agg : Follows(b)
<1>1. InnerStep /\ Top.proc = "determineSize"
  BY DEF InnerStep, SizeAtOnce, SizeEnter, SizeBase, SizeBased, SizeFields, SizeFinal, At
<1>2. /\ stack # <<>> /\ Consistent /\ SizeInv /\ DataInv /\ StackInv /\ program' = program
      /\ errors = 0 /\ errors' = 0
  BY <1>1, InnerCalm, CalmFacts
<1>3. PICK a \in Agg : a = Top.of /\ ~agg[a].terror /\ sizeokOf[a] = agg[a].sizeok
  BY <1>1, InnerCalm, CalmFacts
<1>4. ~SizeFail
  BY <1>2, <1>3 DEF SizeFail
<1>5. agg' = agg /\ var' = var
  BY <1>4 DEF SizeAtOnce, SizeEnter, SizeBase, SizeBased, SizeFields, SizeFinal
<1>6. listedOf' = listedOf /\ sizeokOf' = sizeokOf /\ \A b \in Agg : Follows(b)
  BY <1>2, <1>5, IdleStays
<1>7. "base" \in Pcs /\ "based" \in Pcs /\ "fields" \in Pcs /\ "final" \in Pcs
  BY DEF Pcs
<1>8. CASE SizeAtOnce \/ SizeFinal
  <2>1. stack' = Tail(stack) /\ sizeokOf[a] = "done"
    BY <1>3, <1>4, <1>8 DEF SizeAtOnce, SizeFinal, ReturnValue
  <2> QED BY <1>1, <1>3, <1>6, <2>1, PopCalm
<1>9. CASE SizeEnter
  <2>1. Continue(Goto("base")) \/ Call(Goto("base"), Semantic(a, FALSE))
    BY <1>3, <1>9 DEF SizeEnter
  <2>2. \E g \in FrameSet : g = Semantic(a, FALSE) /\ g.pc = "enter" /\ g.proc # "finalizeSize"
    <3> DEFINE g == Semantic(a, FALSE)
    <3>1. g \in FrameSet /\ g.pc = "enter" /\ g.proc = "semantic"
      BY NewFrames
    <3> HIDE DEF g
    <3>2. g.proc # "finalizeSize"
      BY <3>1
    <3> QED BY <3>1, <3>2 DEF g
  <2> QED BY <1>1, <1>5, <1>6, <1>7, <2>1, <2>2, SizeGoes
<1>10. CASE SizeBase
  <2>1. PICK b : b = agg[a].baseClass /\ (b # NoBase => b \in Agg)
    <3>1. baseClassOf[a] = agg[a].baseClass
      BY <1>2, AggFields DEF DataInv
    <3> QED BY <1>2, <3>1, BaseClasses
  <2>2. \/ b \in Agg /\ Call(Goto("based"), DetermineSize(b))
        \/ Call(Goto("fields"), DetermineFields(a))
    BY <1>3, <1>10, <2>1 DEF SizeBase
  <2>3. /\ b \in Agg => /\ DetermineSize(b) \in FrameSet /\ DetermineSize(b).pc = "enter"
                        /\ DetermineSize(b).proc # "finalizeSize"
        /\ DetermineFields(a) \in FrameSet /\ DetermineFields(a).pc = "enter"
        /\ DetermineFields(a).proc # "finalizeSize"
    BY NewFrames
  <2> QED BY <1>1, <1>5, <1>6, <1>7, <2>2, <2>3, SizeGoes
<1>11. CASE SizeBased
  <2>1. Call(Goto("fields"), DetermineFields(a))
    BY <1>3, <1>4, <1>11 DEF SizeBased
  <2>2. /\ DetermineFields(a) \in FrameSet /\ DetermineFields(a).pc = "enter"
        /\ DetermineFields(a).proc # "finalizeSize"
    BY NewFrames
  <2> QED BY <1>1, <1>5, <1>6, <1>7, <2>1, <2>2, SizeGoes
<1>12. CASE SizeFields
  <2>1. Call(Goto("final"), FinalizeSize(a)) \/ Continue(Goto("final"))
    BY <1>3, <1>4, <1>12 DEF SizeFields
  <2>2. BaseSized(a)
    BY <1>1, <1>2, <1>3, <1>12, AskedBases DEF SizeFields, At
  <2>3. FinalizeSize(a) \in FrameSet /\ FinalizeSize(a).pc = "enter" /\ FinalizeSize(a).of = a
    BY NewFrames
  <2> QED BY <1>1, <1>5, <1>6, <1>7, <2>1, <2>2, <2>3, SizeGoes
<1> QED BY <1>8, <1>9, <1>10, <1>11, <1>12

\* What the innermost call that fills a list knows.
LEMMA FillingTop ==
    ASSUME Calmly, InnerStep, Top.proc = "determineFields", NEW a \in Agg, a = Top.of
    PROVE  /\ Top.pc \in {"next", "push"} /\ sizeokOf[a] = "none" => Listed(a, Top.i)
           /\ Top.pc = "next" => sizeokOf[a] = "none" /\ Top.i \in Nat \ {0}
           /\ Top.pc = "push" => Top.i \in DOMAIN Members(a) /\ IsField(a, Top.i) /\ Top.i \in Nat
<1>1. FrameOK(Top, program) /\ TopCalm(Top) /\ Top = levels[Depth] /\ Depth \in 1..Depth /\ Depth \in Nat
  BY InnerCalm
<1>2. Top.pc = "push" => Top.i \in DOMAIN Members(a) /\ IsField(a, Top.i)
  BY <1>1 DEF FrameOK, Members, IsField
<1>3. DOMAIN Members(a) \subseteq Nat
  BY CalmFacts, ProgramFacts
<1>4. Top.pc = "next" => sizeokOf[a] = "none" /\ Top.i \in Nat \ {0}
  BY <1>1 DEF FrameOK, TopCalm
<1>5. ASSUME Top.pc \in {"next", "push"}, sizeokOf[a] = "none" PROVE Listed(a, Top.i)
  <2>1. Filling(levels[Depth], a)
    BY <1>1, <1>5 DEF Filling
  <2>2. FillInv
    BY DEF Calmly, CalmInv
  <2>3. \A n \in 1..Depth : ~(n > Depth)
    BY <1>1
  <2> QED BY <1>1, <1>5, <2>1, <2>2, <2>3 DEF FillInv
<1> QED BY <1>2, <1>3, <1>4, <1>5

LEMMA FieldsGo ==
    ASSUME Calmly, InnerStep, Top.proc = "determineFields", NEW a \in Agg, a = Top.of,
           NEW pc \in Pcs, NEW i \in Nat, pc # "fields",
           Top.pc \in {"next", "push"} => pc \in {"next", "push"},
           pc \in {"next", "push"} /\ sizeokOf'[a] = "none" => Listed(a, i)',
           pc = "next" => sizeokOf'[a] = "none",
           \/ Continue(GotoMember(pc, i))
           \/ \E g \in FrameSet : Call(GotoMember(pc, i), g) /\ g.pc = "enter" /\ g.proc # "finalizeSize"
    PROVE  /\ CalmMove
           /\ pc = "next" /\ Continue(GotoMember(pc, i)) => Depth' > 0 /\ Filling(levels'[Depth'], a)
<1>1. stack # <<>> /\ StackInv /\ Depth \in Nat \ {0}
  BY InnerCalm
<1>2. ASSUME NEW f, Onward(f, pc), f.i = i PROVE Holds(f)
  <2>1. f.proc = "determineFields" /\ f.of = a /\ f.pc = pc
    BY <1>2 DEF Onward
  <2>2. \A b \in Agg : Filling(f, b) /\ sizeokOf'[b] = "none" => Listed(b, f.i)'
    BY <1>2, <2>1 DEF Filling
  <2>3. CalmFrame(f)'
    BY <2>1 DEF CalmFrame
  <2>4. \A b \in Agg : (Filling(Top, b) => Filling(f, b)) /\ (Placing(Top, b) => Placing(f, b))
    BY <2>1 DEF Filling, Placing
  <2> QED BY <2>2, <2>3, <2>4 DEF Holds
<1>3. CASE Continue(GotoMember(pc, i))
  <2>1. PICK f : WentOn(f) /\ Onward(f, pc) /\ f.i = i
    BY <1>1, <1>3, GoesToMember
  <2>2. f.proc = "determineFields" /\ f.of = a /\ f.pc = pc
    BY <2>1 DEF Onward
  <2>3. TopCalm(f)'
    BY <2>2 DEF TopCalm
  <2>4. pc = "next" => Depth' > 0 /\ Filling(levels'[Depth'], a)
    BY <1>1, <2>1, <2>2 DEF WentOn, Filling
  <2> QED BY <1>1, <1>2, <2>1, <2>3, <2>4 DEF CalmMove
<1>4. CASE ~Continue(GotoMember(pc, i))
  <2>1. PICK g \in FrameSet : Call(GotoMember(pc, i), g) /\ g.pc = "enter" /\ g.proc # "finalizeSize"
    BY <1>4
  <2>2. PICK f, h : /\ Called(f, h) /\ Onward(f, pc) /\ f.i = i
                    /\ h.proc = g.proc /\ h.of = g.of /\ h.pc = g.pc
    BY <1>1, <2>1, GoesToMember
  <2>3. CalmFrame(h)'
    BY <2>1, <2>2 DEF CalmFrame
  <2> QED BY <1>1, <1>2, <1>4, <2>1, <2>2, <2>3 DEF CalmMove
<1> QED BY <1>3, <1>4

\* The list of an aggregate that has no size yet is begun or made longer.
LEMMA ListWritten ==
    ASSUME Calmly, var' = var, NEW a \in Agg, agg' = [agg EXCEPT ![a] = agg'[a]],
           agg'[a].sizeok = agg[a].sizeok, sizeokOf[a] = "none",
           listedOf'[a] \subseteq listedOf[a] \cup doneOf[a],
           Depth' > 0 /\ Filling(levels'[Depth'], a)
    PROVE  \A b \in Agg : Follows(b)
<1>1. DataInv /\ program' = program
  BY CalmFacts
<1>2. sizeokOf' = sizeokOf /\ \A b \in Agg : b # a => listedOf'[b] = listedOf[b]
  BY <1>1, WritesOne
<1>3. placedOf' = placedOf /\ doneOf' = doneOf
  BY <1>1, PlacesStay
<1>4. \A b \in Agg : b # a => Follows(b)
  BY <1>2, <1>3, StayFollows DEF Stays
<1>5. Follows(a)
  BY <1>2, <1>3 DEF Follows, Sized
<1> QED BY <1>4, <1>5

LEMMA FieldsStartCalm ==
    ASSUME Calmly, FieldsEnter \/ FieldsStart
    PROVE  CalmMove /\ \A b \in Agg : Follows(b)
<1>1. InnerStep /\ Top.proc = "determineFields"
  BY DEF InnerStep, FieldsEnter, FieldsStart, At
<1>2. /\ stack # <<>> /\ DataInv /\ StackInv /\ program' = program /\ program \in Programs /\ Top \in FrameSet
      /\ agg \in [Agg -> AggSet]
  BY <1>1, InnerCalm, CalmFacts
<1>3. PICK a \in Agg : a = Top.of /\ sizeokOf[a] = agg[a].sizeok /\ agg[a] \in AggSet
  BY <1>1, InnerCalm, CalmFacts
<1>4. "start" \in Pcs /\ "next" \in Pcs /\ Top.i \in Nat
  BY <1>2 DEF Pcs, FrameSet
<1>5. CASE FieldsEnter
  <2>1. agg' = agg /\ var' = var /\ Top.pc = "enter"
    BY <1>5 DEF FieldsEnter, At
  <2>2. \A b \in Agg : Follows(b)
    BY <1>2, <2>1, IdleStays
  <2> DEFINE g == Semantic(a, FALSE)
  <2>3. g \in FrameSet /\ g.pc = "enter" /\ g.proc = "semantic"
    BY NewFrames
  <2>4. Continue(GotoMember("start", Top.i)) \/ Call(GotoMember("start", Top.i), g)
    BY <1>2, <1>3, <1>4, <1>5, GotoStill DEF FieldsEnter
  <2> HIDE DEF g
  <2>5. CalmMove
    BY <1>1, <1>3, <1>4, <2>1, <2>3, <2>4, FieldsGo
  <2> QED BY <2>2, <2>5
<1>6. CASE FieldsStart /\ sizeokOf[a] # "none"
  <2>1. agg' = agg /\ var' = var /\ stack' = Tail(stack)
    BY <1>3, <1>6 DEF FieldsStart, ReturnValue
  <2>2. listedOf' = listedOf /\ sizeokOf' = sizeokOf /\ \A b \in Agg : Follows(b)
    BY <1>2, <2>1, IdleStays
  <2> QED BY <1>1, <1>3, <1>6, <2>1, <2>2, PopCalm
<1>7. CASE FieldsStart /\ sizeokOf[a] = "none"
  <2>1. agg' = [agg EXCEPT ![a].fields = <<>>] /\ Continue(GotoMember("next", 1)) /\ var' = var
    BY <1>3, <1>7 DEF FieldsStart
  <2>2. agg' = [agg EXCEPT ![a] = agg'[a]] /\ agg'[a].sizeok = agg[a].sizeok /\ agg'[a].fields = <<>>
    BY <1>2, <1>3, <2>1 DEF AggSet
  <2>3. sizeokOf' = sizeokOf /\ listedOf'[a] = {}
    BY <1>2, <2>2, WritesOne
  <2>4. Listed(a, 1)'
    <3>1. \A j \in DOMAIN Members(a)' : ~(j < 1)
      BY <1>2, ProgramFacts DEF Members
    <3> QED BY <3>1 DEF Listed
  <2>5. CalmMove /\ Depth' > 0 /\ Filling(levels'[Depth'], a)
    BY <1>1, <1>3, <1>4, <1>7, <2>1, <2>3, <2>4, FieldsGo
  <2>6. \A b \in Agg : Follows(b)
    BY <1>7, <2>1, <2>2, <2>3, <2>5, ListWritten
  <2> QED BY <2>5, <2>6
<1> QED BY <1>5, <1>6, <1>7

LEMMA FieldsNextCalm ==
    ASSUME Calmly, FieldsNext
    PROVE  CalmMove /\ \A b \in Agg : Follows(b)
<1>1. InnerStep /\ Top.proc = "determineFields" /\ Top.pc = "next" /\ var' = var
  BY DEF InnerStep, FieldsNext, At
<1>2. /\ stack # <<>> /\ DataInv /\ StackInv /\ program' = program /\ program \in Programs /\ Top \in FrameSet
      /\ agg \in [Agg -> AggSet] /\ \A b : Members(b)' = Members(b)
  BY <1>1, InnerCalm, CalmFacts
<1>3. PICK a \in Agg : a = Top.of /\ sizeokOf[a] = agg[a].sizeok /\ agg[a] \in AggSet
  BY <1>1, InnerCalm, CalmFacts
<1>4. "push" \in Pcs /\ sizeokOf[a] = "none" /\ Listed(a, Top.i) /\ Top.i \in Nat \ {0}
  BY <1>1, <1>3, FillingTop DEF Pcs
<1>5. PICK n \in Nat : n = NextField(a, Top.i) /\ (n = 0 => NoFieldFrom(a, Top.i)) /\ NoFieldIn(a, Top.i, n)
  BY <1>2, <1>4, NextFieldIs, Skipped
<1>6. /\ n = 0 => /\ agg' = [agg EXCEPT ![a].sizeok = IF @ # "done" THEN "fwd" ELSE @]
                  /\ stack' = Tail(stack)
      /\ n # 0 => /\ agg' = agg
                  /\ Call(GotoMember("push", n), Variable(a, n, FALSE)) \/ Continue(GotoMember("push", n))
  BY <1>3, <1>5 DEF FieldsNext, ReturnValue
<1>7. DOMAIN Members(a) \subseteq Nat
  BY <1>2, ProgramFacts
<1>8. CASE n = 0
  <2>1. /\ agg' = [agg EXCEPT ![a] = agg'[a]] /\ agg'[a].sizeok = "fwd" /\ agg'[a].fields = agg[a].fields
    BY <1>2, <1>3, <1>4, <1>6, <1>8 DEF AggSet
  <2>2. /\ \A b \in Agg : b # a => sizeokOf'[b] = sizeokOf[b]
        /\ sizeokOf'[a] = "fwd" /\ listedOf' = listedOf
    BY <1>2, <2>1, WritesOne
  <2>3. placedOf' = placedOf /\ doneOf' = doneOf
    BY <1>1, <1>2, PlacesStay
  <2>4. AllListed(a)
    <3>1. \A j \in DOMAIN Members(a) : IsField(a, j) => j < Top.i
      BY <1>4, <1>5, <1>7, <1>8 DEF NoFieldFrom
    <3> QED BY <1>4, <3>1 DEF AllListed, Listed
  <2>5. \A b \in Agg : b # a => Follows(b)
    BY <2>2, <2>3, StayFollows DEF Stays
  <2>6. Follows(a)
    BY <1>4, <2>2, <2>3, <2>4 DEF Follows, Sized
  <2>7. CalmMove
    BY <1>1, <1>3, <1>6, <1>8, <2>2, PopCalm
  <2> QED BY <2>5, <2>6, <2>7
<1>9. CASE n # 0
  <2>1. agg' = agg /\ listedOf' = listedOf /\ \A b \in Agg : Follows(b)
    BY <1>1, <1>2, <1>6, <1>9, IdleStays
  <2>2. Listed(a, n)'
    <3> SUFFICES ASSUME NEW j \in DOMAIN Members(a), j < n, IsField(a, j) PROVE j \in listedOf[a]
      BY <1>2, <2>1 DEF Listed, IsField
    <3>1. j < Top.i
      BY <1>4, <1>5, <1>7 DEF NoFieldIn
    <3> QED BY <1>4, <3>1 DEF Listed
  <2> DEFINE g == Variable(a, n, FALSE)
  <2>3. g \in FrameSet /\ g.pc = "enter" /\ g.proc = "variable"
    BY <1>5, NewFrames
  <2>4. Continue(GotoMember("push", n)) \/ Call(GotoMember("push", n), g)
    BY <1>6, <1>9
  <2> HIDE DEF g
  <2>5. CalmMove
    BY <1>1, <1>3, <1>4, <1>5, <2>2, <2>3, <2>4, FieldsGo
  <2> QED BY <2>1, <2>5
<1> QED BY <1>8, <1>9

LEMMA FieldsPushCalm ==
    ASSUME Calmly, FieldsPush
    PROVE  CalmMove /\ \A b \in Agg : Follows(b)
<1>1. InnerStep /\ Top.proc = "determineFields" /\ Top.pc = "push" /\ var' = var
  BY DEF InnerStep, FieldsPush, At
<1>2. /\ stack # <<>> /\ DataInv /\ StackInv /\ program' = program /\ program \in Programs /\ Top \in FrameSet
      /\ agg \in [Agg -> AggSet] /\ errors = 0 /\ errors' = 0 /\ \A b : Members(b)' = Members(b)
  BY <1>1, InnerCalm, CalmFacts
<1>3. PICK a \in Agg : a = Top.of /\ sizeokOf[a] = agg[a].sizeok /\ agg[a] \in AggSet
  BY <1>1, InnerCalm, CalmFacts
<1>4. PICK i \in Nat : i = Top.i /\ i \in DOMAIN Members(a) /\ (sizeokOf[a] = "none" => Listed(a, i))
  BY <1>1, <1>3, FillingTop
<1>5. "next" \in Pcs /\ DOMAIN Members(a) \subseteq Nat
  BY <1>2, ProgramFacts DEF Pcs
<1>6. CASE sizeokOf[a] # "none" \/ var[a][i].semanticRun # "done"
  <2>1. agg' = agg /\ stack' = Tail(stack) /\ ret' = (sizeokOf[a] # "none")
    BY <1>3, <1>4, <1>6 DEF FieldsPush, ReturnValue
  <2>2. listedOf' = listedOf /\ sizeokOf' = sizeokOf /\ \A b \in Agg : Follows(b)
    BY <1>1, <1>2, <2>1, IdleStays
  <2>3. ASSUME Depth > 1 PROVE sizeokOf[a] # "none"
    <3>1. Waits(levels[Depth - 1], Top, program) /\ Depth \in Nat
      BY <1>1, <2>3, InnerCalm
    <3>2. levels[Depth - 1].pc = "fields"
      BY <1>1, <3>1 DEF Waits
    <3>3. Popped
      BY <1>2, <2>1, ReturnShape DEF StackInv
    <3>4. Depth' > 0 /\ levels'[Depth'].pc = "fields"
      BY <2>3, <3>1, <3>2, <3>3 DEF Popped
    <3>5. ~Failing'
      BY DEF Calmly, Calm
    <3> QED BY <2>1, <3>4, <3>5 DEF Failing
  <2> QED BY <1>1, <1>3, <2>1, <2>2, <2>3, PopCalm
<1>7. CASE sizeokOf[a] = "none" /\ var[a][i].semanticRun = "done"
  <2>1. \/ errors' = errors + 1
        \/ agg' = [agg EXCEPT ![a].fields = Append(@, i)] /\ Continue(GotoMember("next", i + 1))
    BY <1>3, <1>4, <1>7 DEF FieldsPush
  <2>2. agg' = [agg EXCEPT ![a].fields = Append(@, i)] /\ Continue(GotoMember("next", i + 1))
    BY <1>2, <2>1
  <2>3. /\ agg' = [agg EXCEPT ![a] = agg'[a]] /\ agg'[a].sizeok = agg[a].sizeok
        /\ agg'[a].fields = Append(agg[a].fields, i)
    BY <1>2, <1>3, <2>2 DEF AggSet
  <2>4. sizeokOf' = sizeokOf /\ listedOf'[a] = listedOf[a] \cup {i}
    BY <1>2, <2>3, WritesOne
  <2>5. i \in doneOf[a]
    BY <1>4, <1>7 DEF doneOf
  <2>6. Listed(a, i + 1)'
    <3> SUFFICES ASSUME NEW j \in DOMAIN Members(a), j < i + 1, IsField(a, j) PROVE j \in listedOf'[a]
      BY <1>2 DEF Listed, IsField
    <3>1. j < i \/ j = i
      BY <1>5
    <3> QED BY <1>4, <1>7, <2>4, <3>1 DEF Listed
  <2>7. CalmMove /\ Depth' > 0 /\ Filling(levels'[Depth'], a)
    BY <1>1, <1>3, <1>4, <1>5, <1>7, <2>2, <2>4, <2>6, FieldsGo
  <2>8. \A b \in Agg : Follows(b)
    BY <1>1, <1>7, <2>3, <2>4, <2>5, <2>7, ListWritten
  <2> QED BY <2>7, <2>8
<1> QED BY <1>6, <1>7

\* What the innermost call that gives places knows.
LEMMA PlacingTop ==
    ASSUME Calmly, InnerStep, Top.proc = "finalizeSize", NEW a \in Agg, a = Top.of
    PROVE  /\ BaseSized(a) /\ sizeokOf[a] # "none"
           /\ \A j \in DOMAIN Members(a) : IsField(a, j) => j \in doneOf[a]
           /\ Top.pc = "enter" => sizeokOf[a] # "done"
           /\ Top.pc # "enter" =>
                /\ \A j \in DOMAIN Members(a) :
                      OfType(a, j) /\ (j < Top.i \/ j \in listedOf[a]) => Sized(PartOf(a, j))
                /\ a \in Struct => sizeokOf[a] \in {"inProcess", "done"}
           /\ Top.pc = "next" => Top.i \in Nat \ {0}
           /\ Top.pc = "sized" => /\ Top.i \in DOMAIN Members(a) /\ Top.i \in Nat
                                  /\ OfType(a, Top.i) /\ Sized(PartOf(a, Top.i))
<1>1. /\ FrameOK(Top, program) /\ CalmFrame(Top) /\ TopCalm(Top) /\ SizeFrame(Top) /\ TopSized(Top)
      /\ Parts(a)
  BY InnerCalm
<1>2. BaseSized(a) /\ sizeokOf[a] # "none" /\ (Top.pc = "enter" => sizeokOf[a] # "done")
  BY <1>1 DEF CalmFrame, SizeFrame, TopSized
<1>3. \A j \in DOMAIN Members(a) : IsField(a, j) => j \in doneOf[a]
  BY <1>1, <1>2 DEF Parts
<1>4. Top.pc # "enter" =>
         /\ \A j \in DOMAIN Members(a) :
               OfType(a, j) /\ (j < Top.i \/ j \in listedOf[a]) => Sized(PartOf(a, j))
         /\ a \in Struct => sizeokOf[a] \in {"inProcess", "done"}
  BY <1>1 DEF CalmFrame
<1>5. Top.pc = "next" => Top.i \in Nat \ {0}
  BY <1>1 DEF FrameOK
<1>6. Top.pc = "sized" => Top.i \in DOMAIN Members(a) /\ OfType(a, Top.i) /\ Sized(PartOf(a, Top.i))
  BY <1>1 DEF FrameOK, Members, OfType, TopCalm
<1>7. DOMAIN Members(a) \subseteq Nat
  BY CalmFacts, ProgramFacts
<1> QED BY <1>2, <1>3, <1>4, <1>5, <1>6, <1>7

LEMMA PlacingGo ==
    ASSUME Calmly, InnerStep, Top.proc = "finalizeSize", NEW a \in Agg, a = Top.of,
           \A b \in Agg : Follows(b), NEW pc \in {"next", "sized"}, NEW i \in Nat,
           a \in Struct => sizeokOf'[a] \in {"inProcess", "done"},
           \A j \in DOMAIN Members(a) : OfType(a, j) /\ (j < i \/ j \in listedOf'[a]) => Sized(PartOf(a, j)),
           \/ pc = "next" /\ Continue(GotoMember(pc, i))
           \/ \E b \in Agg : Call(GotoMember(pc, i), DetermineSize(b))
    PROVE  CalmMove
<1>1. /\ stack # <<>> /\ StackInv /\ DataInv /\ RunSame /\ program' = program /\ pc \in Pcs
      /\ BaseSized(a) /\ \A b : Members(b)' = Members(b)
  BY InnerCalm, CalmFacts, PlacingTop DEF Pcs
<1>2. \A x : Sized(x) => Sized(x)'
  BY DEF Follows, Sized
<1>3. BaseSized(a)'
  <2>1. baseClassOf[a] = NoBase \/ baseClassOf[a] \in Agg
    BY <1>1, BaseClasses
  <2>2. baseClassOf[a] # NoBase => sizeokOf'[baseClassOf[a]] = "done"
    BY <1>1, <1>2, <2>1 DEF BaseSized, Sized
  <2> QED BY <1>1, <2>2 DEF BaseSized, BaseKnown, RunSame
<1>4. ASSUME NEW j \in DOMAIN Members(a), OfType(a, j), j < i \/ j \in listedOf'[a]
      PROVE  Sized(PartOf(a, j))'
  <2>1. PICK x : x = PartOf(a, j) /\ Sized(x)
    BY <1>4
  <2>2. PartOf(a, j)' = x
    BY <1>1, <2>1 DEF PartOf
  <2> QED BY <1>2, <2>1, <2>2 DEF Sized
<1>5. \A j \in DOMAIN Members(a) : OfType(a, j)' <=> OfType(a, j)
  BY <1>1 DEF OfType
<1>6. ASSUME NEW f, Onward(f, pc), f.i = i PROVE Holds(f)
  <2>1. f.proc = "finalizeSize" /\ f.of = a /\ f.pc = pc
    BY <1>6 DEF Onward
  <2>2. \A j \in DOMAIN Members(a)' : OfType(a, j)' /\ (j < i \/ j \in listedOf'[a]) => Sized(PartOf(a, j))'
    BY <1>1, <1>4, <1>5
  <2>3. CalmFrame(f)'
    BY <1>3, <1>6, <2>1, <2>2 DEF CalmFrame
  <2>4. \A b \in Agg : (Filling(Top, b) => Filling(f, b)) /\ (Placing(Top, b) => Placing(f, b)) /\ ~Filling(f, b)
    BY <2>1 DEF Filling, Placing
  <2> QED BY <2>3, <2>4 DEF Holds
<1>7. CASE pc = "next" /\ Continue(GotoMember(pc, i))
  <2>1. PICK f : WentOn(f) /\ Onward(f, pc) /\ f.i = i
    BY <1>1, <1>7, GoesToMember
  <2>2. TopCalm(f)'
    BY <1>7, <2>1 DEF Onward, TopCalm
  <2> QED BY <1>1, <1>6, <2>1, <2>2 DEF CalmMove
<1>8. CASE \E b \in Agg : Call(GotoMember(pc, i), DetermineSize(b))
  <2>1. PICK g \in FrameSet : Call(GotoMember(pc, i), g) /\ g.proc = "determineSize" /\ g.pc = "enter"
    BY <1>8, NewFrames
  <2>2. PICK f, h : /\ Called(f, h) /\ Onward(f, pc) /\ f.i = i
                    /\ h.proc = "determineSize" /\ h.pc = "enter"
    BY <1>1, <2>1, GoesToMember
  <2>3. CalmFrame(h)'
    BY <2>2 DEF CalmFrame
  <2> QED BY <1>1, <1>6, <2>2, <2>3 DEF CalmMove
<1> QED BY <1>7, <1>8

LEMMA FinalizeEnterCalm ==
    ASSUME Calmly, FinalizeEnter
    PROVE  CalmMove /\ \A b \in Agg : Follows(b)
<1>1. InnerStep /\ Top.proc = "finalizeSize" /\ Top.pc = "enter" /\ var' = var
  BY DEF InnerStep, FinalizeEnter, At
<1>2. /\ stack # <<>> /\ DataInv /\ StackInv /\ program' = program /\ program \in Programs
      /\ agg \in [Agg -> AggSet] /\ Depth \in Nat \ {0}
  BY <1>1, InnerCalm, CalmFacts
<1>3. PICK a \in Agg : a = Top.of /\ sizeokOf[a] = agg[a].sizeok /\ agg[a] \in AggSet
  BY <1>1, InnerCalm, CalmFacts
<1>4. sizeokOf[a] \notin {"none", "done"} /\ BaseSized(a)
  BY <1>1, <1>3, PlacingTop
<1>5. CASE a \in Struct /\ sizeokOf[a] = "inProcess"
  <2>1. agg' = agg /\ stack' = Tail(stack)
    BY <1>3, <1>5 DEF FinalizeEnter, Return
  <2>2. listedOf' = listedOf /\ \A b \in Agg : Follows(b)
    BY <1>1, <1>2, <2>1, IdleStays
  <2> QED BY <1>1, <2>1, <2>2, PopCalm
<1>6. CASE ~(a \in Struct /\ sizeokOf[a] = "inProcess")
  <2>1. /\ agg' = [agg EXCEPT ![a].fields = <<>>, ![a].sizeok = IF a \in Struct THEN "inProcess" ELSE @]
        /\ Continue(GotoMember("next", 1))
    BY <1>3, <1>6 DEF FinalizeEnter
  <2>2. /\ agg' = [agg EXCEPT ![a] = agg'[a]] /\ agg'[a].fields = <<>>
        /\ agg'[a].sizeok = IF a \in Struct THEN "inProcess" ELSE agg[a].sizeok
    BY <1>2, <1>3, <2>1 DEF AggSet
  <2>3. /\ \A b \in Agg : b # a => sizeokOf'[b] = sizeokOf[b] /\ listedOf'[b] = listedOf[b]
        /\ sizeokOf'[a] = (IF a \in Struct THEN "inProcess" ELSE sizeokOf[a]) /\ listedOf'[a] = {}
    BY <1>2, <1>3, <2>2, WritesOne
  <2>4. placedOf' = placedOf /\ doneOf' = doneOf
    BY <1>1, <1>2, PlacesStay
  <2>5. Depth' > 0 /\ Placing(levels'[Depth'], a)
    <3>1. "next" \in Pcs
      BY DEF Pcs
    <3>2. PICK f : WentOn(f) /\ Onward(f, "next")
      BY <1>2, <2>1, <3>1, GoesToMember
    <3> QED BY <1>1, <1>2, <1>3, <3>2 DEF WentOn, Onward, Placing
  <2>6. \A b \in Agg : b # a => Follows(b)
    BY <2>3, <2>4, StayFollows DEF Stays
  <2>7. Follows(a)
    BY <1>4, <2>3, <2>4, <2>5 DEF Follows, Sized
  <2>8. \A j \in DOMAIN Members(a) : ~(j < 1) /\ j \notin listedOf'[a]
    BY <1>2, <2>3, ProgramFacts
  <2>9. CalmMove
    BY <1>1, <1>3, <2>1, <2>3, <2>6, <2>7, <2>8, PlacingGo
  <2> QED BY <2>6, <2>7, <2>9
<1> QED BY <1>5, <1>6

\* A field is put in place and in the list.
LEMMA Placed ==
    ASSUME Calmly, InnerStep, Top.proc = "finalizeSize", Top.pc # "enter", NEW a \in Agg, a = Top.of,
           NEW i \in DOMAIN Members(a), i \in Nat, IsField(a, i), OfType(a, i) => Sized(PartOf(a, i)),
           \A j \in DOMAIN Members(a) : j < i /\ OfType(a, j) => Sized(PartOf(a, j)),
           agg' = [agg EXCEPT ![a].fields = Append(@, i)],
           NEW v \in VarSet, v.placed = TRUE, v.semanticRun = var[a][i].semanticRun,
           var' = [var EXCEPT ![a] = [var[a] EXCEPT ![i] = v]],
           Continue(GotoMember("next", i + 1))
    PROVE  CalmMove /\ \A b \in Agg : Follows(b)
<1>1. /\ DataInv /\ VarInv /\ program' = program /\ program \in Programs /\ agg \in [Agg -> AggSet]
      /\ sizeokOf[a] = agg[a].sizeok /\ agg[a] \in AggSet
  BY InnerCalm, CalmFacts
<1>2. /\ sizeokOf[a] # "none" /\ i \in doneOf[a] /\ (a \in Struct => sizeokOf[a] \in {"inProcess", "done"})
      /\ \A j \in DOMAIN Members(a) : OfType(a, j) /\ j \in listedOf[a] => Sized(PartOf(a, j))
  BY PlacingTop
<1>3. /\ agg' = [agg EXCEPT ![a] = agg'[a]] /\ agg'[a].sizeok = agg[a].sizeok
      /\ agg'[a].fields = Append(agg[a].fields, i)
  BY <1>1 DEF AggSet
<1>4. /\ \A b \in Agg : b # a => listedOf'[b] = listedOf[b]
      /\ sizeokOf' = sizeokOf /\ listedOf'[a] = listedOf[a] \cup {i}
  BY <1>1, <1>3, WritesOne
<1>5. /\ \A b \in Agg : b # a => placedOf'[b] = placedOf[b]
      /\ placedOf'[a] = placedOf[a] \cup {i}
  BY <1>1, SetPlaced
<1>6. /\ \A b \in Agg : b # a => doneOf'[b] = doneOf[b]
      /\ doneOf'[a] = doneOf[a]
  <2>1. VarBecame(a, i, v.semanticRun, v.terror)
    BY <1>1, SetVar
  <2>2. v.semanticRun = "done"
    BY <1>2 DEF doneOf
  <2> QED BY <1>2, <2>1, <2>2 DEF VarBecame
<1>7. \A b \in Agg : b # a => Follows(b)
  BY <1>4, <1>5, <1>6, StayFollows DEF Stays
<1>8. Follows(a)
  BY <1>2, <1>4, <1>5, <1>6 DEF Follows, Sized
<1>9. \A j \in DOMAIN Members(a) : OfType(a, j) /\ (j < i + 1 \/ j \in listedOf'[a]) => Sized(PartOf(a, j))
  <2>1. \A j \in DOMAIN Members(a) : j \in Nat
    BY <1>1, ProgramFacts
  <2>2. \A j \in DOMAIN Members(a) : j < i + 1 => j < i \/ j = i
    BY <2>1
  <2> QED BY <1>2, <1>4, <2>2
<1>10. CalmMove
  BY <1>2, <1>4, <1>7, <1>8, <1>9, PlacingGo
<1> QED BY <1>7, <1>8, <1>10

LEMMA FinalizeFieldCalm ==
    ASSUME Calmly, FinalizeField
    PROVE  CalmMove /\ \A b \in Agg : Follows(b)
<1>1. InnerStep /\ Top.proc = "finalizeSize" /\ Top.pc = "next"
  BY DEF InnerStep, FinalizeField, At
<1>2. /\ stack # <<>> /\ DataInv /\ StackInv /\ VarInv /\ program' = program /\ program \in Programs
      /\ agg \in [Agg -> AggSet]
  BY <1>1, InnerCalm, CalmFacts
<1>3. PICK a \in Agg : a = Top.of /\ badOf[a] = {} /\ fieldsOf[a] = agg[a].fields
  BY <1>1, <1>2, InnerCalm, CalmFacts, AggFields
<1>4. /\ \A j \in DOMAIN Members(a) : IsField(a, j) => j \in doneOf[a]
      /\ \A j \in DOMAIN Members(a) : OfType(a, j) /\ (j < Top.i \/ j \in listedOf[a]) => Sized(PartOf(a, j))
      /\ a \in Struct => sizeokOf[a] \in {"inProcess", "done"}
      /\ Top.i \in Nat \ {0} /\ Parts(a)
  BY <1>1, <1>3, PlacingTop, InnerCalm
<1>5. PICK n \in Nat : n = NextField(a, Top.i) /\ n # 0 /\ NoFieldIn(a, Top.i, n)
  BY <1>2, <1>3, <1>4, NextFieldIs, Skipped DEF FinalizeField
<1>6. n \in DOMAIN Members(a) /\ IsField(a, n) /\ n \in doneOf[a] /\ n \notin badOf[a]
  BY <1>2, <1>3, <1>4, <1>5, NextFieldIs
<1>7. var[a][n].semanticRun = "done" /\ ~var[a][n].terror /\ var[a][n] \in VarSet
  BY <1>2, <1>6, VarFacts
<1>8. \A j \in DOMAIN Members(a) : j < n /\ OfType(a, j) => Sized(PartOf(a, j))
  <2>1. \A j \in DOMAIN Members(a) : j \in Nat /\ (OfType(a, j) => IsField(a, j))
    BY <1>2, ProgramFacts DEF OfType, IsField
  <2>2. \A j \in DOMAIN Members(a) : j < n /\ IsField(a, j) => j < Top.i
    BY <1>4, <1>5, <2>1 DEF NoFieldIn
  <2> QED BY <1>4, <2>1, <2>2
<1> DEFINE again == var[a][n].placed \/ n \in listedOf[a]
<1>9. again <=> var[a][n].placed \/ \E k \in DOMAIN agg[a].fields : agg[a].fields[k] = n
  BY <1>3 DEF listedOf
<1>10. /\ again => Continue(GotoMember("next", n + 1)) /\ UNCHANGED <<agg, var>>
       /\ ~again /\ OfType(a, n) =>
            Call(GotoMember("sized", n), DetermineSize(PartOf(a, n))) /\ UNCHANGED <<agg, var>>
       /\ ~again /\ ~OfType(a, n) => /\ agg' = [agg EXCEPT ![a].fields = Append(@, n)]
                                     /\ var' = [var EXCEPT ![a][n].placed = TRUE]
                                     /\ Continue(GotoMember("next", n + 1))
  BY <1>3, <1>5, <1>7, <1>9 DEF FinalizeField, OfType, PartOf
<1>11. CASE again
  <2>1. listedOf' = listedOf /\ sizeokOf' = sizeokOf /\ \A b \in Agg : Follows(b)
    BY <1>2, <1>10, <1>11, IdleStays
  <2>2. OfType(a, n) => Sized(PartOf(a, n))
    BY <1>4, <1>6, <1>11 DEF Parts, placedOf
  <2>3. \A j \in DOMAIN Members(a) : OfType(a, j) /\ (j < n + 1 \/ j \in listedOf'[a]) => Sized(PartOf(a, j))
    <3>1. \A j \in DOMAIN Members(a) : j \in Nat
      BY <1>2, ProgramFacts
    <3>2. \A j \in DOMAIN Members(a) : j < n + 1 => j < n \/ j = n
      BY <3>1
    <3> QED BY <1>4, <1>8, <2>1, <2>2, <3>2
  <2>4. CalmMove
    BY <1>1, <1>3, <1>4, <1>10, <1>11, <2>1, <2>3, PlacingGo
  <2> QED BY <2>1, <2>4
<1>12. CASE ~again /\ OfType(a, n)
  <2>1. listedOf' = listedOf /\ sizeokOf' = sizeokOf /\ \A b \in Agg : Follows(b)
    BY <1>2, <1>10, <1>12, IdleStays
  <2>2. PartOf(a, n) \in Agg
    BY <1>2, <1>6, <1>12, ProgramFacts DEF OfType, PartOf, Agg
  <2>3. CalmMove
    BY <1>1, <1>3, <1>4, <1>8, <1>10, <1>12, <2>1, <2>2, PlacingGo
  <2> QED BY <2>1, <2>3
<1>13. CASE ~again /\ ~OfType(a, n)
  <2> DEFINE v == [var[a][n] EXCEPT !.placed = TRUE]
  <2>1. v \in VarSet /\ v.placed = TRUE /\ v.semanticRun = var[a][n].semanticRun
    BY <1>7 DEF VarSet
  <2>2. var' = [var EXCEPT ![a] = [var[a] EXCEPT ![n] = v]]
    BY <1>10, <1>13
  <2> HIDE DEF v
  <2>3. agg' = [agg EXCEPT ![a].fields = Append(@, n)] /\ Continue(GotoMember("next", n + 1))
    BY <1>10, <1>13
  <2> QED BY <1>1, <1>3, <1>6, <1>8, <1>13, <2>1, <2>2, <2>3, Placed
<1> QED BY <1>11, <1>12, <1>13

LEMMA FinalizeSizedCalm ==
    ASSUME Calmly, FinalizeSized
    PROVE  CalmMove /\ \A b \in Agg : Follows(b)
<1>1. InnerStep /\ Top.proc = "finalizeSize" /\ Top.pc = "sized"
  BY DEF InnerStep, FinalizeSized, At
<1>2. /\ stack # <<>> /\ DataInv /\ StackInv /\ VarInv /\ program' = program /\ program \in Programs
      /\ agg \in [Agg -> AggSet] /\ Top = levels[Depth] /\ Depth > 0 /\ ret \in BOOLEAN
  BY <1>1, InnerCalm, CalmFacts DEF DataInv
<1>3. PICK a \in Agg : a = Top.of
  BY <1>1, InnerCalm
<1>4. PICK i \in Nat : /\ i = Top.i /\ i \in DOMAIN Members(a) /\ OfType(a, i) /\ Sized(PartOf(a, i))
                       /\ \A j \in DOMAIN Members(a) : j < i /\ OfType(a, j) => Sized(PartOf(a, j))
  BY <1>1, <1>3, PlacingTop
<1>5. IsField(a, i) /\ PartOf(a, i) \in Agg /\ PartOf(a, i) = Members(a)[i].of
  BY <1>2, <1>4, ProgramFacts DEF OfType, PartOf, IsField, Agg
<1>6. ret
  <2>1. RetInv
    BY DEF Calmly, Consistent, BlameInv
  <2>2. ret \/ terrorOf[PartOf(a, i)]
    BY <1>1, <1>2, <1>3, <1>4, <1>5, <2>1 DEF RetInv
  <2> QED BY <1>5, <2>2, CalmFacts
<1>7. /\ agg' = [agg EXCEPT ![a].fields = Append(@, i)]
      /\ var' = [var EXCEPT ![a][i].placed = TRUE, ![a][i].terror = FALSE]
      /\ Continue(GotoMember("next", i + 1))
  BY <1>2, <1>3, <1>4, <1>6 DEF FinalizeSized
<1> DEFINE v == [var[a][i] EXCEPT !.placed = TRUE, !.terror = FALSE]
<1>8. v \in VarSet /\ v.placed = TRUE /\ v.semanticRun = var[a][i].semanticRun
  <2>1. var[a][i] \in VarSet
    BY <1>2, <1>4, VarFacts
  <2> QED BY <2>1 DEF VarSet
<1>9. var' = [var EXCEPT ![a] = [var[a] EXCEPT ![i] = v]]
  BY <1>2, <1>4, <1>7 DEF VarInv
<1> HIDE DEF v
<1>10. agg' = [agg EXCEPT ![a].fields = Append(@, i)] /\ Continue(GotoMember("next", i + 1))
  BY <1>7
<1> QED BY <1>1, <1>3, <1>4, <1>5, <1>8, <1>9, <1>10, Placed

LEMMA FinalizeDoneCalm ==
    ASSUME Calmly, FinalizeDone
    PROVE  CalmMove /\ \A b \in Agg : Follows(b)
<1>1. InnerStep /\ Top.proc = "finalizeSize" /\ Top.pc = "next" /\ var' = var /\ stack' = Tail(stack)
  BY DEF InnerStep, FinalizeDone, At, Return
<1>2. /\ stack # <<>> /\ DataInv /\ ChainInv /\ program' = program /\ program \in Programs
      /\ agg \in [Agg -> AggSet]
  BY <1>1, InnerCalm, CalmFacts
<1>3. PICK a \in Agg : a = Top.of /\ ~agg[a].terror /\ agg[a] \in AggSet
  BY <1>1, InnerCalm, CalmFacts
<1>4. /\ \A j \in DOMAIN Members(a) : IsField(a, j) => j \in doneOf[a]
      /\ \A j \in DOMAIN Members(a) : OfType(a, j) /\ j < Top.i => Sized(PartOf(a, j))
      /\ Top.i \in Nat \ {0} /\ Parts(a) /\ BaseSized(a) /\ sizeokOf[a] # "none"
  BY <1>1, <1>3, PlacingTop, InnerCalm
<1>5. NoFieldFrom(a, Top.i)
  BY <1>2, <1>3, <1>4, Skipped DEF FinalizeDone
<1>6. agg' = [agg EXCEPT ![a].errors = @, ![a].sizeok = "done"]
  <2>1. agg[a].errors \in BOOLEAN
    BY <1>3 DEF AggSet
  <2> QED BY <1>3, <2>1 DEF FinalizeDone
<1>7. agg' = [agg EXCEPT ![a] = agg'[a]] /\ agg'[a].sizeok = "done" /\ agg'[a].fields = agg[a].fields
  BY <1>2, <1>3, <1>6 DEF AggSet
<1>8. /\ \A b \in Agg : b # a => sizeokOf'[b] = sizeokOf[b]
      /\ sizeokOf'[a] = "done" /\ listedOf' = listedOf
  BY <1>2, <1>7, WritesOne
<1>9. placedOf' = placedOf /\ doneOf' = doneOf
  BY <1>1, <1>2, PlacesStay
<1>10. PartsSized(a)
  <2> SUFFICES ASSUME NEW c \in Agg, Contains(a, c) PROVE Sized(c)
    BY DEF PartsSized
  <2>1. ASSUME NEW j \in DOMAIN Members(a), IsField(a, j), Members(a)[j].of = c PROVE Sized(c)
    <3>1. j \in Nat /\ j < Top.i
      BY <1>2, <1>4, <1>5, <2>1, ProgramFacts DEF NoFieldFrom
    <3>2. OfType(a, j) \/ Sized(PartOf(a, j))
      BY <1>4, <2>1 DEF Parts
    <3>3. Sized(PartOf(a, j))
      BY <1>4, <3>1, <3>2
    <3> QED BY <2>1, <3>3 DEF PartOf
  <2>2. ASSUME a \in Class, program.base[a] = c PROVE Sized(c)
    <3>1. baseOf[a] = c
      BY <2>2 DEF Calmly, CalmInv, BaseRight
    <3>2. c # NoBase
      BY NamesAssumption
    <3>3. baseClassOf[a] = c
      BY <1>2, <1>4, <3>1, <3>2 DEF BaseSized, BaseKnown, ChainInv
    <3> QED BY <1>4, <3>2, <3>3 DEF BaseSized, Sized
  <2> QED BY <2>1, <2>2 DEF Contains
<1>11. \A b \in Agg : b # a => Follows(b)
  BY <1>8, <1>9, StayFollows DEF Stays
<1>12. Follows(a)
  BY <1>4, <1>8, <1>9, <1>10 DEF Follows, Sized
<1>13. CalmMove
  BY <1>1, <1>3, <1>8, PopCalm
<1> QED BY <1>11, <1>12, <1>13

LEMMA InnerMoves ==
    ASSUME Calmly, InnerStep
    PROVE  CalmMove /\ \A b \in Agg : Follows(b)
  BY VariableCalm, SizeCalm, FieldsStartCalm, FieldsNextCalm, FieldsPushCalm, FinalizeEnterCalm,
     FinalizeFieldCalm, FinalizeSizedCalm, FinalizeDoneCalm DEF InnerStep

-----------------------------------------------------------------------------
(***************************************************************************)
(* The steps of the other calls.                                           *)
(***************************************************************************)

\* They change no list of fields and no place.
LEMMA OuterFields ==
    ASSUME DataInv, StackInv, StepEffect, Step, ~InnerStep
    PROVE  \A b \in Agg : Stays(b) /\ fieldsOf'[b] = fieldsOf[b]
<1>1. /\ program' = program /\ VarSame /\ sizeokOf' = sizeokOf /\ agg \in [Agg -> AggSet]
      /\ \A b : Members(b)' = Members(b)
  BY OuterKeeps DEF DataInv, Members
<1>2. \A b \in Agg : agg'[b].fields = agg[b].fields
  <2>1. CASE UNCHANGED agg
    BY <2>1
  <2>2. CASE SemanticAtOnce \/ SemanticEnter
    BY <1>1, <2>2 DEF SemanticAtOnce, SemanticEnter, AggSet
  <2>3. CASE ClassBase \/ ClassBased \/ ClassAncestors
    <3>1. PICK c \in Agg : c = Top.of
      BY <2>3, SemanticTop DEF ClassBase, ClassBased, ClassAncestors
    <3>2. agg[c] \in AggSet /\ DOMAIN agg = Agg
      BY <1>1
    <3>3. CASE ClassBase
      <4>1. \/ agg' = [agg EXCEPT ![c].base = NoBase, ![c].baseok = "done"]
            \/ agg' = [agg EXCEPT ![c].baseClass = agg[c].base, ![c].scope = TRUE, ![c].baseok = "start"]
            \/ agg' = [agg EXCEPT ![c].baseClass = agg[c].base, ![c].baseok = "done"]
        BY <3>1, <3>3 DEF ClassBase
      <4>2. \A b \in Agg : b # c => agg'[b] = agg[b]
        BY <3>1, <3>2, <4>1
      <4>3. agg'[c].fields = agg[c].fields
        BY <3>1, <3>2, <4>1 DEF AggSet
      <4> QED BY <4>2, <4>3
    <3>4. CASE ClassBased
      <4>1. \/ agg' = [agg EXCEPT ![c].scope = TRUE, ![c].baseok = "none"]
            \/ agg' = [agg EXCEPT ![c].scope = FALSE, ![c].baseok = "done"]
        BY <3>1, <3>4 DEF ClassBased
      <4>2. \A b \in Agg : b # c => agg'[b] = agg[b]
        BY <3>1, <3>2, <4>1
      <4>3. agg'[c].fields = agg[c].fields
        BY <3>1, <3>2, <4>1 DEF AggSet
      <4> QED BY <4>2, <4>3
    <3>5. CASE ClassAncestors
      <4>1. PICK r : agg' = [agg EXCEPT ![c] = r] /\ r.fields = agg[c].fields
        BY <3>1, <3>2, <3>5 DEF ClassAncestors, AggSet
      <4> QED BY <3>1, <3>2, <4>1
    <3> QED BY <2>3, <3>3, <3>4, <3>5
  <2>4. CASE SemanticMembersDone \/ SemanticNoFields \/ SemanticDefer \/ SemanticDone
    BY <1>1, <2>4 DEF SemanticMembersDone, SemanticNoFields, SemanticDefer, SemanticDone, AggSet
  <2>5. CASE ModuleMember \/ ModuleMemberDone \/ RunDeferredAtOnce \/ RunDeferredEnter \/ RunDeferredSymbol
             \/ RunDeferredRoundDone \/ SemanticMember \/ LastTry \/ ReportUnresolved
    BY <2>1, <2>5 DEF ModuleMember, ModuleMemberDone, RunDeferredAtOnce, RunDeferredEnter, RunDeferredSymbol,
       RunDeferredRoundDone, SemanticMember, LastTry, ReportUnresolved
  <2> QED BY <2>1, <2>2, <2>3, <2>4, <2>5 DEF Step, InnerStep
<1>3. \A b \in Agg : fieldsOf'[b] = fieldsOf[b]
  BY <1>2 DEF fieldsOf
<1>4. listedOf' = listedOf
  BY <1>3 DEF listedOf
<1>5. \A b \in Agg : \A j \in DOMAIN Members(b) : var'[b][j].placed = var[b][j].placed
  <2>1. VarInv
    BY DataParts
  <2>2. CASE SemanticEnter \/ ClassAncestors
    <3>1. Top.of \in Agg
      BY <2>2, SemanticTop DEF ClassAncestors, SemanticEnter
    <3>2. CASE var' = var
      BY <3>2
    <3>3. CASE DeclareMembers(Top.of)
      <4>1. \A b \in Agg : \A j \in DOMAIN Members(b) : var[b][j] \in VarSet /\ DOMAIN var[b] = DOMAIN Members(b)
        BY <2>1, VarFacts
      <4> QED BY <2>1, <3>1, <3>3, <4>1 DEF DeclareMembers, VarInv, VarSet
    <3> QED BY <2>2, <3>2, <3>3 DEF SemanticEnter, ClassAncestors, DeclareMembers
  <2>3. CASE ~SemanticEnter /\ ~ClassAncestors
    BY <2>3 DEF Step, InnerStep, ModuleMember, ModuleMemberDone, RunDeferredAtOnce, RunDeferredEnter,
       RunDeferredSymbol, RunDeferredRoundDone, SemanticAtOnce, ClassBase, ClassBased,
       SemanticMember, SemanticMembersDone, SemanticNoFields, SemanticDefer, SemanticDone,
       LastTry, ReportUnresolved
  <2> QED BY <2>2, <2>3
<1>6. placedOf' = placedOf
  BY <1>1, <1>5 DEF placedOf
<1> QED BY <1>1, <1>3, <1>4, <1>6 DEF Stays, VarSame

\* A call of another kind that goes on has not asked for the fields.
LEMMA OuterOn ==
    ASSUME StackInv, stack # <<>>, StepEffect, ~InnerEffect, NEW f, WentOn(f)
    PROVE  f.pc # "fields"
<1>1. Depth \in Nat \ {0} /\ Top \in FrameSet
  BY TopFacts
<1>2. ~Popped /\ \A g, h : ~Called(g, h) /\ (WentOn(g) => g = f)
  BY <1>1 DEF Popped, Called, WentOn
<1> DEFINE Goal == f.pc # "fields"
<1>3. ModuleMemberEffect => Goal
  BY <1>2 DEF ModuleMemberEffect, Reached
<1>4. ~ModuleMemberDoneEffect /\ ~RunDeferredAtOnceEffect /\ ~RunDeferredSymbolEffect /\ ~SemanticAtOnceEffect
      /\ ~SemanticMembersDoneEffect /\ ~SemanticNoFieldsEffect /\ ~SemanticDeferEffect /\ ~SemanticDoneEffect
  BY <1>2 DEF ModuleMemberDoneEffect, RunDeferredAtOnceEffect, RunDeferredSymbolEffect, SemanticAtOnceEffect,
     SemanticMembersDoneEffect, SemanticNoFieldsEffect, SemanticDeferEffect, SemanticDoneEffect
<1>5. RunDeferredEnterEffect \/ RunDeferredRoundDoneEffect => Goal
  BY <1>2 DEF RunDeferredEnterEffect, RunDeferredRoundDoneEffect, RoundBegun, Retries
<1>6. SemanticEnterEffect => Goal
  BY <1>2 DEF SemanticEnterEffect
<1>7. ClassBaseEffect \/ ClassBasedEffect \/ ClassAncestorsEffect \/ SemanticMemberEffect => Goal
  BY <1>2 DEF ClassBaseEffect, ClassBasedEffect, ClassAncestorsEffect, SemanticMemberEffect, Now
<1>8. ~LastTryEffect /\ ~ReportUnresolvedEffect
  BY DEF LastTryEffect, ReportUnresolvedEffect
<1> QED BY <1>3, <1>4, <1>5, <1>6, <1>7, <1>8 DEF StepEffect

LEMMA OuterMoves ==
    ASSUME Calmly, ~InnerStep
    PROVE  CalmMove /\ \A b \in Agg : Stays(b)
<1>1. /\ DataInv /\ StackInv /\ StackInv' /\ StepEffect /\ Step /\ program' = program
  BY CalmFacts DEF Calmly
<1>2. \A b \in Agg : Stays(b)
  BY <1>1, OuterFields
<1>3. listedOf' = listedOf
  BY <1>2 DEF Stays, listedOf
<1>4. (stack # <<>> => Top.proc \notin InnerProcs) /\ ~InnerEffect
  BY <1>1, OuterKeeps DEF InnerEffect
<1>5. CASE stack = <<>>
  <2>1. Depth' = 0 \/ (Depth' = 1 /\ levels'[1].proc = "runDeferred" /\ levels'[1].pc = "enter")
    BY <1>1, <1>5, StepShape DEF Shape
  <2>2. \A k \in 1..Depth' : levels'[k].proc = "runDeferred" /\ levels'[k].pc = "enter"
    <3>1. ASSUME Depth' = 0 PROVE \A k \in 1..Depth' : FALSE
      BY <3>1
    <3>2. ASSUME Depth' = 1 PROVE \A k \in 1..Depth' : k = 1
      BY <3>2
    <3> QED BY <2>1, <3>1, <3>2
  <2> QED BY <1>2, <1>5, <2>2 DEF CalmMove
<1>6. ASSUME stack # <<>>
      PROVE  /\ Top \in FrameSet /\ Depth \in Nat \ {0} /\ (Depth > 1 => Waits(levels[Depth - 1], Top, program))
             /\ Top.proc \in {"module", "runDeferred", "semantic"}
             /\ \A f : f.proc = Top.proc => /\ CalmFrame(f)'
                                            /\ f.pc # "fields" => TopCalm(f)'
                                            /\ \A b \in Agg : ~Filling(f, b) /\ ~Placing(f, b)
  <2>1. /\ Top \in FrameSet /\ Depth \in Nat \ {0} /\ (Depth > 1 => Waits(levels[Depth - 1], Top, program))
    BY <1>1, <1>6, TopFacts
  <2>2. Top.proc \in {"module", "runDeferred", "semantic"}
    BY <1>4, <1>6, <2>1 DEF FrameSet, Procs, InnerProcs
  <2>3. ASSUME NEW f, f.proc = Top.proc
        PROVE  CalmFrame(f)' /\ (f.pc # "fields" => TopCalm(f)') /\ \A b \in Agg : ~Filling(f, b) /\ ~Placing(f, b)
    BY <2>2, <2>3 DEF CalmFrame, TopCalm, Filling, Placing
  <2> QED BY <2>1, <2>2, <2>3
<1>7. CASE stack # <<>> /\ Popped
  <2>1. ASSUME NEW f \in FrameSet, Depth > 1, f = levels[Depth - 1] PROVE TopCalm(f)'
    <3>1. Waits(f, Top, program) /\ Top.proc \in {"module", "runDeferred", "semantic"}
      BY <1>6, <1>7, <2>1
    <3>2. /\ f.proc \notin {"variable", "finalizeSize"} /\ f.pc # "fields"
          /\ ~(f.proc = "determineFields" /\ f.pc = "next")
      BY <3>1 DEF Waits
    <3> QED BY <3>2 DEF TopCalm
  <2>2. \A b \in Agg : ~Filling(Top, b) /\ ~Placing(Top, b)
    BY <1>6, <1>7
  <2> QED BY <1>2, <1>3, <1>7, <2>1, <2>2 DEF CalmMove
<1>8. CASE stack # <<>> /\ \E f : WentOn(f) /\ f.proc = Top.proc
  <2>1. PICK f : WentOn(f) /\ f.proc = Top.proc
    BY <1>8
  <2>2. f.pc # "fields"
    BY <1>1, <1>4, <1>8, <2>1, OuterOn
  <2>3. TopCalm(f)' /\ CalmFrame(f)' /\ \A b \in Agg : ~Filling(f, b) /\ ~Placing(f, b)
                    /\ ~Filling(Top, b) /\ ~Placing(Top, b)
    BY <1>6, <1>8, <2>1, <2>2
  <2>4. Holds(f)
    BY <2>3 DEF Holds
  <2> QED BY <1>2, <1>8, <2>1, <2>3, <2>4 DEF CalmMove
<1>9. CASE stack # <<>> /\ \E f, g : Called(f, g) /\ f.proc = Top.proc /\ g.pc = "enter"
  <2>1. PICK f, g : Called(f, g) /\ f.proc = Top.proc /\ g.pc = "enter"
    BY <1>9
  <2>2. CalmFrame(f)' /\ \A b \in Agg : ~Filling(f, b) /\ ~Placing(f, b) /\ ~Filling(Top, b) /\ ~Placing(Top, b)
    BY <1>6, <1>9, <2>1
  <2>3. Waits(f, g, program')
    <3>1. Depth \in Nat \ {0} /\ Depth' = Depth + 1 /\ levels'[Depth] = f /\ levels'[Depth + 1] = g
      BY <1>1, <1>9, <2>1, TopFacts DEF Called
    <3>2. Depth \in 1..Depth' - 1
      BY <3>1
    <3>3. Waits(levels'[Depth], levels'[Depth + 1], program')
      BY <1>1, <3>2 DEF StackInv
    <3> QED BY <3>1, <3>3
  <2>4. g.proc # "finalizeSize"
    BY <1>6, <1>9, <2>1, <2>3 DEF Waits
  <2>5. CalmFrame(g)' /\ Holds(f)
    BY <2>2, <2>4 DEF CalmFrame, Holds
  <2> QED BY <1>2, <1>9, <2>1, <2>5 DEF CalmMove
<1> QED BY <1>1, <1>5, <1>7, <1>8, <1>9, StepShape DEF Shape

\* So much of the invariant every step keeps.
LEMMA CalmKept ==
    ASSUME Calmly
    PROVE  PartsInv' /\ SizedTree' /\ CalmFrames' /\ FillInv' /\ PlaceInv' /\ \A b \in Agg : Follows(b)
<1>1. CalmMove /\ \A b \in Agg : Follows(b)
  BY InnerMoves, OuterMoves, StayFollows
<1> QED BY <1>1, PartsKept, CallsKept

-----------------------------------------------------------------------------
(***************************************************************************)
(* Structs that are done, and base classes.                                *)
(***************************************************************************)

\* A struct that has just been done was not before, and its fields' types were.
LEMMA ReadyKept ==
    ASSUME Calmly,
           \A a \in Struct : Ready(a)' /\ ~Ready(a) =>
              /\ runOf[a] # "done"
              /\ \A j \in DOMAIN Members(a) : OfType(a, j) => runOf[PartOf(a, j)] = "done"
    PROVE  ReadyInv'
<1>1. /\ ReadyInv /\ Grows /\ \A a : Members(a)' = Members(a)
      /\ program \in Programs /\ Struct \subseteq Agg
  BY CalmFacts DEF Calmly, CalmInv, Agg
<1>2. \A a : \A j \in DOMAIN Members(a) : (OfType(a, j)' <=> OfType(a, j)) /\ PartOf(a, j)' = PartOf(a, j)
  BY <1>1 DEF OfType, PartOf
<1>3. \A a \in Agg : \A j \in DOMAIN Members(a) : OfType(a, j) => PartOf(a, j) \in Agg
  BY <1>1, ProgramFacts DEF OfType, PartOf, Agg
<1>4. \A a \in Agg : runOf[a] = "done" => runOf'[a] = "done"
  BY <1>1 DEF Grows
<1>5. \A a \in Struct : Ready(a)' =>
         \A j \in DOMAIN Members(a) : OfType(a, j) => runOf[PartOf(a, j)] = "done"
  BY <1>1 DEF ReadyInv
<1>6. \A a \in Struct : Ready(a)' =>
         \A j \in DOMAIN Members(a)' : OfType(a, j)' => runOf'[PartOf(a, j)'] = "done"
  BY <1>1, <1>2, <1>3, <1>4, <1>5
<1>7. ASSUME NEW S \in SUBSET Struct, S # {}, \A x \in S : Ready(x)'
      PROVE  \E x \in S : \A j \in DOMAIN Members(x) : OfType(x, j) => PartOf(x, j) \notin S
  <2> DEFINE T == {x \in S : Ready(x)}
  <2>1. ASSUME NEW x \in S, x \notin T
        PROVE  runOf[x] # "done"
    BY <1>7, <2>1
  <2>2. CASE T = {}
    BY <1>1, <1>5, <1>7, <2>1, <2>2
  <2>3. CASE T # {}
    <3>1. T \in SUBSET Struct /\ \A x \in T : Ready(x)
      OBVIOUS
    <3> HIDE DEF T
    <3>2. PICK x \in T : \A j \in DOMAIN Members(x) : OfType(x, j) => PartOf(x, j) \notin T
      BY <1>1, <2>3, <3>1 DEF ReadyInv
    <3>3. x \in S
      BY DEF T
    <3>4. \A j \in DOMAIN Members(x) : OfType(x, j) => PartOf(x, j) \notin S
      BY <1>1, <1>5, <1>7, <2>1, <3>2, <3>3
    <3> QED BY <3>3, <3>4
  <2> QED BY <2>2, <2>3
<1>8. \A S \in SUBSET Struct : S # {} /\ (\A x \in S : Ready(x)') =>
         \E x \in S : \A j \in DOMAIN Members(x)' : OfType(x, j)' => PartOf(x, j)' \notin S
  <2> SUFFICES ASSUME NEW S \in SUBSET Struct, S # {}, \A x \in S : Ready(x)'
               PROVE  \E x \in S : \A j \in DOMAIN Members(x)' : OfType(x, j)' => PartOf(x, j)' \notin S
    OBVIOUS
  <2>1. PICK x \in S : \A j \in DOMAIN Members(x) : OfType(x, j) => PartOf(x, j) \notin S
    BY <1>7
  <2>2. Members(x)' = Members(x)
    BY <1>1
  <2>3. \A j \in DOMAIN Members(x)' : OfType(x, j)' => PartOf(x, j)' \notin S
    BY <1>2, <2>1, <2>2
  <2> QED BY <2>3
<1> QED BY <1>6, <1>8 DEF ReadyInv

LEMMA ReadyLasts ==
    ASSUME Calmly
    PROVE  ReadyInv'
<1>1. /\ DataInv /\ StackInv /\ StepEffect /\ Step /\ program \in Programs /\ PartsInv /\ CalmFrames
      /\ \A b \in Agg : Follows(b)
  BY CalmFacts, CalmKept DEF Calmly, CalmInv
<1>2. SUFFICES ASSUME NEW a \in Struct, Ready(a)', ~Ready(a)
               PROVE  /\ runOf[a] # "done"
                      /\ \A j \in DOMAIN Members(a) : OfType(a, j) => runOf[PartOf(a, j)] = "done"
  BY ReadyKept
<1>3. a \in Agg /\ a \notin Class
  BY NamesAssumption DEF Agg
<1>4. sizeokOf[a] \in {"none", "fwd"}
  <2>1. sizeokOf'[a] \in {"none", "fwd"} /\ Follows(a)
    BY <1>1, <1>2, <1>3 DEF Ready
  <2>2. sizeokOf[a] \in {"none", "fwd", "inProcess", "done"}
    BY <1>3, CalmFacts DEF AggSet
  <2> QED BY <1>2, <2>1, <2>2 DEF Follows
<1>5. runOf[a] # "done" /\ runOf'[a] = "done"
  BY <1>2, <1>4 DEF Ready
<1>6. stack # <<>> /\ Top.of = a /\ Top.proc = "semantic"
      /\ (SemanticAtOnceEffect \/ SemanticNoFieldsEffect \/ SemanticDoneEffect)
  BY <1>1, <1>3, <1>5, RunMoves
<1>7. Top = levels[Depth] /\ Depth \in Nat \ {0} /\ Top \in FrameSet
  BY <1>1, <1>6, TopFacts
<1>8. ~SemanticAtOnceEffect
  <2>1. runOf = [b \in Agg |-> runOf[b]]
    BY DEF runOf
  <2> QED BY <1>3, <1>5, <1>6, <2>1 DEF SemanticAtOnceEffect
<1>9. ~SemanticNoFieldsEffect
  BY <1>6, <1>7 DEF SemanticNoFieldsEffect, Calmly, Calm, Failing, At
<1>10. At("semantic", "fields") /\ ret
  BY <1>6, <1>8, <1>9 DEF SemanticDoneEffect
<1>11. SemanticDefer \/ SemanticDone
  BY <1>1, <1>10 DEF Step, At, ModuleMember, ModuleMemberDone, RunDeferredAtOnce, RunDeferredEnter,
     RunDeferredSymbol, RunDeferredRoundDone, SemanticAtOnce, SemanticEnter, ClassBase, ClassBased,
     ClassAncestors, SemanticMember, SemanticMembersDone, SemanticNoFields, SemanticDefer, SemanticDone,
     VariableAtOnce, VariableOfStruct, VariableOfSize, VariableSized, SizeAtOnce, SizeEnter, SizeBase,
     SizeBased, SizeFields, SizeFinal, FieldsEnter, FieldsStart, FieldsNext, FieldsPush, FinalizeEnter,
     FinalizeField, FinalizeSized, FinalizeDone, LastTry, ReportUnresolved
<1>12. ~SemanticDefer
  <2>1. ASSUME SemanticDefer PROVE agg'[a].semanticRun = agg[a].semanticRun
    BY <1>1, <1>3, <1>6, <2>1, CalmFacts DEF SemanticDefer, AggSet, DataInv
  <2>2. runOf'[a] = agg'[a].semanticRun /\ runOf[a] = agg[a].semanticRun
    BY <1>3 DEF runOf
  <2> QED BY <1>5, <2>1, <2>2
<1>13. ~Unfinished(a)
  BY <1>6, <1>11, <1>12 DEF SemanticDone
<1>14. AllListed(a)
  <2>1. PICK f \in FrameSet : f = Top
    BY <1>7
  <2>2. TopCalm(f)
    BY <1>1, <1>7, <2>1 DEF CalmFrames
  <2>3. sizeokOf[a] # "none"
    BY <1>6, <1>10, <2>1, <2>2 DEF TopCalm, At
  <2> QED BY <1>1, <1>3, <1>4, <2>3 DEF PartsInv, Parts
<1>15. ASSUME NEW j \in DOMAIN Members(a), OfType(a, j) PROVE runOf[PartOf(a, j)] = "done"
  <2>1. j \in listedOf[a]
    BY <1>14, <1>15 DEF AllListed, OfType, IsField
  <2>2. PICK n \in DOMAIN agg[a].fields : agg[a].fields[n] = j
    BY <1>3, <2>1 DEF listedOf, fieldsOf
  <2>3. ~var[a][j].terror
    BY <1>3, CalmFacts DEF badOf
  <2>4. PartOf(a, j) \in Agg /\ PartOf(a, j) = Members(a)[j].of /\ Members(a)[j].kind = "field"
    BY <1>1, <1>3, <1>15, ProgramFacts DEF OfType, PartOf, Agg
  <2>5. agg[PartOf(a, j)].semanticRun = "done"
    BY <1>13, <2>2, <2>3, <2>4 DEF Unfinished
  <2> QED BY <2>4, <2>5 DEF runOf
<1> QED BY <1>5, <1>15

\* Only the analysis of a class changes the base class that is named.
LEMMA BaseNamed ==
    ASSUME Calmly
    PROVE  BaseRight'
<1>1. /\ DataInv /\ StackInv /\ StepEffect /\ Step /\ program' = program /\ BaseRight
      /\ errors = 0 /\ errors' = 0 /\ Class \subseteq Agg
  BY CalmFacts DEF Calmly, CalmInv, Agg
<1>2. CASE ClassBase
  <2>1. PICK c \in Agg : c = Top.of
    BY <1>2, <1>1, SemanticTop DEF ClassBase
  <2>2. agg[c] \in AggSet /\ DOMAIN agg = Agg
    BY <1>1, CalmFacts DEF DataInv
  <2> DEFINE b == agg[c].base
  <2>3. b = NoBase \/ b \in Agg
    BY <1>1, <2>2 DEF AggSet
  <2>4. b \in Agg => ~agg[b].terror
    BY CalmFacts
  <2>5. \/ b = NoBase /\ agg' = [agg EXCEPT ![c].base = NoBase, ![c].baseok = "done"]
        \/ errors' = errors + 1
        \/ agg' = [agg EXCEPT ![c].baseClass = b, ![c].scope = TRUE, ![c].baseok = "start"]
        \/ agg' = [agg EXCEPT ![c].baseClass = b, ![c].baseok = "done"]
    BY <1>2, <2>1, <2>3, <2>4 DEF ClassBase
  <2>6. \/ b = NoBase /\ agg' = [agg EXCEPT ![c].base = NoBase, ![c].baseok = "done"]
        \/ agg' = [agg EXCEPT ![c].baseClass = b, ![c].scope = TRUE, ![c].baseok = "start"]
        \/ agg' = [agg EXCEPT ![c].baseClass = b, ![c].baseok = "done"]
    BY <1>1, <2>5
  <2>7. \A d \in Agg : d # c => agg'[d] = agg[d]
    BY <2>1, <2>2, <2>6
  <2>8. agg'[c].base = agg[c].base
    BY <2>1, <2>2, <2>6 DEF AggSet
  <2>9. \A d \in Agg : agg'[d].base = agg[d].base
    BY <2>7, <2>8
  <2> QED BY <1>1, <2>9 DEF BaseRight, baseOf
<1>3. CASE ~ClassBase
  <2>1. ~ClassBaseEffect
    BY <1>1, <1>3 DEF ClassBaseEffect, Step, At, ModuleMember, ModuleMemberDone, RunDeferredAtOnce,
       RunDeferredEnter, RunDeferredSymbol, RunDeferredRoundDone, SemanticAtOnce, SemanticEnter, ClassBased,
       ClassAncestors, SemanticMember, SemanticMembersDone, SemanticNoFields, SemanticDefer, SemanticDone,
       VariableAtOnce, VariableOfStruct, VariableOfSize, VariableSized, SizeAtOnce, SizeEnter, SizeBase,
       SizeBased, SizeFields, SizeFinal, FieldsEnter, FieldsStart, FieldsNext, FieldsPush, FinalizeEnter,
       FinalizeField, FinalizeSized, FinalizeDone, LastTry, ReportUnresolved
  <2>2. baseOf' = baseOf
    BY <1>1, <2>1 DEF StepEffect, InnerEffect, ModuleMemberEffect, ModuleMemberDoneEffect,
       RunDeferredAtOnceEffect, RunDeferredEnterEffect, RunDeferredSymbolEffect, RunDeferredRoundDoneEffect,
       SemanticAtOnceEffect, SemanticEnterEffect, ClassBasedEffect, ClassAncestorsEffect,
       SemanticMemberEffect, SemanticMembersDoneEffect, SemanticNoFieldsEffect, SemanticDeferEffect,
       SemanticDoneEffect, LastTryEffect, ReportUnresolvedEffect, Quiet, Kept, AggSame, RunSame
  <2> QED BY <1>1, <2>2 DEF BaseRight
<1> QED BY <1>2, <1>3

\* The classes can be put in an order, each behind its base class.
BaseTree == \A S \in SUBSET Class : S # {} => \E x \in S : baseClassOf[x] \notin S

LEMMA BaseTreeKept ==
    ASSUME DataInv, StepEffect, BaseTree
    PROVE  BaseTree'
<1>1. /\ baseClassOf \in [Agg -> Class \cup {NoBase}] /\ NoBase \notin Class /\ Class \subseteq Agg
  BY NamesAssumption DEF DataInv, AggSet, baseClassOf, Agg
<1>2. \/ baseClassOf' = baseClassOf
      \/ \E c, b \in Class : c \notin Chain(baseClassOf, b) /\ baseClassOf' = [baseClassOf EXCEPT ![c] = b]
  <2>1. CASE ClassBaseEffect
    BY <2>1 DEF ClassBaseEffect
  <2>2. CASE ~ClassBaseEffect
    BY <2>2 DEF StepEffect, InnerEffect, ModuleMemberEffect, ModuleMemberDoneEffect,
       RunDeferredAtOnceEffect, RunDeferredEnterEffect, RunDeferredSymbolEffect, RunDeferredRoundDoneEffect,
       SemanticAtOnceEffect, SemanticEnterEffect, ClassBasedEffect, ClassAncestorsEffect,
       SemanticMemberEffect, SemanticMembersDoneEffect, SemanticNoFieldsEffect, SemanticDeferEffect,
       SemanticDoneEffect, LastTryEffect, ReportUnresolvedEffect, Quiet, Kept, AggSame, RunSame
  <2> QED BY <2>1, <2>2
<1>3. ASSUME NEW c \in Class, NEW b \in Class, c \notin Chain(baseClassOf, b),
             baseClassOf' = [baseClassOf EXCEPT ![c] = b], NEW S \in SUBSET Class, S # {}
      PROVE  \E x \in S : baseClassOf'[x] \notin S
  <2>1. \A x \in Class : baseClassOf'[x] = IF x = c THEN b ELSE baseClassOf[x]
    BY <1>1, <1>3
  <2>2. CASE c \notin S \/ b \notin S
    BY <1>1, <1>3, <2>1, <2>2 DEF BaseTree
  <2>3. CASE c \in S /\ b \in S
    <3> DEFINE T == S \cap Chain(baseClassOf, b)
    <3>1. b \in T /\ T \in SUBSET Class /\ Closed(baseClassOf, Chain(baseClassOf, b))
      BY <1>1, <2>3, ChainFacts
    <3>2. PICK x \in T : baseClassOf[x] \notin T
      BY <3>1 DEF BaseTree
    <3>3. x \in S /\ x \in Chain(baseClassOf, b) /\ x # c /\ x \in Class
      BY <1>3, <3>1, <3>2
    <3>4. baseClassOf[x] \notin S
      BY <1>1, <3>1, <3>2, <3>3 DEF Closed
    <3> QED BY <2>1, <3>3, <3>4
  <2> QED BY <2>2, <2>3
<1>4. CASE baseClassOf' = baseClassOf
  BY <1>4 DEF BaseTree
<1>5. CASE \E c, b \in Class : c \notin Chain(baseClassOf, b) /\ baseClassOf' = [baseClassOf EXCEPT ![c] = b]
  <2>1. PICK c, b \in Class : c \notin Chain(baseClassOf, b) /\ baseClassOf' = [baseClassOf EXCEPT ![c] = b]
    BY <1>5
  <2>2. \A S \in SUBSET Class : S # {} => \E x \in S : baseClassOf'[x] \notin S
    BY <1>3, <2>1
  <2> QED BY <2>2 DEF BaseTree
<1> QED BY <1>2, <1>4, <1>5

-----------------------------------------------------------------------------
CalmAlways == Consistent /\ SizeInv /\ BaseTree /\ (Calm => CalmInv)

LEMMA StepCalm ==
    ASSUME CalmAlways, Step
    PROVE  CalmAlways'
<1>1. Consistent' /\ StepEffect /\ SizeInv'
  BY StepConsistent, StepSizes DEF CalmAlways
<1>2. BaseTree'
  BY <1>1, BaseTreeKept DEF CalmAlways, Consistent
<1>3. Calm' => CalmInv'
  <2> SUFFICES ASSUME Calm' PROVE CalmInv'
    OBVIOUS
  <2>1. Calm
    BY CalmBefore DEF CalmAlways
  <2>2. Calmly
    BY <1>1, <2>1 DEF Calmly, CalmAlways
  <2> QED BY <2>2, CalmKept, ReadyLasts, BaseNamed DEF CalmInv
<1> QED BY <1>1, <1>2, <1>3 DEF CalmAlways

LEMMA StutterCalm ==
    ASSUME CalmAlways, UNCHANGED vars
    PROVE  CalmAlways'
<1>1. Depth' = Depth /\ levels' = levels /\ ret' = ret /\ program' = program /\ errors' = errors
      /\ agg' = agg /\ var' = var
  BY SameLevels DEF vars
<1>2. UNCHANGED <<runOf, baseClassOf, baseOf, sizeokOf, fieldsOf>>
  BY <1>1, SameAgg DEF AggSame
<1>3. listedOf' = listedOf /\ placedOf' = placedOf /\ doneOf' = doneOf
  BY <1>1, <1>2, PlacesStay DEF listedOf
<1>4. \A a : Members(a)' = Members(a)
  BY <1>1 DEF Members
<1>5. \A a : /\ Sized(a)' <=> Sized(a)
             /\ Ready(a)' <=> Ready(a)
             /\ AllListed(a)' <=> AllListed(a)
             /\ \A i : Listed(a, i)' <=> Listed(a, i)
             /\ BaseSized(a)' <=> BaseSized(a)
  BY <1>1, <1>2, <1>3, <1>4 DEF Sized, Ready, AllListed, Listed, IsField, BaseSized, BaseKnown
<1>6. \A a, c : Contains(a, c)' <=> Contains(a, c)
  BY <1>1, <1>4 DEF Contains, IsField
<1>7. \A a : PartsSized(a)' <=> PartsSized(a)
  BY <1>5, <1>6 DEF PartsSized
<1>8. \A a, j : (OfType(a, j)' <=> OfType(a, j)) /\ PartOf(a, j)' = PartOf(a, j) /\ (IsField(a, j)' <=> IsField(a, j))
  BY <1>4 DEF OfType, PartOf, IsField
<1>9. \A a, j : Sized(PartOf(a, j))' <=> Sized(PartOf(a, j))
  BY <1>2, <1>8 DEF Sized
<1>10. PartsInv => PartsInv'
  BY <1>2, <1>3, <1>4, <1>5, <1>7, <1>8, <1>9 DEF PartsInv, Parts
<1>11. SizedTree => SizedTree'
  BY <1>5, <1>6 DEF SizedTree
<1>12. ReadyInv => ReadyInv'
  BY <1>2, <1>4, <1>5, <1>8 DEF ReadyInv
<1>13. (FillInv => FillInv') /\ (PlaceInv => PlaceInv') /\ (BaseRight => BaseRight') /\ (BaseTree => BaseTree')
  BY <1>1, <1>2, <1>5 DEF FillInv, PlaceInv, BaseRight, BaseTree, Filling, Placing
<1>14. \A f : (CalmFrame(f)' <=> CalmFrame(f)) /\ (TopCalm(f)' <=> TopCalm(f))
  BY <1>2, <1>3, <1>4, <1>5, <1>8, <1>9 DEF CalmFrame, TopCalm
<1>15. CalmFrames => CalmFrames'
  BY <1>1, <1>14 DEF CalmFrames
<1>16. (Calm' <=> Calm) /\ (CalmInv => CalmInv')
  BY <1>1, <1>10, <1>11, <1>12, <1>13, <1>15 DEF Calm, Failing, CalmInv
<1>17. Consistent' /\ SizeInv'
  BY Stutters, StutterSizes DEF CalmAlways
<1> QED BY <1>13, <1>16, <1>17 DEF CalmAlways

LEMMA InitCalm ==
    ASSUME Init
    PROVE  CalmAlways
<1>1. Depth = 1 /\ levels[1] = ModuleSemantic(Main) /\ ModuleSemantic(Main).proc = "module"
      /\ ModuleSemantic(Main).pc = "enter"
  BY InitStack, NewFrames
<1>2. \A a \in Agg : runOf[a] = "init" /\ baseClassOf[a] = NoBase
  BY InitData
<1>3. \A a \in Agg : sizeokOf[a] = "none" /\ fieldsOf[a] = <<>> /\ (a \in Class => baseOf[a] = program.base[a])
  BY DEF Init, sizeokOf, fieldsOf, baseOf
<1>4. \A a \in Agg : doneOf[a] = {} /\ placedOf[a] = {}
  BY DEF Init, doneOf, placedOf
<1>5. \A a \in Agg : listedOf[a] = {}
  BY <1>3 DEF listedOf
<1>6. Class \subseteq Agg /\ NoBase \notin Agg /\ Struct \subseteq Agg
  BY NamesAssumption DEF Agg
<1>7. \A k \in 1..Depth : k = 1
  BY <1>1
<1>8. PartsInv /\ SizedTree /\ ReadyInv /\ PlaceInv /\ BaseRight /\ BaseTree
  <2>1. PartsInv
    BY <1>3, <1>4, <1>5 DEF PartsInv, Parts, Sized
  <2>2. SizedTree
    BY <1>3 DEF SizedTree, Sized
  <2>3. ReadyInv
    BY <1>2, <1>6 DEF ReadyInv, Ready
  <2>4. PlaceInv /\ BaseRight /\ BaseTree
    BY <1>2, <1>3, <1>6 DEF PlaceInv, BaseRight, BaseTree
  <2> QED BY <2>1, <2>2, <2>3, <2>4
<1>9. FillInv /\ CalmFrames
  BY <1>1, <1>7 DEF FillInv, Filling, CalmFrames, CalmFrame, TopCalm
<1> QED BY <1>8, <1>9, InitConsistent, InitSizes DEF CalmAlways, CalmInv

LEMMA AlwaysCalm == Spec => []CalmAlways
<1>1. Init => CalmAlways
  BY InitCalm
<1>2. CalmAlways /\ [Next]_vars => CalmAlways'
  <2>1. [Next]_vars => Step \/ UNCHANGED vars
    BY DEF Next, Finished
  <2> QED BY <2>1, StepCalm, StutterCalm
<1> QED BY <1>1, <1>2, PTL DEF Spec

\* At the end, with no error, the aggregates can be put in an order.
LEMMA EndOrdered ==
    ASSUME CalmAlways, NothingLost, phase = "end", errors = 0
    PROVE  Acyclic(Contains)
<1>1. /\ DataInv /\ StackInv /\ ChainInv /\ EndInv /\ BaseInv /\ BaseTree /\ program \in Programs
  BY DEF CalmAlways, Consistent, SizeInv, DataInv
<1>2. Depth = 0 /\ \A k : k \notin 1..Depth
  BY <1>1, EmptyStack DEF EndInv, StackInv
<1>3. PartsInv /\ SizedTree /\ ReadyInv /\ PlaceInv /\ BaseRight
  BY <1>2 DEF CalmAlways, Calm, Failing, CalmInv
<1>4. \A a \in Declared : a \in Agg /\ runOf[a] = "done" /\ \A i \in DOMAIN Members(a) : IsField(a, i) => i \in doneOf[a]
  <2>1. Declared \subseteq Agg
    BY DEF Declared
  <2>2. \A a \in Declared : runOf[a] = "done"
    BY <2>1 DEF NothingLost, runOf
  <2>3. \A a \in Declared : \A i \in DOMAIN Members(a) : IsField(a, i) => i \in doneOf[a]
    <3> SUFFICES ASSUME NEW a \in Declared, NEW i \in DOMAIN Members(a), IsField(a, i) PROVE i \in doneOf[a]
      OBVIOUS
    <3>1. IsVar(a, i)
      BY DEF IsField, IsVar, Import
    <3>2. var[a][i].semanticRun = "done"
      BY <3>1 DEF NothingLost
    <3> QED BY <2>1, <3>2 DEF doneOf
  <2> QED BY <2>1, <2>2, <2>3
<1>5. NoBase \notin Agg /\ Struct \cap Class = {} /\ Agg = Struct \cup Class
  BY NamesAssumption DEF Agg
<1>6. \A a \in Agg : sizeokOf[a] \in {"none", "fwd", "done"}
  <2>1. \A a \in Agg : sizeokOf[a] \in {"none", "fwd", "inProcess", "done"}
    BY <1>1, AggFields DEF DataInv, AggSet
  <2> QED BY <1>2, <1>3, <2>1 DEF PlaceInv
<1> SUFFICES ASSUME NEW S \in SUBSET Agg, S # {}
             PROVE  \E x \in S : \A y \in S : ~Contains(x, y)
  BY DEF Acyclic
<1>7. CASE \E x \in S : x \notin Declared
  <2>1. PICK x \in S : x \notin Declared
    BY <1>7
  <2>2. program.members[x] = <<>> /\ (x \in Class => program.base[x] = NoBase)
    BY <1>1, <2>1, ProgramsAssumption DEF Declared
  <2>3. Members(x) = <<>> /\ DOMAIN Members(x) = {}
    BY <2>2 DEF Members
  <2>4. \A y \in S : ~Contains(x, y)
    BY <1>5, <2>2, <2>3 DEF Contains
  <2> QED BY <2>4
<1>8. CASE \E x \in S : Sized(x)
  <2> DEFINE T == {x \in S : Sized(x)}
  <2>1. T \in SUBSET Agg /\ T # {} /\ \A x \in T : Sized(x)
    BY <1>8
  <2>2. PICK x \in T : \A y \in T : ~Contains(x, y)
    BY <1>3, <2>1 DEF SizedTree
  <2>3. PartsSized(x)
    BY <1>3, <2>1 DEF PartsInv, Parts
  <2>4. \A y \in S : ~Contains(x, y)
    BY <2>2, <2>3 DEF PartsSized
  <2> QED BY <2>4
<1>9. CASE S \subseteq Declared /\ ~(\E x \in S : Sized(x))
  <2>1. \A x \in S : \A i \in DOMAIN Members(x) : IsField(x, i) =>
           (OfType(x, i) /\ Members(x)[i].of \in Struct) \/ Members(x)[i].of \notin S
    <3> SUFFICES ASSUME NEW x \in S, NEW i \in DOMAIN Members(x), IsField(x, i)
                 PROVE  (OfType(x, i) /\ Members(x)[i].of \in Struct) \/ Members(x)[i].of \notin S
      OBVIOUS
    <3>1. OfType(x, i) => Members(x)[i].of \in Struct
      BY <1>1, ProgramFacts DEF OfType
    <3>2. OfType(x, i) \/ Sized(PartOf(x, i))
      BY <1>3, <1>4, <1>9 DEF PartsInv, Parts
    <3> QED BY <1>9, <3>1, <3>2 DEF PartOf
  <2>2. CASE S \cap Struct = {}
    <3>1. S \in SUBSET Class
      BY <1>5, <2>2
    <3>2. PICK x \in S : baseClassOf[x] \notin S
      BY <1>1, <3>1 DEF BaseTree
    <3>3. ASSUME NEW y \in S, Contains(x, y) PROVE FALSE
      <4>1. program.base[x] = y
        BY <2>1, <2>2, <3>3 DEF Contains
      <4>2. baseOf[x] = y /\ y # NoBase
        BY <1>3, <1>5, <3>1, <4>1 DEF BaseRight
      <4>3. BaseKnown(x)
        BY <1>1, <1>2, <1>4, <1>9 DEF BaseInv, BaseFound, Choosing
      <4>4. baseClassOf[x] = y
        BY <1>1, <4>2, <4>3 DEF BaseKnown, ChainInv
      <4> QED BY <3>2, <4>4
    <3> QED BY <3>3
  <2>3. CASE S \cap Struct # {}
    <3> DEFINE T == S \cap Struct
    <3>1. T \in SUBSET Struct /\ T # {} /\ \A x \in T : Ready(x)
      BY <1>4, <1>5, <1>6, <1>9, <2>3 DEF Ready, Sized
    <3> HIDE DEF T
    <3>2. PICK x \in T : \A j \in DOMAIN Members(x) : OfType(x, j) => PartOf(x, j) \notin T
      BY <1>3, <3>1 DEF ReadyInv
    <3>3. x \in S /\ x \notin Class
      BY <1>5, <3>2 DEF T
    <3>4. \A y \in S : ~Contains(x, y)
      BY <2>1, <3>2, <3>3 DEF Contains, PartOf, T
    <3> QED BY <3>3, <3>4
  <2> QED BY <2>2, <2>3
<1> QED BY <1>7, <1>8, <1>9

\* A type that contains itself, by a field, a size or a base class, through
\* however many others, does not get through pass 1 unnoticed: when it ends
\* with no error, every set of aggregates has one that contains none of them.
\* The chains of base classes that are walked meanwhile end all the time.
THEOREM CyclesAreReported == Spec => []CyclesReported
<1>1. ASSUME CalmAlways, NothingLost, \A c \in Class : c \notin BaseChain(agg[c].baseClass)
      PROVE  CyclesReported
  BY <1>1, EndOrdered DEF CyclesReported
<1> QED BY <1>1, AlwaysCalm, NothingIsLost, ChainsEnd, PTL

-----------------------------------------------------------------------------
(***************************************************************************)
(* The list of fields of a struct: all of them, in order, each once.       *)
(***************************************************************************)
Rising(a) == \A n, m \in DOMAIN fieldsOf[a] : n < m => fieldsOf[a][n] < fieldsOf[a][m]
InFront(a, i) == \A j \in listedOf[a] : j < i

\* What is in the list and in place is what is in front of member i.
UpTo(a, i) == Listed(a, i) /\ InFront(a, i) /\ \A j \in placedOf[a] : j < i

\* The list of a struct, between any two steps.
Tidy(a) ==
    /\ Rising(a) /\ \A j \in listedOf[a] : IsField(a, j)
    /\ sizeokOf[a] \in {"none", "fwd"} => placedOf[a] = {}
    /\ Sized(a) => AllListed(a)
    /\ runOf[a] = "done" => sizeokOf[a] # "none"

\* The innermost of the calls that fill a list finds nothing in it that is not
\* behind it.  A struct is given its places by one call at a time.
ListFrames ==
    \A a \in Struct, k \in 1..Depth :
        /\ Filling(levels[k], a) /\ sizeokOf[a] = "none" =>
              \/ \E n \in 1..Depth : n > k /\ Filling(levels[n], a)
              \/ InFront(a, levels[k].i)
        /\ Placing(levels[k], a) =>
              /\ sizeokOf[a] = "inProcess" /\ UpTo(a, levels[k].i)
              /\ \A n \in 1..Depth : Placing(levels[n], a) => n = k

ListInv == ListFrames /\ \A a \in Struct : Tidy(a)

\* What a step does to the list of a struct, and how the innermost call goes on.
Keeps(b) == fieldsOf'[b] = fieldsOf[b] /\ sizeokOf'[b] = sizeokOf[b] /\ placedOf'[b] = placedOf[b]

Held(b, f) ==
    /\ Filling(f, b) /\ sizeokOf'[b] = "none" => InFront(b, f.i)'
    /\ Placing(f, b) => /\ sizeokOf'[b] = "inProcess" /\ UpTo(b, f.i)'
                        /\ Placing(Top, b) \/ sizeokOf[b] # "inProcess"

ListMove ==
    \A b \in Struct :
        /\ Keeps(b) \/ sizeokOf[b] # "inProcess" \/ Placing(Top, b)
        /\ \A f : Depth > 0 /\ Depth' >= Depth /\ f = levels'[Depth] => Held(b, f)

LEMMA KeepsList ==
    ASSUME NEW b \in Agg, fieldsOf'[b] = fieldsOf[b]
    PROVE  listedOf'[b] = listedOf[b] /\ (Rising(b) => Rising(b)')
  BY DEF listedOf, Rising

\* Which calls there are after a step.
LEMMA LevelsAfter ==
    ASSUME Calmly, CalmMove, stack # <<>>
    PROVE  /\ Depth \in Nat \ {0} /\ Depth' \in Nat /\ Depth' >= Depth - 1 /\ Top = levels[Depth]
           /\ \A k \in 1..Depth' : \/ k \in 1..Depth - 1 /\ levels'[k] = levels[k]
                                   \/ k = Depth /\ Depth' >= Depth
                                   \/ k = Depth + 1 /\ levels'[k].pc = "enter"
           /\ \A k \in 1..Depth - 1 : k \in 1..Depth' /\ levels'[k] = levels[k]
           /\ Depth' < Depth => /\ listedOf' = listedOf
                                /\ \A b \in Agg : Depth > 1 /\ Filling(Top, b) => sizeokOf'[b] # "none"
           /\ Depth' >= Depth => \A b \in Agg : Filling(Top, b) => Filling(levels'[Depth], b)
<1>1. StackInv /\ Depth \in Nat \ {0} /\ Top = levels[Depth]
  BY CalmFacts, TopFacts
<1>2. CASE /\ Popped /\ listedOf' = listedOf
           /\ \A b \in Agg : Depth > 1 /\ Filling(Top, b) => sizeokOf'[b] # "none"
  <2>1. Depth' = Depth - 1 /\ \A k \in 1..Depth - 1 : levels'[k] = levels[k]
    BY <1>2 DEF Popped
  <2>2. Depth' \in Nat /\ Depth' >= Depth - 1 /\ ~(Depth' >= Depth)
    BY <1>1, <2>1
  <2>3. \A k \in 1..Depth' : k \in 1..Depth - 1
    BY <2>1
  <2>4. \A k \in 1..Depth - 1 : k \in 1..Depth'
    BY <2>1
  <2> QED BY <1>1, <1>2, <2>1, <2>2, <2>3, <2>4
<1>3. CASE \E f : WentOn(f) /\ Holds(f)
  <2>1. PICK f : WentOn(f) /\ Holds(f)
    BY <1>3
  <2>2. Depth' = Depth /\ levels'[Depth] = f /\ \A k \in 1..Depth - 1 : levels'[k] = levels[k]
    BY <2>1 DEF WentOn
  <2>3. \A k \in 1..Depth : k \in 1..Depth - 1 \/ k = Depth
    BY <1>1
  <2>4. \A k \in 1..Depth - 1 : k \in 1..Depth
    BY <1>1
  <2>5. Depth >= Depth /\ Depth >= Depth - 1 /\ ~(Depth < Depth)
    BY <1>1
  <2> QED BY <1>1, <2>1, <2>2, <2>3, <2>4, <2>5 DEF Holds
<1>4. CASE \E f, g : Called(f, g) /\ Holds(f) /\ g.pc = "enter"
  <2>1. PICK f, g : Called(f, g) /\ Holds(f) /\ g.pc = "enter"
    BY <1>4
  <2>2. /\ Depth' = Depth + 1 /\ levels'[Depth] = f /\ levels'[Depth + 1] = g
        /\ \A k \in 1..Depth - 1 : levels'[k] = levels[k]
    BY <2>1 DEF Called
  <2>3. \A k \in 1..Depth + 1 : k \in 1..Depth - 1 \/ k = Depth \/ k = Depth + 1
    BY <1>1
  <2>4. \A k \in 1..Depth - 1 : k \in 1..Depth + 1
    BY <1>1
  <2>5. Depth + 1 >= Depth /\ Depth + 1 >= Depth - 1 /\ ~(Depth + 1 < Depth) /\ Depth + 1 \in Nat
    BY <1>1
  <2> QED BY <1>1, <2>1, <2>2, <2>3, <2>4, <2>5 DEF Holds
<1> QED BY <1>2, <1>3, <1>4 DEF CalmMove

\* The calls that fill a list and give places go on knowing where they are.
LEMMA ListsKept ==
    ASSUME Calmly, ListFrames, CalmMove, \A b \in Agg : Follows(b), ListMove
    PROVE  ListFrames'
<1>1. Struct \subseteq Agg /\ \A a : Members(a)' = Members(a)
  BY CalmFacts DEF Agg
<1>2. PICK d : d = Depth'
  OBVIOUS
<1>3. \A b \in Struct : Keeps(b) => \A i : UpTo(b, i) => UpTo(b, i)'
  BY <1>1, KeepsList DEF Keeps, UpTo, Listed, InFront, IsField
<1>4. \A b : listedOf'[b] = listedOf[b] => \A i : InFront(b, i) => InFront(b, i)'
  BY DEF InFront
<1> DEFINE Filled(a, k, i) == \/ \E n \in 1..d : n > k /\ Filling(levels'[n], a)
                              \/ \A j \in listedOf'[a] : j < i
<1>5. CASE stack = <<>>
  <2>1. \A k \in 1..d : levels'[k].proc = "runDeferred"
    BY <1>2, <1>5 DEF CalmMove
  <2>2. \A a \in Struct, k \in 1..d : ~Filling(levels'[k], a) /\ ~Placing(levels'[k], a)
    BY <2>1 DEF Filling, Placing
  <2> QED BY <1>2, <2>2 DEF ListFrames, Filling, Placing
<1>6. CASE stack # <<>>
  <2>1. /\ Depth \in Nat \ {0} /\ d \in Nat /\ d >= Depth - 1 /\ Top = levels[Depth] /\ Depth \in 1..Depth
        /\ \A k \in 1..d : \/ k \in 1..Depth - 1 /\ levels'[k] = levels[k]
                           \/ k = Depth /\ d >= Depth
                           \/ k = Depth + 1 /\ levels'[k].pc = "enter"
        /\ \A k \in 1..Depth - 1 : k \in 1..d /\ levels'[k] = levels[k] /\ k \in 1..Depth /\ k # Depth
        /\ d < Depth => /\ listedOf' = listedOf
                        /\ \A b \in Agg : Depth > 1 /\ Filling(Top, b) => sizeokOf'[b] # "none"
        /\ d >= Depth => \A b \in Agg : Filling(Top, b) => Filling(levels'[Depth], b)
    <3>1. Depth \in Nat \ {0}
      BY <1>6, LevelsAfter
    <3>2. Depth \in 1..Depth /\ \A k \in 1..Depth - 1 : k \in 1..Depth /\ k # Depth
      BY <3>1
    <3> QED BY <1>2, <1>6, <3>2, LevelsAfter
  <2> SUFFICES ASSUME NEW a \in Struct, NEW k \in 1..d
               PROVE  /\ Filling(levels'[k], a) /\ sizeokOf'[a] = "none" => Filled(a, k, levels'[k].i)
                      /\ Placing(levels'[k], a) =>
                            /\ sizeokOf'[a] = "inProcess" /\ UpTo(a, levels[k].i)'
                            /\ \A n \in 1..d : Placing(levels'[n], a) => n = k
    BY <1>2 DEF ListFrames, Filling, Placing, InFront, UpTo, Listed
  <2>2. a \in Agg /\ Follows(a) /\ (Keeps(a) \/ sizeokOf[a] # "inProcess" \/ Placing(Top, a))
    BY <1>1 DEF ListMove
  <2>3. ASSUME d >= Depth PROVE \A f : f = levels'[Depth] => Held(a, f)
    BY <1>2, <2>1, <2>3 DEF ListMove
  <2>4. ASSUME NEW n \in 1..d, Filling(levels'[n], a) \/ Placing(levels'[n], a)
        PROVE  (n \in 1..Depth - 1 /\ levels'[n] = levels[n]) \/ (n = Depth /\ d >= Depth)
    BY <2>1, <2>4 DEF Filling, Placing
  <2>5. ASSUME Filling(levels'[k], a), sizeokOf'[a] = "none" PROVE Filled(a, k, levels'[k].i)
    <3>1. CASE k = Depth /\ d >= Depth
      <4>1. PICK f : f = levels'[Depth]
        OBVIOUS
      <4>2. InFront(a, f.i)'
        BY <2>3, <2>5, <3>1, <4>1 DEF Held
      <4> QED BY <3>1, <4>1, <4>2 DEF InFront
    <3>2. CASE k \in 1..Depth - 1 /\ levels'[k] = levels[k]
      <4>1. sizeokOf[a] = "none" /\ k \in 1..Depth
        BY <2>1, <2>2, <2>5, <3>2 DEF Follows
      <4>2. PICK i : i = levels[k].i /\ i = levels'[k].i
        BY <3>2
      <4>3. (\E n \in 1..Depth : n > k /\ Filling(levels[n], a)) \/ InFront(a, i)
        BY <2>5, <3>2, <4>1, <4>2 DEF ListFrames
      <4>4. ASSUME NEW n \in 1..Depth, n > k, Filling(levels[n], a) PROVE Filled(a, k, levels'[k].i)
        <5>1. CASE n = Depth
          <6>1. Depth > 1
            BY <2>1, <3>2
          <6>2. d >= Depth
            BY <2>1, <2>2, <2>5, <4>4, <5>1, <6>1
          <6>3. Filling(levels'[Depth], a) /\ Depth \in 1..d
            BY <2>1, <2>2, <4>4, <5>1, <6>2
          <6> QED BY <4>4, <5>1, <6>3
        <5>2. CASE n # Depth
          <6>1. n \in 1..Depth - 1
            BY <2>1, <5>2
          <6> QED BY <2>1, <4>4, <6>1
        <5> QED BY <5>1, <5>2
      <4>5. ASSUME InFront(a, i) PROVE Filled(a, k, levels'[k].i)
        <5>1. CASE listedOf'[a] = listedOf[a]
          <6>1. InFront(a, i)'
            BY <1>4, <4>5, <5>1
          <6> QED BY <4>2, <6>1 DEF InFront
        <5>2. CASE listedOf'[a] # listedOf[a]
          <6>1. d > 0 /\ Filling(levels'[d], a) /\ d >= Depth
            BY <1>2, <2>1, <2>2, <2>5, <5>2 DEF Follows
          <6>2. d \in 1..d /\ d > k
            BY <2>1, <3>2, <6>1
          <6> QED BY <6>1, <6>2
        <5> QED BY <5>1, <5>2
      <4> QED BY <4>3, <4>4, <4>5
    <3> QED BY <2>4, <2>5, <3>1, <3>2
  <2>6. ASSUME NEW n \in 1..Depth - 1, Placing(levels[n], a)
        PROVE  /\ sizeokOf'[a] = "inProcess" /\ sizeokOf[a] = "inProcess" /\ ~Placing(Top, a)
               /\ \A i : i = levels[n].i => UpTo(a, i)'
               /\ \A m \in 1..Depth - 1 : Placing(levels[m], a) => m = n
    <3>1. n \in 1..Depth /\ n # Depth
      BY <2>1
    <3>2. /\ sizeokOf[a] = "inProcess" /\ UpTo(a, levels[n].i)
          /\ \A m \in 1..Depth : Placing(levels[m], a) => m = n
      BY <2>6, <3>1 DEF ListFrames
    <3>3. ~Placing(Top, a)
      BY <2>1, <3>1, <3>2
    <3>4. Keeps(a)
      BY <2>2, <3>2, <3>3
    <3>5. \A m \in 1..Depth - 1 : m \in 1..Depth
      BY <2>1
    <3> QED BY <1>3, <3>2, <3>3, <3>4, <3>5 DEF Keeps
  <2>7. ASSUME Placing(levels'[k], a)
        PROVE  /\ sizeokOf'[a] = "inProcess" /\ UpTo(a, levels[k].i)'
               /\ \A n \in 1..d : Placing(levels'[n], a) => n = k
    <3>1. CASE k = Depth /\ d >= Depth
      <4>1. PICK f : f = levels'[Depth]
        OBVIOUS
      <4>2. sizeokOf'[a] = "inProcess" /\ UpTo(a, f.i)' /\ (Placing(Top, a) \/ sizeokOf[a] # "inProcess")
        BY <2>3, <2>7, <3>1, <4>1 DEF Held
      <4>3. UpTo(a, levels[k].i)'
        BY <3>1, <4>1, <4>2 DEF UpTo, Listed, InFront
      <4>4. \A n \in 1..d : Placing(levels'[n], a) => n = k
        BY <2>4, <2>6, <3>1, <4>2
      <4> QED BY <4>2, <4>3, <4>4
    <3>2. CASE k \in 1..Depth - 1 /\ levels'[k] = levels[k]
      <4>1. PICK i : i = levels[k].i
        OBVIOUS
      <4>2. sizeokOf'[a] = "inProcess" /\ UpTo(a, i)' /\ sizeokOf[a] = "inProcess" /\ ~Placing(Top, a)
        BY <2>6, <2>7, <3>2, <4>1
      <4>3. UpTo(a, levels[k].i)'
        BY <3>2, <4>1, <4>2 DEF UpTo, Listed, InFront
      <4>4. ASSUME NEW n \in 1..d, Placing(levels'[n], a) PROVE n = k
        <5>1. CASE n \in 1..Depth - 1 /\ levels'[n] = levels[n]
          BY <2>6, <2>7, <3>2, <4>4, <5>1
        <5>2. CASE n = Depth /\ d >= Depth
          <6>1. PICK f : f = levels'[Depth]
            OBVIOUS
          <6> QED BY <2>3, <4>2, <4>4, <5>2, <6>1 DEF Held
        <5> QED BY <2>4, <4>4, <5>1, <5>2
      <4> QED BY <4>2, <4>3, <4>4
    <3> QED BY <2>4, <2>7, <3>1, <3>2
  <2> QED BY <2>5, <2>7
<1> QED BY <1>5, <1>6

\* A struct that has just been done had its fields determined.
LEMMA JustDone ==
    ASSUME Calmly, NEW a \in Struct, runOf[a] # "done", runOf'[a] = "done"
    PROVE  stack # <<>> /\ Top.of = a /\ At("semantic", "fields") /\ ret /\ sizeokOf[a] # "none"
<1>1. /\ DataInv /\ StackInv /\ StepEffect /\ CalmFrames
  BY CalmFacts DEF Calmly, CalmInv
<1>2. a \in Agg /\ a \notin Class
  BY NamesAssumption DEF Agg
<1>3. stack # <<>> /\ Top.of = a /\ Top.proc = "semantic"
      /\ (SemanticAtOnceEffect \/ SemanticNoFieldsEffect \/ SemanticDoneEffect)
  BY <1>1, <1>2, RunMoves
<1>4. Top = levels[Depth] /\ Depth \in Nat \ {0} /\ Top \in FrameSet
  BY <1>1, <1>3, TopFacts
<1>5. ~SemanticAtOnceEffect
  <2>1. runOf = [b \in Agg |-> runOf[b]]
    BY DEF runOf
  <2> QED BY <1>2, <1>3, <2>1 DEF SemanticAtOnceEffect
<1>6. ~SemanticNoFieldsEffect
  BY <1>3, <1>4 DEF SemanticNoFieldsEffect, Calmly, Calm, Failing, At
<1>7. At("semantic", "fields") /\ ret
  BY <1>3, <1>5, <1>6 DEF SemanticDoneEffect
<1>8. sizeokOf[a] # "none"
  <2>1. PICK f \in FrameSet : f = Top
    BY <1>4
  <2>2. TopCalm(f)
    BY <1>1, <1>4, <2>1 DEF CalmFrames
  <2> QED BY <1>3, <1>7, <2>1, <2>2 DEF TopCalm, At
<1> QED BY <1>3, <1>7, <1>8

LEMMA KeptTidy ==
    ASSUME Calmly, NEW b \in Struct, Tidy(b), Keeps(b)
    PROVE  Tidy(b)'
<1>1. b \in Agg /\ Members(b)' = Members(b)
  BY CalmFacts DEF Agg
<1>2. listedOf'[b] = listedOf[b] /\ Rising(b)'
  BY <1>1, KeepsList DEF Keeps, Tidy
<1>3. \A j : IsField(b, j)' <=> IsField(b, j)
  BY <1>1 DEF IsField
<1>4. runOf'[b] = "done" => sizeokOf'[b] # "none"
  BY JustDone DEF Tidy, Keeps
<1> QED BY <1>1, <1>2, <1>3, <1>4 DEF Tidy, Keeps, Sized, AllListed

LEMMA IdleList ==
    ASSUME Calmly, ListInv, \A b \in Struct : Keeps(b),
           \A f : Depth > 0 /\ Depth' >= Depth /\ f = levels'[Depth] =>
              f.proc \notin {"determineFields", "finalizeSize"}
    PROVE  ListMove /\ \A b \in Struct : Tidy(b)'
<1>1. \A f, b : f.proc \notin {"determineFields", "finalizeSize"} => Held(b, f)
  BY DEF Held, Filling, Placing
<1>2. ListMove
  BY <1>1 DEF ListMove
<1> QED BY <1>2, KeptTidy DEF ListInv

\* The calls of other kinds leave the lists alone.
LEMMA OtherLists ==
    ASSUME Calmly, ListInv, stack # <<>> => Top.proc \notin {"determineFields", "finalizeSize"}
    PROVE  ListMove /\ \A b \in Struct : Tidy(b)'
<1>1. /\ DataInv /\ StackInv /\ StepEffect /\ Step /\ program' = program /\ \A b : Members(b)' = Members(b)
  BY CalmFacts DEF Calmly
<1>2. ASSUME NEW f, Depth > 0, Depth' >= Depth, f = levels'[Depth]
      PROVE  f.proc \notin {"determineFields", "finalizeSize"}
  <2>1. stack # <<>>
    BY <1>1, <1>2, EmptyStack DEF StackInv
  <2>2. Depth \in Nat \ {0}
    BY <1>1, <2>1, TopFacts
  <2>3. ~Popped
    BY <1>2, <2>2 DEF Popped
  <2>4. PICK g, h : (WentOn(g) \/ Called(g, h)) /\ g.proc = Top.proc
    BY <1>1, <2>1, <2>3, StepShape DEF Shape
  <2>5. f = g
    BY <1>2, <2>4 DEF WentOn, Called
  <2> QED BY <2>1, <2>4, <2>5
<1>3. \A b \in Struct : b \in Agg
  BY DEF Agg
<1>4. CASE ~InnerStep
  <2>1. \A b \in Agg : Stays(b) /\ fieldsOf'[b] = fieldsOf[b]
    BY <1>1, <1>4, OuterFields
  <2>2. \A b \in Struct : Keeps(b)
    BY <1>3, <2>1 DEF Stays, Keeps
  <2> QED BY <1>2, <2>2, IdleList
<1>5. CASE InnerStep
  <2>1. Top.proc \notin {"determineFields", "finalizeSize"} /\ VarInv
    BY <1>5, InnerCalm
  <2>2. CASE SizeAtOnce \/ SizeEnter \/ SizeBase \/ SizeBased \/ SizeFields \/ SizeFinal
    <3>1. Top.of \in Agg /\ ~agg[Top.of].terror /\ errors = 0 /\ errors' = 0
      BY <1>5, InnerCalm, CalmFacts
    <3>2. ~SizeFail
      BY <3>1 DEF SizeFail
    <3>3. agg' = agg /\ var' = var
      BY <2>2, <3>2 DEF SizeAtOnce, SizeEnter, SizeBase, SizeBased, SizeFields, SizeFinal
    <3>4. \A b \in Struct : Keeps(b)
      BY <1>1, <3>3, SameAgg, PlacesStay DEF AggSame, Keeps
    <3> QED BY <1>2, <3>4, IdleList
  <2>3. CASE VariableAtOnce \/ VariableOfStruct \/ VariableOfSize \/ VariableSized
    <3>1. agg' = agg /\ Top.proc = "variable" /\ Top.of \in Agg
      BY <1>5, <2>3, InnerCalm DEF VariableAtOnce, VariableOfStruct, VariableOfSize, VariableSized, At
    <3>2. \A b \in Agg : \A j \in DOMAIN Members(b) : var'[b][j].placed = var[b][j].placed
      <4>1. Top.i \in DOMAIN Members(Top.of)
        BY <1>5, <3>1, InnerCalm DEF FrameOK, Members
      <4>2. PICK c \in Agg, n \in DOMAIN Members(Top.of), w \in VarSet :
               /\ c = Top.of /\ n = Top.i /\ w = var[c][n] /\ n \in DOMAIN var[c]
               /\ DOMAIN var = Agg
        BY <2>1, <3>1, <4>1, VarFacts DEF VarInv
      <4>3. \/ var' = var
            \/ \E s, t : var' = [var EXCEPT ![c][n].semanticRun = s, ![c][n].terror = t]
            \/ \E s, t : var' = [var EXCEPT ![c][n].semanticRun = s, ![c][n].scope = t]
        <5>1. CASE VariableAtOnce
          BY <5>1 DEF VariableAtOnce
        <5>2. CASE VariableOfStruct
          <6>1. PICK t : t = agg[Members(c)[n].of].terror
            OBVIOUS
          <6>2. var' = [var EXCEPT ![c][n].semanticRun = "done", ![c][n].terror = t]
            BY <4>2, <5>2, <6>1 DEF VariableOfStruct, Typed
          <6> QED BY <6>2
        <5>3. CASE VariableOfSize
          <6>1. var' = [var EXCEPT ![c][n].semanticRun = "semantic", ![c][n].scope = FALSE]
            BY <4>2, <5>3 DEF VariableOfSize
          <6> QED BY <6>1
        <5>4. CASE VariableSized
          <6>1. PICK t : t = IF Members(c)[n].of \in Class THEN agg[Members(c)[n].of].sizeok # "done"
                                                           ELSE ~ret
            OBVIOUS
          <6>2. var' = [var EXCEPT ![c][n].semanticRun = "done", ![c][n].terror = t]
            BY <4>2, <5>4, <6>1 DEF VariableSized, Typed
          <6> QED BY <6>2
        <5> QED BY <2>3, <5>1, <5>2, <5>3, <5>4
      <4>4. ASSUME NEW s, NEW t, var' = [var EXCEPT ![c][n].semanticRun = s, ![c][n].terror = t]
            PROVE  \E v : v.placed = w.placed /\ var' = [var EXCEPT ![c] = [var[c] EXCEPT ![n] = v]]
        <5> DEFINE v == [w EXCEPT !.semanticRun = s, !.terror = t]
        <5>1. v.placed = w.placed
          BY DEF VarSet
        <5>2. var' = [var EXCEPT ![c] = [var[c] EXCEPT ![n] = v]]
          BY <4>2, <4>4
        <5> QED BY <5>1, <5>2
      <4>5. ASSUME NEW s, NEW t, var' = [var EXCEPT ![c][n].semanticRun = s, ![c][n].scope = t]
            PROVE  \E v : v.placed = w.placed /\ var' = [var EXCEPT ![c] = [var[c] EXCEPT ![n] = v]]
        <5> DEFINE v == [w EXCEPT !.semanticRun = s, !.scope = t]
        <5>1. v.placed = w.placed
          BY DEF VarSet
        <5>2. var' = [var EXCEPT ![c] = [var[c] EXCEPT ![n] = v]]
          BY <4>2, <4>5
        <5> QED BY <5>1, <5>2
      <4>6. ASSUME NEW v, v.placed = w.placed, var' = [var EXCEPT ![c] = [var[c] EXCEPT ![n] = v]]
            PROVE  \A b \in Agg : \A j \in DOMAIN Members(b) : var'[b][j].placed = var[b][j].placed
        <5>1. \A b \in Agg : b # c => var'[b] = var[b]
          BY <4>2, <4>6
        <5>2. var'[c] = [var[c] EXCEPT ![n] = v]
          BY <4>2, <4>6
        <5>3. \A j : j # n /\ j \in DOMAIN var[c] => var'[c][j] = var[c][j]
          BY <5>2
        <5>4. var'[c][n].placed = var[c][n].placed
          BY <4>2, <4>6, <5>2
        <5>5. \A j \in DOMAIN Members(c) : j \in DOMAIN var[c]
          BY <2>1, <4>2 DEF VarInv
        <5> QED BY <5>1, <5>3, <5>4, <5>5
      <4> QED BY <4>3, <4>4, <4>5, <4>6
    <3>3. placedOf' = placedOf
      BY <1>1, <3>2 DEF placedOf
    <3>4. \A b \in Struct : Keeps(b)
      BY <3>1, <3>3, SameAgg DEF AggSame, Keeps
    <3> QED BY <1>2, <3>4, IdleList
  <2> QED BY <1>5, <2>1, <2>2, <2>3 DEF InnerStep, FieldsEnter, FieldsStart, FieldsNext, FieldsPush,
             FinalizeEnter, FinalizeField, FinalizeSized, FinalizeDone, At
<1> QED BY <1>4, <1>5

\* A step of a call for the fields or the places of a.
LEMMA OneList ==
    ASSUME Calmly, ListInv, InnerStep, NEW a \in Agg, a = Top.of,
           \A b \in Agg : b # a => Keeps(b),
           a \in Struct => Tidy(a)' /\ (Keeps(a) \/ sizeokOf[a] # "inProcess" \/ Placing(Top, a)),
           \A f : Depth' >= Depth /\ f = levels'[Depth] => f.of = a /\ (a \in Struct => Held(a, f))
    PROVE  ListMove /\ \A b \in Struct : Tidy(b)'
<1>1. Struct \subseteq Agg
  BY DEF Agg
<1>2. \A b \in Struct : Tidy(b)'
  BY <1>1, KeptTidy DEF ListInv
<1>3. \A f, b : f.of # b => Held(b, f)
  BY DEF Held, Filling, Placing
<1>4. \A b \in Struct : \A f : Depth > 0 /\ Depth' >= Depth /\ f = levels'[Depth] => Held(b, f)
  BY <1>3
<1>5. \A b \in Struct : Keeps(b) \/ sizeokOf[b] # "inProcess" \/ Placing(Top, b)
  BY <1>1
<1> QED BY <1>2, <1>4, <1>5 DEF ListMove

LEMMA GoesOn ==
    ASSUME Calmly, InnerStep, NEW pc \in Pcs, NEW i \in Nat,
           Continue(GotoMember(pc, i)) \/ \E g \in FrameSet : Call(GotoMember(pc, i), g)
    PROVE  \A f : f = levels'[Depth] => Onward(f, pc) /\ f.i = i
<1>1. StackInv /\ stack # <<>>
  BY InnerCalm
<1>2. PICK f, g : (WentOn(f) \/ Called(f, g)) /\ Onward(f, pc) /\ f.i = i
  BY <1>1, GoesToMember
<1>3. levels'[Depth] = f
  BY <1>2 DEF WentOn, Called
<1> QED BY <1>2, <1>3

LEMMA GoesBack ==
    ASSUME Calmly, InnerStep, stack' = Tail(stack)
    PROVE  ~(Depth' >= Depth)
<1>1. Popped /\ Depth \in Nat
  BY InnerCalm, ReturnShape DEF StackInv
<1> QED BY <1>1 DEF Popped

\* The step that writes the list or the size of a keeps the rest.
LEMMA OthersKept ==
    ASSUME DataInv, NEW a \in Agg, agg' = [agg EXCEPT ![a] = agg'[a]],
           \A b \in Agg : b # a => placedOf'[b] = placedOf[b]
    PROVE  /\ \A b \in Agg : b # a => Keeps(b)
           /\ fieldsOf'[a] = agg'[a].fields /\ sizeokOf'[a] = agg'[a].sizeok
<1>1. \A b \in Agg : b # a => agg'[b] = agg[b]
  BY DEF DataInv
<1> QED BY <1>1 DEF Keeps, fieldsOf, sizeokOf

LEMMA RisingAppended ==
    ASSUME NEW s \in Seq(Nat), NEW i \in Nat, \A n, m \in DOMAIN s : n < m => s[n] < s[m],
           \A n \in DOMAIN s : s[n] < i
    PROVE  \A n, m \in DOMAIN Append(s, i) : n < m => Append(s, i)[n] < Append(s, i)[m]
<1>1. DOMAIN s = 1..Len(s) /\ Len(s) \in Nat
  OBVIOUS
<1>2. /\ DOMAIN Append(s, i) = 1..Len(s) + 1 /\ Append(s, i)[Len(s) + 1] = i
      /\ \A n \in 1..Len(s) : Append(s, i)[n] = s[n]
  OBVIOUS
<1> SUFFICES ASSUME NEW n \in 1..Len(s) + 1, NEW m \in 1..Len(s) + 1, n < m
             PROVE  Append(s, i)[n] < Append(s, i)[m]
  BY <1>2
<1>3. n \in 1..Len(s)
  BY <1>1
<1>4. CASE m \in 1..Len(s)
  BY <1>1, <1>2, <1>3, <1>4
<1>5. CASE m = Len(s) + 1
  BY <1>1, <1>2, <1>3, <1>5
<1> QED BY <1>1, <1>4, <1>5

\* A field behind all that are listed is added to the list.
LEMMA FieldAdded ==
    ASSUME Calmly, NEW a \in Struct, NEW i \in DOMAIN Members(a), IsField(a, i), Tidy(a), InFront(a, i),
           agg' = [agg EXCEPT ![a] = agg'[a]], agg'[a].fields = Append(agg[a].fields, i)
    PROVE  /\ Rising(a)' /\ (\A j \in listedOf[a] : IsField(a, j))' /\ InFront(a, i + 1)'
           /\ listedOf'[a] = listedOf[a] \cup {i}
           /\ Listed(a, i) => Listed(a, i + 1)'
<1>1. /\ DataInv /\ a \in Agg /\ \A b : Members(b)' = Members(b)
      /\ DOMAIN Members(a) \subseteq Nat
  <2>1. DOMAIN Members(a) = 1..Len(Members(a)) /\ Len(Members(a)) \in Nat
    BY CalmFacts, ProgramFacts DEF Agg
  <2> QED BY <2>1, CalmFacts DEF Agg
<1>2. fieldsOf[a] = agg[a].fields /\ fieldsOf'[a] = agg'[a].fields /\ fieldsOf[a] \in Seq(DOMAIN Members(a))
  BY <1>1 DEF fieldsOf, DataInv
<1>3. listedOf'[a] = listedOf[a] \cup {i}
  BY <1>1, WritesOne
<1>4. fieldsOf[a] \in Seq(Nat)
  BY <1>1, <1>2, WiderSeq
<1>5. \A n \in DOMAIN fieldsOf[a] : fieldsOf[a][n] < i
  BY <1>1 DEF InFront, listedOf
<1>6. Rising(a)'
  <2>1. \A n, m \in DOMAIN Append(fieldsOf[a], i) : n < m => Append(fieldsOf[a], i)[n] < Append(fieldsOf[a], i)[m]
    BY <1>1, <1>4, <1>5, RisingAppended DEF Tidy, Rising
  <2> QED BY <1>2, <2>1 DEF Rising
<1>7. (\A j \in listedOf[a] : IsField(a, j))'
  BY <1>1, <1>3 DEF Tidy, IsField
<1>8. \A j \in listedOf[a] : j \in Nat
  <2>1. \A n \in DOMAIN fieldsOf[a] : fieldsOf[a][n] \in Nat
    BY <1>4
  <2> QED BY <1>1, <2>1 DEF listedOf
<1>9. InFront(a, i + 1)'
  <2>1. \A j \in listedOf[a] \cup {i} : j < i + 1
    BY <1>1, <1>8 DEF InFront
  <2> QED BY <1>3, <2>1 DEF InFront
<1>10. ASSUME Listed(a, i) PROVE Listed(a, i + 1)'
  <2>1. \A j \in DOMAIN Members(a) : j < i + 1 /\ IsField(a, j) => j \in listedOf[a] \cup {i}
    <3>1. \A j \in DOMAIN Members(a) : j < i + 1 => j < i \/ j = i
      BY <1>1
    <3> QED BY <1>10, <3>1 DEF Listed
  <2> QED BY <1>1, <1>3, <2>1 DEF Listed, IsField
<1> QED BY <1>3, <1>6, <1>7, <1>9, <1>10

LEMMA FieldsLists ==
    ASSUME Calmly, ListInv, FieldsEnter \/ FieldsStart \/ FieldsNext \/ FieldsPush
    PROVE  ListMove /\ \A b \in Struct : Tidy(b)'
<1>1. InnerStep /\ Top.proc = "determineFields" /\ var' = var
  BY DEF InnerStep, FieldsEnter, FieldsStart, FieldsNext, FieldsPush, At
<1>2. /\ stack # <<>> /\ DataInv /\ program' = program /\ program \in Programs /\ Top \in FrameSet
      /\ agg \in [Agg -> AggSet] /\ errors = 0 /\ errors' = 0 /\ \A b : Members(b)' = Members(b)
      /\ RunSame /\ Depth \in 1..Depth /\ Top = levels[Depth] /\ Depth \in Nat
  BY <1>1, InnerCalm, CalmFacts
<1>3. PICK a \in Agg : a = Top.of /\ sizeokOf[a] = agg[a].sizeok /\ agg[a] \in AggSet
  BY <1>1, InnerCalm, CalmFacts
<1>4. /\ placedOf' = placedOf /\ Struct \subseteq Agg /\ "start" \in Pcs /\ "next" \in Pcs /\ "push" \in Pcs
      /\ Top.i \in Nat /\ DOMAIN Members(a) = 1..Len(Members(a)) /\ DOMAIN Members(a) \subseteq Nat
      /\ \A j : IsField(a, j)' <=> IsField(a, j)
  BY <1>1, <1>2, PlacesStay, ProgramFacts DEF Agg, Pcs, FrameSet, IsField
<1>5. ASSUME agg' = agg PROVE \A b \in Agg : Keeps(b)
  BY <1>4, <1>5, SameAgg DEF AggSame, Keeps
<1>6. ASSUME agg' = agg,
             \/ stack' = Tail(stack)
             \/ \A f : f = levels'[Depth] => Onward(f, "start")
             \/ \A f : f = levels'[Depth] => Onward(f, "push") /\ (a \in Struct => InFront(a, f.i)')
      PROVE  ListMove /\ \A b \in Struct : Tidy(b)'
  <2>1. ASSUME NEW f, Depth' >= Depth, f = levels'[Depth] PROVE f.of = a /\ (a \in Struct => Held(a, f))
    <3>1. Onward(f, "start") \/ (Onward(f, "push") /\ (a \in Struct => InFront(a, f.i)'))
      BY <1>1, <1>6, <2>1, GoesBack
    <3> QED BY <1>1, <1>3, <3>1 DEF Onward, Held, Filling, Placing
  <2>2. a \in Struct => Tidy(a)'
    BY <1>5, <1>6, KeptTidy DEF ListInv
  <2> QED BY <1>1, <1>3, <1>5, <1>6, <2>1, <2>2, OneList
<1>7. ASSUME a \in Struct, Top.pc \in {"next", "push"}, sizeokOf[a] = "none" PROVE InFront(a, Top.i) /\ Tidy(a)
  <2>1. Filling(levels[Depth], a)
    BY <1>1, <1>2, <1>3, <1>7 DEF Filling
  <2>2. \A n \in 1..Depth : ~(n > Depth)
    BY <1>2
  <2> QED BY <1>2, <1>7, <2>1, <2>2 DEF ListInv, ListFrames
<1>8. ASSUME agg' = [agg EXCEPT ![a] = agg'[a]],
             a \in Struct => /\ Rising(a)' /\ (\A j \in listedOf[a] : IsField(a, j))'
                             /\ sizeokOf[a] = "none" /\ agg'[a].sizeok \in {"none", "fwd"},
             \A f : Depth' >= Depth /\ f = levels'[Depth] =>
                Onward(f, "next") /\ (a \in Struct => InFront(a, f.i)')
      PROVE  ListMove /\ \A b \in Struct : Tidy(b)'
  <2>1. /\ \A b \in Agg : b # a => Keeps(b)
        /\ sizeokOf'[a] = agg'[a].sizeok
    BY <1>2, <1>4, <1>8, OthersKept
  <2>2. ASSUME a \in Struct PROVE Tidy(a)'
    <3>1. runOf'[a] # "done" /\ placedOf'[a] = {}
      BY <1>2, <1>4, <1>8, <2>2 DEF ListInv, Tidy, RunSame
    <3> QED BY <1>8, <2>1, <2>2, <3>1 DEF Tidy, Sized
  <2>3. ASSUME NEW f, Depth' >= Depth, f = levels'[Depth] PROVE f.of = a /\ (a \in Struct => Held(a, f))
    BY <1>1, <1>3, <1>8, <2>3 DEF Onward, Held, Filling, Placing
  <2>4. a \in Struct => sizeokOf[a] # "inProcess"
    BY <1>8
  <2> QED BY <1>1, <1>3, <2>1, <2>2, <2>3, <2>4, OneList
<1>9. CASE FieldsEnter
  <2> DEFINE g == Semantic(a, FALSE)
  <2>1. g \in FrameSet
    BY NewFrames
  <2>2. agg' = agg /\ (Continue(GotoMember("start", Top.i)) \/ Call(GotoMember("start", Top.i), g))
    BY <1>2, <1>3, <1>4, <1>9, GotoStill DEF FieldsEnter
  <2> HIDE DEF g
  <2>3. \A f : f = levels'[Depth] => Onward(f, "start")
    BY <1>1, <1>4, <2>1, <2>2, GoesOn
  <2> QED BY <1>6, <2>2, <2>3
<1>10. CASE FieldsStart /\ sizeokOf[a] # "none"
  <2>1. agg' = agg /\ stack' = Tail(stack)
    BY <1>3, <1>10 DEF FieldsStart, ReturnValue
  <2> QED BY <1>6, <2>1
<1>11. CASE FieldsStart /\ sizeokOf[a] = "none"
  <2>1. agg' = [agg EXCEPT ![a].fields = <<>>] /\ Continue(GotoMember("next", 1))
    BY <1>3, <1>11 DEF FieldsStart
  <2>2. agg' = [agg EXCEPT ![a] = agg'[a]] /\ agg'[a].sizeok = agg[a].sizeok /\ agg'[a].fields = <<>>
    BY <1>2, <1>3, <2>1 DEF AggSet
  <2>3. listedOf'[a] = {} /\ fieldsOf'[a] = <<>>
    BY <1>2, <1>4, <2>2, WritesOne, OthersKept
  <2>4. Rising(a)' /\ (\A j \in listedOf[a] : IsField(a, j))' /\ \A i : InFront(a, i)'
    BY <2>3 DEF Rising, InFront
  <2>5. \A f : f = levels'[Depth] => Onward(f, "next")
    BY <1>1, <1>4, <2>1, GoesOn
  <2> QED BY <1>3, <1>8, <1>11, <2>2, <2>4, <2>5
<1>12. ASSUME FieldsNext
       PROVE  ListMove /\ \A b \in Struct : Tidy(b)'
  <2>1. Top.pc = "next"
    BY <1>12 DEF FieldsNext, At
  <2>2. sizeokOf[a] = "none" /\ Top.i \in Nat \ {0}
    BY <1>1, <1>3, <2>1, FillingTop
  <2>3. PICK n \in Nat : n = NextField(a, Top.i) /\ (n # 0 => Top.i <= n)
    BY <1>2, <2>2, NextFieldIs, Skipped
  <2>4. CASE n = 0
    <3>1. agg' = [agg EXCEPT ![a].sizeok = IF @ # "done" THEN "fwd" ELSE @] /\ stack' = Tail(stack)
      BY <1>3, <1>12, <2>3, <2>4 DEF FieldsNext, ReturnValue
    <3>2. agg' = [agg EXCEPT ![a] = agg'[a]] /\ agg'[a].sizeok = "fwd" /\ agg'[a].fields = agg[a].fields
      BY <1>2, <1>3, <2>2, <3>1 DEF AggSet
    <3>3. fieldsOf'[a] = fieldsOf[a] /\ listedOf'[a] = listedOf[a]
      BY <1>2, <3>2, WritesOne DEF fieldsOf
    <3>4. a \in Struct => Rising(a)' /\ (\A j \in listedOf[a] : IsField(a, j))'
      BY <1>4, <1>7, <2>1, <2>2, <3>3, KeepsList DEF Tidy
    <3>5. ~(Depth' >= Depth)
      BY <1>1, <3>1, GoesBack
    <3> QED BY <1>8, <2>2, <3>2, <3>4, <3>5
  <2>5. CASE n # 0
    <3> DEFINE g == Variable(a, n, FALSE)
    <3>1. g \in FrameSet
      BY NewFrames
    <3>2. agg' = agg /\ (Call(GotoMember("push", n), g) \/ Continue(GotoMember("push", n)))
      BY <1>3, <1>12, <2>3, <2>5 DEF FieldsNext
    <3> HIDE DEF g
    <3>3. \A f : f = levels'[Depth] => Onward(f, "push") /\ f.i = n
      BY <1>1, <1>4, <3>1, <3>2, GoesOn
    <3>4. a \in Struct => InFront(a, n)'
      <4> SUFFICES ASSUME a \in Struct PROVE InFront(a, n)'
        OBVIOUS
      <4>1. listedOf'[a] = listedOf[a]
        BY <1>5, <3>2, KeepsList DEF Keeps
      <4>2. \A j \in listedOf[a] : j \in Nat /\ j < Top.i
        <5>1. fieldsOf[a] \in Seq(DOMAIN Members(a))
          BY <1>2 DEF DataInv
        <5>2. \A m \in DOMAIN fieldsOf[a] : fieldsOf[a][m] \in Nat
          BY <1>4, <5>1
        <5> QED BY <1>7, <2>1, <2>2, <5>2 DEF InFront, listedOf
      <4>3. \A j \in listedOf[a] : j < n
        BY <2>2, <2>3, <2>5, <4>2
      <4> QED BY <4>1, <4>3 DEF InFront
    <3> QED BY <1>6, <3>2, <3>3, <3>4
  <2> QED BY <2>4, <2>5
<1>13. ASSUME FieldsPush
       PROVE  ListMove /\ \A b \in Struct : Tidy(b)'
  <2>1. Top.pc = "push"
    BY <1>13 DEF FieldsPush, At
  <2>2. PICK i \in Nat : i = Top.i /\ i \in DOMAIN Members(a) /\ IsField(a, i)
    BY <1>1, <1>3, <2>1, FillingTop
  <2>3. CASE sizeokOf[a] # "none" \/ var[a][i].semanticRun # "done"
    <3>1. agg' = agg /\ stack' = Tail(stack)
      BY <1>3, <1>13, <2>2, <2>3 DEF FieldsPush, ReturnValue
    <3> QED BY <1>6, <3>1
  <2>4. CASE sizeokOf[a] = "none" /\ var[a][i].semanticRun = "done"
    <3>1. \/ errors' = errors + 1
          \/ agg' = [agg EXCEPT ![a].fields = Append(@, i)] /\ Continue(GotoMember("next", i + 1))
      BY <1>3, <1>13, <2>2, <2>4 DEF FieldsPush
    <3>2. agg' = [agg EXCEPT ![a].fields = Append(@, i)] /\ Continue(GotoMember("next", i + 1))
      BY <1>2, <3>1
    <3>3. /\ agg' = [agg EXCEPT ![a] = agg'[a]] /\ agg'[a].sizeok = agg[a].sizeok
          /\ agg'[a].fields = Append(agg[a].fields, i)
      BY <1>2, <1>3, <3>2 DEF AggSet
    <3>4. a \in Struct => /\ Rising(a)' /\ (\A j \in listedOf[a] : IsField(a, j))'
                          /\ InFront(a, i + 1)'
      BY <1>7, <2>1, <2>2, <2>4, <3>3, FieldAdded
    <3>5. \A f : f = levels'[Depth] => Onward(f, "next") /\ f.i = i + 1
      BY <1>1, <1>4, <3>2, GoesOn
    <3> QED BY <1>3, <1>8, <2>4, <3>3, <3>4, <3>5
  <2> QED BY <2>3, <2>4
<1> QED BY <1>9, <1>10, <1>11, <1>12, <1>13

\* What the call that gives a struct its places knows of the list.
LEMMA PlacingAt ==
    ASSUME Calmly, ListInv, InnerStep, Top.proc = "finalizeSize", Top.pc # "enter",
           NEW a \in Struct, a = Top.of
    PROVE  Placing(Top, a) /\ sizeokOf[a] = "inProcess" /\ UpTo(a, Top.i) /\ Tidy(a)
<1>1. FrameOK(Top, program) /\ Top = levels[Depth] /\ Depth \in 1..Depth
  BY InnerCalm
<1>2. Placing(Top, a)
  BY <1>1 DEF FrameOK, Placing
<1> QED BY <1>1, <1>2 DEF ListInv, ListFrames

\* A field of a struct is put in place behind the others.
LEMMA PlacedList ==
    ASSUME Calmly, ListInv, InnerStep, Top.proc = "finalizeSize", Top.pc # "enter", NEW a \in Agg, a = Top.of,
           NEW i \in DOMAIN Members(a), i \in Nat, IsField(a, i), a \in Struct => UpTo(a, i),
           agg' = [agg EXCEPT ![a].fields = Append(@, i)],
           NEW v \in VarSet, v.placed = TRUE,
           var' = [var EXCEPT ![a] = [var[a] EXCEPT ![i] = v]],
           Continue(GotoMember("next", i + 1))
    PROVE  ListMove /\ \A b \in Struct : Tidy(b)'
<1>1. /\ DataInv /\ VarInv /\ program' = program /\ agg \in [Agg -> AggSet] /\ "next" \in Pcs /\ RunSame
      /\ \A b : Members(b)' = Members(b)
  BY InnerCalm, CalmFacts DEF Pcs
<1>2. /\ agg' = [agg EXCEPT ![a] = agg'[a]] /\ agg'[a].sizeok = agg[a].sizeok
      /\ agg'[a].fields = Append(agg[a].fields, i)
  <2>1. agg[a] \in AggSet
    BY <1>1
  <2> QED BY <1>1, <2>1 DEF AggSet
<1>3. /\ \A b \in Agg : b # a => placedOf'[b] = placedOf[b]
      /\ placedOf'[a] = placedOf[a] \cup {i}
  BY <1>1, SetPlaced
<1>4. (\A b \in Agg : b # a => Keeps(b)) /\ sizeokOf'[a] = sizeokOf[a]
  BY <1>1, <1>2, <1>3, OthersKept DEF sizeokOf
<1>5. ASSUME a \in Struct PROVE Tidy(a)' /\ UpTo(a, i + 1)' /\ Placing(Top, a) /\ sizeokOf'[a] = "inProcess"
  <2>1. Placing(Top, a) /\ sizeokOf[a] = "inProcess" /\ UpTo(a, i) /\ Tidy(a)
    BY <1>5, PlacingAt
  <2>2. /\ Rising(a)' /\ (\A j \in listedOf[a] : IsField(a, j))' /\ InFront(a, i + 1)' /\ Listed(a, i + 1)'
    BY <1>2, <1>5, <2>1, FieldAdded DEF UpTo
  <2>3. \A j \in placedOf[a] \cup {i} : j < i + 1
    <3>1. \A j \in placedOf[a] : j \in Nat
      BY <1>1, ProgramFacts DEF placedOf, DataInv
    <3> QED BY <2>1, <3>1 DEF UpTo
  <2>4. Tidy(a)'
    BY <1>4, <2>1, <2>2 DEF Tidy, Sized
  <2> QED BY <1>3, <1>4, <2>1, <2>2, <2>3, <2>4 DEF UpTo
<1>6. ASSUME NEW f, Depth' >= Depth, f = levels'[Depth] PROVE f.of = a /\ (a \in Struct => Held(a, f))
  <2>1. Onward(f, "next") /\ f.i = i + 1
    BY <1>1, <1>6, GoesOn
  <2>2. a \in Struct => UpTo(a, f.i)'
    BY <1>5, <2>1 DEF UpTo, InFront, Listed
  <2> QED BY <1>5, <2>1, <2>2 DEF Onward, Held, Filling, Placing
<1> QED BY <1>4, <1>5, <1>6, OneList

LEMMA FinalizeEnterLists ==
    ASSUME Calmly, ListInv, FinalizeEnter
    PROVE  ListMove /\ \A b \in Struct : Tidy(b)'
<1>1. InnerStep /\ Top.proc = "finalizeSize" /\ Top.pc = "enter" /\ var' = var
  BY DEF InnerStep, FinalizeEnter, At
<1>2. /\ stack # <<>> /\ DataInv /\ program' = program /\ program \in Programs
      /\ agg \in [Agg -> AggSet] /\ "next" \in Pcs /\ RunSame /\ \A b : Members(b)' = Members(b)
  BY <1>1, InnerCalm, CalmFacts DEF Pcs
<1>3. PICK a \in Agg : a = Top.of /\ sizeokOf[a] = agg[a].sizeok /\ agg[a] \in AggSet
  BY <1>1, InnerCalm, CalmFacts
<1>4. sizeokOf[a] \notin {"none", "done"} /\ placedOf' = placedOf
  BY <1>1, <1>2, <1>3, PlacingTop, PlacesStay
<1>5. CASE a \in Struct /\ sizeokOf[a] = "inProcess"
  <2>1. agg' = agg /\ stack' = Tail(stack)
    BY <1>3, <1>5 DEF FinalizeEnter, Return
  <2>2. \A b \in Agg : Keeps(b)
    BY <1>4, <2>1, SameAgg DEF AggSame, Keeps
  <2>3. ~(Depth' >= Depth)
    BY <1>1, <2>1, GoesBack
  <2>4. Tidy(a)'
    BY <1>5, <2>2, KeptTidy DEF ListInv
  <2> QED BY <1>1, <1>3, <2>2, <2>3, <2>4, OneList
<1>6. CASE ~(a \in Struct /\ sizeokOf[a] = "inProcess")
  <2>1. /\ agg' = [agg EXCEPT ![a].fields = <<>>, ![a].sizeok = IF a \in Struct THEN "inProcess" ELSE @]
        /\ Continue(GotoMember("next", 1))
    BY <1>3, <1>6 DEF FinalizeEnter
  <2>2. /\ agg' = [agg EXCEPT ![a] = agg'[a]] /\ agg'[a].fields = <<>>
        /\ agg'[a].sizeok = IF a \in Struct THEN "inProcess" ELSE agg[a].sizeok
    BY <1>2, <1>3, <2>1 DEF AggSet
  <2>3. /\ \A b \in Agg : b # a => Keeps(b)
        /\ sizeokOf'[a] = agg'[a].sizeok /\ fieldsOf'[a] = <<>> /\ listedOf'[a] = {}
    BY <1>2, <1>4, <2>2, OthersKept, WritesOne
  <2>4. ASSUME a \in Struct PROVE Tidy(a)' /\ UpTo(a, 1)' /\ sizeokOf'[a] = "inProcess" /\ sizeokOf[a] # "inProcess"
    <3>1. sizeokOf'[a] = "inProcess" /\ sizeokOf[a] = "fwd" /\ placedOf[a] = {}
      BY <1>3, <1>4, <1>6, <2>2, <2>3, <2>4 DEF AggSet, ListInv, Tidy
    <3>2. \A j \in DOMAIN Members(a) : ~(j < 1)
      BY <1>2, ProgramFacts
    <3>3. UpTo(a, 1)'
      BY <1>2, <1>4, <2>3, <3>1, <3>2 DEF UpTo, Listed, InFront
    <3>4. Tidy(a)'
      BY <2>3, <3>1 DEF Tidy, Rising, Sized
    <3> QED BY <3>1, <3>3, <3>4
  <2>5. ASSUME NEW f, Depth' >= Depth, f = levels'[Depth] PROVE f.of = a /\ (a \in Struct => Held(a, f))
    <3>1. Onward(f, "next") /\ f.i = 1
      BY <1>1, <1>2, <2>1, <2>5, GoesOn
    <3>2. a \in Struct => UpTo(a, f.i)'
      BY <2>4, <3>1 DEF UpTo, InFront, Listed
    <3> QED BY <1>1, <1>3, <2>4, <3>1, <3>2 DEF Onward, Held, Filling, Placing
  <2> QED BY <1>1, <1>3, <2>3, <2>4, <2>5, OneList
<1> QED BY <1>5, <1>6

LEMMA FinalizeFieldLists ==
    ASSUME Calmly, ListInv, FinalizeField
    PROVE  ListMove /\ \A b \in Struct : Tidy(b)'
<1>1. InnerStep /\ Top.proc = "finalizeSize" /\ Top.pc = "next"
  BY DEF InnerStep, FinalizeField, At
<1>2. /\ DataInv /\ VarInv /\ program' = program /\ program \in Programs /\ agg \in [Agg -> AggSet]
      /\ "next" \in Pcs /\ "sized" \in Pcs /\ \A b : Members(b)' = Members(b)
  BY <1>1, InnerCalm, CalmFacts DEF Pcs
<1>3. PICK a \in Agg : a = Top.of /\ badOf[a] = {} /\ fieldsOf[a] = agg[a].fields
  BY <1>1, <1>2, InnerCalm, CalmFacts, AggFields
<1>4. /\ \A j \in DOMAIN Members(a) : IsField(a, j) => j \in doneOf[a]
      /\ Top.i \in Nat \ {0} /\ DOMAIN Members(a) \subseteq Nat
  BY <1>1, <1>2, <1>3, PlacingTop, ProgramFacts
<1>5. PICK n \in Nat : n = NextField(a, Top.i) /\ n # 0 /\ NoFieldIn(a, Top.i, n) /\ Top.i <= n
  BY <1>2, <1>3, <1>4, NextFieldIs, Skipped DEF FinalizeField
<1>6. n \in DOMAIN Members(a) /\ IsField(a, n) /\ n \in doneOf[a] /\ n \notin badOf[a]
  BY <1>2, <1>3, <1>4, <1>5, NextFieldIs
<1>7. var[a][n].semanticRun = "done" /\ ~var[a][n].terror /\ var[a][n] \in VarSet
  BY <1>2, <1>6, VarFacts
<1> DEFINE again == var[a][n].placed \/ n \in listedOf[a]
<1>8. again <=> var[a][n].placed \/ \E k \in DOMAIN agg[a].fields : agg[a].fields[k] = n
  BY <1>3 DEF listedOf
<1>9. /\ again => Continue(GotoMember("next", n + 1)) /\ UNCHANGED <<agg, var>>
      /\ ~again /\ OfType(a, n) =>
           Call(GotoMember("sized", n), DetermineSize(PartOf(a, n))) /\ UNCHANGED <<agg, var>>
      /\ ~again /\ ~OfType(a, n) => /\ agg' = [agg EXCEPT ![a].fields = Append(@, n)]
                                    /\ var' = [var EXCEPT ![a][n].placed = TRUE]
                                    /\ Continue(GotoMember("next", n + 1))
  BY <1>3, <1>5, <1>7, <1>8 DEF FinalizeField, OfType, PartOf
<1>10. ASSUME a \in Struct PROVE UpTo(a, n) /\ ~again /\ Placing(Top, a) /\ sizeokOf[a] = "inProcess"
  <2>1. Placing(Top, a) /\ sizeokOf[a] = "inProcess" /\ UpTo(a, Top.i)
    BY <1>1, <1>3, <1>10, PlacingAt
  <2>2. \A j \in listedOf[a] \cup placedOf[a] : j \in Nat
    <3>1. \A m \in DOMAIN fieldsOf[a] : fieldsOf[a][m] \in Nat
      BY <1>2, <1>4 DEF DataInv
    <3> QED BY <1>4, <3>1 DEF listedOf, placedOf
  <2>3. \A j \in listedOf[a] \cup placedOf[a] : j < n /\ j # n
    BY <1>4, <1>5, <2>1, <2>2 DEF UpTo, InFront
  <2>4. Listed(a, n)
    <3>1. \A j \in DOMAIN Members(a) : j < n /\ IsField(a, j) => j < Top.i
      BY <1>4, <1>5 DEF NoFieldIn
    <3> QED BY <2>1, <3>1 DEF UpTo, Listed
  <2> QED BY <1>6, <2>1, <2>3, <2>4 DEF UpTo, InFront, placedOf
<1>11. CASE again \/ OfType(a, n)
  <2>1. UNCHANGED <<agg, var>>
    BY <1>9, <1>11
  <2>2. \A b \in Agg : Keeps(b)
    BY <1>2, <2>1, SameAgg, PlacesStay DEF AggSame, Keeps
  <2>3. ASSUME a \in Struct PROVE Tidy(a)' /\ UpTo(a, n)' /\ sizeokOf'[a] = "inProcess"
    <3>1. listedOf'[a] = listedOf[a] /\ placedOf'[a] = placedOf[a] /\ sizeokOf'[a] = sizeokOf[a]
      BY <2>2, KeepsList DEF Keeps
    <3>2. UpTo(a, n)'
      BY <1>2, <1>10, <2>3, <3>1 DEF UpTo, Listed, InFront, IsField
    <3> QED BY <1>10, <2>2, <2>3, <3>1, <3>2, KeptTidy DEF ListInv
  <2>4. ASSUME NEW f, Depth' >= Depth, f = levels'[Depth] PROVE f.of = a /\ (a \in Struct => Held(a, f))
    <3>1. CASE again
      <4>1. Onward(f, "next")
        BY <1>1, <1>2, <1>9, <2>4, <3>1, GoesOn
      <4> QED BY <1>3, <1>10, <3>1, <4>1 DEF Onward
    <3>2. CASE ~again
      <4>1. PartOf(a, n) \in Agg
        BY <1>2, <1>6, <1>11, <3>2, ProgramFacts DEF OfType, PartOf, Agg
      <4>2. DetermineSize(PartOf(a, n)) \in FrameSet
        BY <4>1, NewFrames
      <4>3. Onward(f, "sized") /\ f.i = n
        BY <1>1, <1>2, <1>9, <1>11, <2>4, <3>2, <4>2, GoesOn
      <4>4. a \in Struct => UpTo(a, f.i)'
        BY <2>3, <4>3 DEF UpTo, InFront, Listed
      <4> QED BY <1>1, <1>3, <1>10, <2>3, <4>3, <4>4 DEF Onward, Held, Filling, Placing
    <3> QED BY <3>1, <3>2
  <2> QED BY <1>1, <1>3, <2>2, <2>3, <2>4, OneList
<1>12. CASE ~again /\ ~OfType(a, n)
  <2> DEFINE v == [var[a][n] EXCEPT !.placed = TRUE]
  <2>1. v \in VarSet /\ v.placed = TRUE
    BY <1>7 DEF VarSet
  <2>2. var' = [var EXCEPT ![a] = [var[a] EXCEPT ![n] = v]]
    BY <1>9, <1>12
  <2> HIDE DEF v
  <2>3. agg' = [agg EXCEPT ![a].fields = Append(@, n)] /\ Continue(GotoMember("next", n + 1))
    BY <1>9, <1>12
  <2> QED BY <1>1, <1>3, <1>6, <1>10, <2>1, <2>2, <2>3, PlacedList
<1> QED BY <1>11, <1>12

LEMMA FinalizeSizedLists ==
    ASSUME Calmly, ListInv, FinalizeSized
    PROVE  ListMove /\ \A b \in Struct : Tidy(b)'
<1>1. InnerStep /\ Top.proc = "finalizeSize" /\ Top.pc = "sized"
  BY DEF InnerStep, FinalizeSized, At
<1>2. /\ DataInv /\ VarInv /\ program \in Programs /\ agg \in [Agg -> AggSet] /\ ret \in BOOLEAN
      /\ Top = levels[Depth] /\ Depth > 0
  BY <1>1, InnerCalm, CalmFacts DEF DataInv
<1>3. PICK a \in Agg : a = Top.of
  BY <1>1, InnerCalm
<1>4. PICK i \in Nat : i = Top.i /\ i \in DOMAIN Members(a) /\ OfType(a, i)
  BY <1>1, <1>3, PlacingTop
<1>5. IsField(a, i) /\ PartOf(a, i) \in Agg /\ PartOf(a, i) = Members(a)[i].of
  BY <1>2, <1>4, ProgramFacts DEF OfType, PartOf, IsField, Agg
<1>6. ret
  <2>1. RetInv
    BY DEF Calmly, Consistent, BlameInv
  <2>2. ret \/ terrorOf[PartOf(a, i)]
    BY <1>1, <1>2, <1>3, <1>4, <1>5, <2>1 DEF RetInv
  <2> QED BY <1>5, <2>2, CalmFacts
<1>7. /\ agg' = [agg EXCEPT ![a].fields = Append(@, i)]
      /\ var' = [var EXCEPT ![a][i].placed = TRUE, ![a][i].terror = FALSE]
      /\ Continue(GotoMember("next", i + 1))
  BY <1>2, <1>3, <1>4, <1>6 DEF FinalizeSized
<1> DEFINE v == [var[a][i] EXCEPT !.placed = TRUE, !.terror = FALSE]
<1>8. v \in VarSet /\ v.placed = TRUE
  <2>1. var[a][i] \in VarSet
    BY <1>2, <1>4, VarFacts
  <2> QED BY <2>1 DEF VarSet
<1>9. var' = [var EXCEPT ![a] = [var[a] EXCEPT ![i] = v]]
  BY <1>2, <1>4, <1>7 DEF VarInv
<1> HIDE DEF v
<1>10. agg' = [agg EXCEPT ![a].fields = Append(@, i)] /\ Continue(GotoMember("next", i + 1))
  BY <1>7
<1>11. a \in Struct => UpTo(a, i)
  BY <1>1, <1>3, <1>4, PlacingAt
<1> QED BY <1>1, <1>3, <1>4, <1>5, <1>8, <1>9, <1>10, <1>11, PlacedList

LEMMA FinalizeDoneLists ==
    ASSUME Calmly, ListInv, FinalizeDone
    PROVE  ListMove /\ \A b \in Struct : Tidy(b)'
<1>1. InnerStep /\ Top.proc = "finalizeSize" /\ Top.pc = "next" /\ var' = var /\ stack' = Tail(stack)
  BY DEF InnerStep, FinalizeDone, At, Return
<1>2. /\ DataInv /\ program' = program /\ program \in Programs /\ agg \in [Agg -> AggSet]
      /\ \A b : Members(b)' = Members(b)
  BY <1>1, InnerCalm, CalmFacts
<1>3. PICK a \in Agg : a = Top.of /\ ~agg[a].terror /\ agg[a] \in AggSet
  BY <1>1, InnerCalm, CalmFacts
<1>4. Top.i \in Nat \ {0} /\ DOMAIN Members(a) \subseteq Nat /\ placedOf' = placedOf
  BY <1>1, <1>2, <1>3, PlacingTop, ProgramFacts, PlacesStay
<1>5. NoFieldFrom(a, Top.i)
  BY <1>2, <1>3, <1>4, Skipped DEF FinalizeDone
<1>6. agg' = [agg EXCEPT ![a].errors = @, ![a].sizeok = "done"]
  <2>1. agg[a].errors \in BOOLEAN
    BY <1>3 DEF AggSet
  <2> QED BY <1>3, <2>1 DEF FinalizeDone
<1>7. agg' = [agg EXCEPT ![a] = agg'[a]] /\ agg'[a].sizeok = "done" /\ agg'[a].fields = agg[a].fields
  BY <1>2, <1>3, <1>6 DEF AggSet
<1>8. (\A b \in Agg : b # a => Keeps(b)) /\ sizeokOf'[a] = "done" /\ fieldsOf'[a] = fieldsOf[a]
  BY <1>2, <1>4, <1>7, OthersKept DEF fieldsOf
<1>9. listedOf'[a] = listedOf[a] /\ (Rising(a) => Rising(a)')
  BY <1>8, KeepsList
<1>10. ASSUME a \in Struct PROVE Tidy(a)' /\ Placing(Top, a)
  <2>1. Placing(Top, a) /\ UpTo(a, Top.i) /\ Tidy(a)
    BY <1>1, <1>3, <1>10, PlacingAt
  <2>2. \A j \in DOMAIN Members(a) : IsField(a, j) => j < Top.i
    BY <1>4, <1>5 DEF NoFieldFrom
  <2>3. AllListed(a)'
    BY <1>2, <1>9, <2>1, <2>2 DEF AllListed, UpTo, Listed, IsField
  <2>4. (\A j \in listedOf[a] : IsField(a, j))'
    BY <1>2, <1>9, <2>1 DEF Tidy, IsField
  <2> QED BY <1>8, <1>9, <2>1, <2>3, <2>4 DEF Tidy
<1>11. ~(Depth' >= Depth)
  BY <1>1, GoesBack
<1> QED BY <1>1, <1>3, <1>8, <1>10, <1>11, OneList

LEMMA ListsMove ==
    ASSUME Calmly, ListInv
    PROVE  ListInv'
<1>1. ListMove /\ \A b \in Struct : Tidy(b)'
  <2>1. CASE FieldsEnter \/ FieldsStart \/ FieldsNext \/ FieldsPush
    BY <2>1, FieldsLists
  <2>2. CASE FinalizeEnter \/ FinalizeField \/ FinalizeSized \/ FinalizeDone
    BY <2>2, FinalizeEnterLists, FinalizeFieldLists, FinalizeSizedLists, FinalizeDoneLists
  <2>3. CASE ~(FieldsEnter \/ FieldsStart \/ FieldsNext \/ FieldsPush)
             /\ ~(FinalizeEnter \/ FinalizeField \/ FinalizeSized \/ FinalizeDone)
    <3>1. stack # <<>> => Top.proc \notin {"determineFields", "finalizeSize"}
      <4>1. CASE InnerStep
        BY <2>3, <4>1 DEF InnerStep, At, VariableAtOnce, VariableOfStruct, VariableOfSize, VariableSized,
           SizeAtOnce, SizeEnter, SizeBase, SizeBased, SizeFields, SizeFinal
      <4>2. CASE ~InnerStep
        BY <4>2, OuterKeeps, CalmFacts DEF Calmly, InnerProcs
      <4> QED BY <4>1, <4>2
    <3> QED BY <3>1, OtherLists
  <2> QED BY <2>1, <2>2, <2>3
<1>2. CalmMove /\ \A b \in Agg : Follows(b)
  BY InnerMoves, OuterMoves, StayFollows
<1> QED BY <1>1, <1>2, ListsKept DEF ListInv

ListsAlways == CalmAlways /\ (Calm => ListInv)

LEMMA StepLists ==
    ASSUME ListsAlways, Step
    PROVE  ListsAlways'
<1>1. CalmAlways'
  BY StepCalm DEF ListsAlways
<1>2. Calm' => ListInv'
  <2> SUFFICES ASSUME Calm' PROVE ListInv'
    OBVIOUS
  <2>1. Calm
    BY CalmBefore DEF CalmAlways, ListsAlways
  <2>2. Consistent' /\ StepEffect
    BY StepConsistent DEF CalmAlways, ListsAlways
  <2>3. Calmly /\ ListInv
    BY <2>1, <2>2 DEF Calmly, CalmAlways, ListsAlways
  <2> QED BY <2>3, ListsMove
<1> QED BY <1>1, <1>2 DEF ListsAlways

LEMMA StutterLists ==
    ASSUME ListsAlways, UNCHANGED vars
    PROVE  ListsAlways'
<1>1. Depth' = Depth /\ levels' = levels /\ ret' = ret /\ program' = program /\ errors' = errors
      /\ agg' = agg /\ var' = var
  BY SameLevels DEF vars
<1>2. UNCHANGED <<runOf, sizeokOf, fieldsOf>>
  BY <1>1, SameAgg DEF AggSame
<1>3. listedOf' = listedOf /\ placedOf' = placedOf
  BY <1>1, <1>2, PlacesStay DEF listedOf
<1>4. \A a : Members(a)' = Members(a)
  BY <1>1 DEF Members
<1>5. \A a, i : /\ UpTo(a, i)' <=> UpTo(a, i)
                /\ InFront(a, i)' <=> InFront(a, i)
                /\ IsField(a, i)' <=> IsField(a, i)
  BY <1>3, <1>4 DEF UpTo, InFront, Listed, IsField
<1>6. \A a : (Tidy(a)' <=> Tidy(a))
  BY <1>2, <1>3, <1>4, <1>5 DEF Tidy, Rising, Sized, AllListed
<1>7. ListFrames => ListFrames'
  BY <1>1, <1>2, <1>5 DEF ListFrames, Filling, Placing
<1>8. (ListInv => ListInv') /\ (Calm' <=> Calm)
  BY <1>1, <1>6, <1>7 DEF ListInv, Calm, Failing
<1>9. CalmAlways'
  BY StutterCalm DEF ListsAlways
<1> QED BY <1>8, <1>9 DEF ListsAlways

LEMMA InitLists ==
    ASSUME Init
    PROVE  ListsAlways
<1>1. Depth = 1 /\ levels[1] = ModuleSemantic(Main) /\ ModuleSemantic(Main).proc = "module"
  BY InitStack, NewFrames
<1>2. \A a \in Struct : a \in Agg /\ runOf[a] = "init"
  BY InitData DEF Agg
<1>3. \A a \in Agg : sizeokOf[a] = "none" /\ fieldsOf[a] = <<>> /\ placedOf[a] = {}
  BY DEF Init, sizeokOf, fieldsOf, placedOf
<1>4. \A a \in Agg : listedOf[a] = {}
  BY <1>3 DEF listedOf
<1>5. \A a \in Struct : Tidy(a)
  BY <1>2, <1>3, <1>4 DEF Tidy, Rising, Sized
<1>6. \A k \in 1..Depth : k = 1
  BY <1>1
<1>7. ListFrames
  BY <1>1, <1>6 DEF ListFrames, Filling, Placing
<1> QED BY <1>5, <1>7, InitCalm DEF ListsAlways, ListInv

\* A struct of a program that compiles lists each of its fields once, in the
\* order of declaration, however often the list was begun anew while sizes were
\* asked for: by determineFields if nobody wants its size, by finalizeSize else.
THEOREM FieldsAreComplete == Spec => []FieldsComplete
<1>1. Init => ListsAlways
  BY InitLists
<1>2. ListsAlways /\ [Next]_vars => ListsAlways'
  <2>1. [Next]_vars => Step \/ UNCHANGED vars
    BY DEF Next, Finished
  <2> QED BY <2>1, StepLists, StutterLists
<1>3. ASSUME ListsAlways, NothingLost PROVE FieldsComplete
  <2> SUFFICES ASSUME phase = "end", errors = 0, NEW a \in Declared \cap Struct
               PROVE  LET f == agg[a].fields IN
                      /\ {f[n] : n \in DOMAIN f} = {i \in DOMAIN Members(a) : IsField(a, i)}
                      /\ \A n \in DOMAIN f : n > 1 => f[n-1] < f[n]
    BY DEF FieldsComplete
  <2>1. /\ DataInv /\ StackInv /\ EndInv /\ CalmAlways
    BY <1>3 DEF ListsAlways, CalmAlways, Consistent
  <2>2. Depth = 0 /\ \A k : k \notin 1..Depth
    BY <2>1, EmptyStack DEF EndInv, StackInv
  <2>3. CalmInv /\ ListInv
    BY <1>3, <2>1, <2>2 DEF ListsAlways, CalmAlways, Calm, Failing
  <2>4. a \in Agg /\ Tidy(a) /\ Parts(a) /\ agg[a] \in AggSet
    BY <2>1, <2>3 DEF Agg, ListInv, CalmInv, PartsInv, DataInv
  <2>5. runOf[a] = "done" /\ sizeokOf[a] = agg[a].sizeok /\ fieldsOf[a] = agg[a].fields
    BY <1>3, <2>4 DEF NothingLost, runOf, sizeokOf, fieldsOf
  <2>6. sizeokOf[a] \in {"fwd", "done"}
    BY <2>2, <2>3, <2>4, <2>5 DEF Tidy, AggSet, CalmInv, PlaceInv
  <2>7. AllListed(a)
    BY <2>4, <2>6 DEF Tidy, Parts, Sized
  <2>8. listedOf[a] = {fieldsOf[a][n] : n \in DOMAIN fieldsOf[a]} /\ fieldsOf[a] \in Seq(DOMAIN Members(a))
    BY <2>1, <2>4 DEF listedOf, DataInv
  <2>9. listedOf[a] \subseteq DOMAIN Members(a)
    BY <2>8
  <2>10. listedOf[a] = {i \in DOMAIN Members(a) : IsField(a, i)}
    BY <2>4, <2>7, <2>9 DEF AllListed, Tidy
  <2>11. \A n \in DOMAIN fieldsOf[a] : n > 1 => n - 1 \in DOMAIN fieldsOf[a] /\ n - 1 < n
    BY <2>8
  <2>12. \A n \in DOMAIN fieldsOf[a] : n > 1 => fieldsOf[a][n-1] < fieldsOf[a][n]
    BY <2>4, <2>11 DEF Tidy, Rising
  <2> QED BY <2>5, <2>8, <2>10, <2>12
<1> QED BY <1>1, <1>2, <1>3, NothingIsLost, PTL DEF Spec

=============================================================================
