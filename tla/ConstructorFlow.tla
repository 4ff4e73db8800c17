--------------------------- MODULE ConstructorFlow ---------------------------
(***************************************************************************)
(* Flow analysis of constructors: ctorflow.d and its uses in the semantic  *)
(* passes over expressions, statements and function bodies.                *)
(*                                                                         *)
(* A constructor must call another constructor exactly once on every path, *)
(* initialise some fields on every path, and others at most once.  The     *)
(* compiler keeps a set of flags (CSX) for the calls and one per field,    *)
(* threads it through the body as it analyses it, and merges it where      *)
(* paths meet.  Here the body is built while it is analysed: each action   *)
(* is the next piece of the body, and `paths` holds what the executions of *)
(* the body so far would really do.                                        *)
(***************************************************************************)
EXTENDS Naturals, SequencesExt

CONSTANTS Fields,        \* the fields of the aggregate, none overlapping
          Immutable,     \* those with a const or immutable type
          MustInit,      \* those without a default: @disable this, nested structs
          ExitsInLoops,  \* may a loop or a switch contain return and assert(0)?
          MaxStatements, \* bound on the pieces of the body
          MaxDepth       \* bound on the nesting

ASSUME FieldsAssumption == Immutable \subseteq Fields /\ MustInit \subseteq Fields
ASSUME ExitsAssumption  == ExitsInLoops \in BOOLEAN
ASSUME BoundAssumption  == MaxStatements \in Nat /\ MaxDepth \in Nat

VARIABLES
    cd,          \* is it a class whose base has a constructor, or a struct?
    flow,        \* sc.ctorflow of the innermost scope
    ctorinit,    \* the fields with VarDeclaration.ctorinit set
    frames,      \* the statements and expressions under analysis, innermost last
    paths,       \* what executions do from the start of the innermost frame to here
    statements,  \* the pieces of the body so far
    errors, deprecated,  \* what was reported
    stage,       \* "analysing", "accepted" or "rejected"
    implicit     \* was super() inserted at the start of the body?

vars == <<cd, flow, ctorinit, frames, paths, statements, errors, deprecated,
          stage, implicit>>

CSX == {"this_ctor", "super_ctor", "label", "return_", "any_ctor", "halt",
        "deprecate_18719"}

Ctors == {"this_ctor", "super_ctor"}

CtorFlow == [callSuper : SUBSET CSX, fieldinit : [Fields -> SUBSET CSX]]

orCSX(f, bit) == [callSuper |-> f.callSuper \cup {bit},
                  fieldinit |-> [v \in Fields |-> f.fieldinit[v] \cup {bit}]]

\* The bits of g are added to f, which Scope.pop does to the enclosing scope.
OR(f, g) == [callSuper |-> f.callSuper \cup g.callSuper,
             fieldinit |-> [v \in Fields |-> f.fieldinit[v] \cup g.fieldinit[v]]]

-----------------------------------------------------------------------------
(* Where two paths meet.  The result is in csx; a failed merge of callSuper *)
(* leaves a as it is, one of a field does not.                              *)

Merged(ok, csx) == [ok |-> ok, csx |-> csx]

\* MUTANT: a branch that halted counts as one that went on.
MergeHaltAsLive(a, b) ==
    IF a = b THEN Merged(TRUE, a)
    ELSE IF (a \cap Ctors = {}) # (b \cap Ctors = {}) THEN Merged(FALSE, a)
    ELSE Merged(TRUE, a \cup b)

\* MUTANT: only a branch merged into another is looked at for a bare return.
MergeOneSided(a, b) ==
    LET all(x)  == x \cap Ctors # {}
        bare(x) == "return_" \in x /\ ~all(x)
    IN  IF bare(b) /\ all(a) THEN Merged(FALSE, a)
        ELSE IF "return_" \in b \/ "halt" \in b THEN Merged(TRUE, a)
        ELSE IF "return_" \in a \/ "halt" \in a THEN Merged(TRUE, b)
        ELSE Merged(all(a) = all(b), a \cup b)

\* MUTANT: of a branch that left, the wrong flags are taken over.
MergeWrongMask(a, b) ==
    LET all(x)    == x \cap Ctors # {}
        left(x)   == "halt" \in x \/ ("return_" \in x /\ all(x))
        traces(x) == x \cap (Ctors \cup {"label"})
    IN  IF a = b THEN Merged(TRUE, a)
        ELSE IF left(b) THEN Merged(TRUE, a \cup traces(b))
        ELSE IF left(a) THEN Merged(TRUE, b \cup traces(a))
        ELSE Merged(all(a) = all(b), a \cup traces(b))

mergeCallSuper(a, b) ==
    LET all(x)     == x \cap Ctors # {}
        any(x)     == "any_ctor" \in x
        ret(x)     == "return_" \in x
        halt(x)    == "halt" \in x
        skips(x)   == ~halt(x) /\ ret(x) /\ ~any(x)  \* left without a call
        left(x)    == halt(x) \/ (ret(x) /\ all(x))  \* left, all in order
        traces(x)  == x \cap {"any_ctor", "label"}
    IN  IF a = b THEN Merged(TRUE, a)
        ELSE IF halt(a) /\ halt(b) THEN Merged(TRUE, {"halt"})
        ELSE IF (skips(b) /\ any(a)) \/ (skips(a) /\ any(b)) THEN Merged(FALSE, a)
        ELSE IF left(b) THEN Merged(TRUE, a \cup traces(b))
        ELSE IF left(a) THEN Merged(TRUE, b \cup traces(a))
        ELSE IF all(a) # all(b) THEN Merged(FALSE, a)
        ELSE Merged(TRUE, a \cup traces(b)
                            \cup {r \in {"return_"} : ret(b) /\ ~any(b)})

\* MUTANT: a field counts as initialised if both branches do so.
MergeFieldBoth(a, b) == Merged(("this_ctor" \in a) = ("this_ctor" \in b), a \cap b)

mergeFieldInit(a, b) ==
    LET init(x) == "this_ctor" \in x
        ret(x)  == "return_" \in x
        halt(x) == "halt" \in x
    IN  IF a = b THEN Merged(TRUE, a)
        ELSE IF halt(a) /\ halt(b) THEN Merged(TRUE, {"halt"})
        ELSE IF ~halt(b) /\ ret(b) THEN Merged(init(b), a)
        ELSE IF ~halt(a) /\ ret(a) THEN Merged(init(a), b)
        ELSE IF halt(b) THEN Merged(init(a), a)
        ELSE IF halt(a) THEN Merged(init(b), b)
        ELSE Merged(init(a) = init(b), a \cup b)

\* Scope.merge: f is the flow of the scope, g that of the other path.
MergeFlow(f, g) ==
    [callSuper |-> mergeCallSuper(f.callSuper, g.callSuper).csx,
     fieldinit |-> [v \in Fields |->
                      mergeFieldInit(f.fieldinit[v], g.fieldinit[v]).csx]]

MergeErrors(f, g) ==
    {e \in {"one path skips constructor"} :
        ~mergeCallSuper(f.callSuper, g.callSuper).ok}
    \cup {e \in {"one path skips field"} :
            \E v \in MustInit : ~mergeFieldInit(f.fieldinit[v], g.fieldinit[v]).ok}

-----------------------------------------------------------------------------
(* What executions do: the constructors called (2 stands for more), the     *)
(* times a field was initialised before any this() call, and how it ended.  *)

AtMostTwice(n) == IF n > 2 THEN 2 ELSE n

Path == [ctors : 0..2, inits : [Fields -> 0..2], delegated : BOOLEAN,
         ended : {"no", "return", "halt"}]

Nothing == [ctors |-> 0, inits |-> [v \in Fields |-> 0], delegated |-> FALSE,
            ended |-> "no"]

Running(P) == {p \in P : p.ended = "no"}

\* p and then q, of which a this() call in p makes the assignments count for nothing.
Then(p, q) ==
    [ctors     |-> AtMostTwice(p.ctors + q.ctors),
     inits     |-> [v \in Fields |-> IF p.delegated THEN p.inits[v]
                                     ELSE AtMostTwice(p.inits[v] + q.inits[v])],
     delegated |-> p.delegated \/ q.delegated,
     ended     |-> q.ended]

Extend(P, Q) == (P \ Running(P)) \cup {Then(p, q) : p \in Running(P), q \in Q}

\* Once or more often; twice is often enough to see what is done twice.
Repeat(P) == P \cup Extend(P, P)

-----------------------------------------------------------------------------
\* The conditional operators, whose parts are expressions.
ExpressionKinds == {"and", "first", "second"}
LoopKinds       == {"for", "do", "switch"}
FrameKinds      == ExpressionKinds \cup LoopKinds \cup {"then", "else", "label"}

\* scope: the flow of the enclosing scope while the frame has one of its own.
\* saved: the flow its branches start from, or that of the branch before.
\* before: what executions did up to here since the start of the frame around it.
\* whole: the same since the start of the body.
Frame == [kind : FrameKinds, scope : CtorFlow, saved : CtorFlow,
          before : SUBSET Path, whole : SUBSET Path, siblings : SUBSET Path]

Top == Last(frames)

\* From the start of the body to here, leaving out branches not yet merged.
Whole == IF frames = <<>> THEN paths ELSE Extend(Top.whole, paths)

NewFrame(k) == [kind |-> k, scope |-> flow, saved |-> flow,
                before |-> paths, whole |-> Whole, siblings |-> {}]

TopIs(k) == frames # <<>> /\ Top.kind = k
Within(kinds) == \E i \in 1..Len(frames) : frames[i].kind \in kinds

inLoop == Within(LoopKinds)

\* Code that cannot be reached is legal, but not looked at here.
Reachable == Running(paths) # {}

CanAdd == /\ stage = "analysing"
          /\ errors = {}
          /\ Reachable
          /\ statements < MaxStatements

Report(E) == errors' = errors \cup E

\* A piece of the body with the effect q on the executions that reach it.
Piece(q) ==
    /\ CanAdd
    /\ statements' = statements + 1
    /\ paths' = Extend(paths, {q})
    /\ UNCHANGED <<cd, frames, stage, implicit>>

Typed == /\ cd \in BOOLEAN
         /\ flow \in CtorFlow
         /\ ctorinit \subseteq Fields
         /\ frames \in Seq(Frame)
         /\ stage # "analysing" => frames = <<>>
         /\ paths \subseteq Path
         /\ statements \in 0..MaxStatements
         /\ stage \in {"analysing", "accepted", "rejected"}
         /\ deprecated \in BOOLEAN /\ implicit \in BOOLEAN

\* What all paths have called, some path has; a field that counts as initialised
\* by this() alone counts as initialised.
WellFormed(f) ==
    /\ f.callSuper \cap Ctors # {} => "any_ctor" \in f.callSuper
    /\ \A v \in Fields : "deprecate_18719" \in f.fieldinit[v]
                            => "this_ctor" \in f.fieldinit[v]

\* The flags are of their types and none is ever set without the one it implies,
\* neither in the scope under analysis nor in what is kept of those around it,
\* through all calls, merges and pops: ctorflow.d:22, expressionsem.d:4447.
TypeOK == /\ Typed
          /\ WellFormed(flow)
          /\ \A i \in 1..Len(frames) : /\ WellFormed(frames[i].scope)
                                       /\ WellFormed(frames[i].saved)

Init == /\ cd \in BOOLEAN
        /\ flow = [callSuper |-> {}, fieldinit |-> [v \in Fields |-> {}]]
        /\ ctorinit = {} /\ frames = <<>>
        /\ paths = {Nothing} /\ statements = 0
        /\ errors = {} /\ deprecated = FALSE
        /\ stage = "analysing" /\ implicit = FALSE

-----------------------------------------------------------------------------
(* Pieces that are expressions. *)

\* The flags after a call of this() have all fields initialised.
Delegated(f) ==
    [f EXCEPT !.fieldinit = [v \in Fields |->
        f.fieldinit[v] \cup {"this_ctor", "deprecate_18719"}]]

CtorCallErrors(c) ==
    {e \in {"constructor calls not allowed in loops or after labels"} :
        inLoop \/ "label" \in c}
    \cup {e \in {"multiple constructor calls"} : c \cap Ctors # {}}
    \cup {e \in {"an earlier return skips constructor"} :
            "return_" \in c /\ "any_ctor" \notin c}

\* super(...) or this(...): after assert(0) it neither counts nor is it checked.
CtorCall(isSuper) ==
    LET f == IF isSuper THEN flow ELSE Delegated(flow)
        bit == IF isSuper THEN "super_ctor" ELSE "this_ctor"
    IN  /\ isSuper => cd
        /\ Piece([Nothing EXCEPT !.ctors = 1, !.delegated = ~isSuper])
        /\ IF "halt" \in flow.callSuper
           THEN flow' = f /\ UNCHANGED errors
           ELSE /\ flow' = [f EXCEPT !.callSuper = @ \cup {"any_ctor", bit}]
                /\ Report(CtorCallErrors(flow.callSuper))
        /\ UNCHANGED <<ctorinit, deprecated>>

\* modifyFieldVar for a field of this: what is wrong with initialising v now.
FieldErrors(v) ==
    LET csx == flow.fieldinit[v]
        fixed == v \in Immutable
    IN  {e \in {"field initialized multiple times"} :
            "this_ctor" \in csx /\ fixed /\ "deprecate_18719" \notin csx}
        \cup {e \in {"field initialization in a loop or after a label"} :
            /\ "this_ctor" \notin csx
            /\ inLoop \/ "label" \in csx
            /\ fixed \/ v \in MustInit}

modifyFieldVar(v) ==
    /\ Piece([Nothing EXCEPT !.inits[v] = 1])
    /\ Report(FieldErrors(v))
    /\ deprecated' = (deprecated \/ /\ v \in Immutable
                                    /\ {"this_ctor", "deprecate_18719"}
                                         \subseteq flow.fieldinit[v])
    /\ ctorinit' = ctorinit \cup {v}
    /\ flow' = [flow EXCEPT !.fieldinit[v] = @ \cup {"this_ctor"}]

Assign(v) == modifyFieldVar(v)

\* DotVarExp.toLvalue: a field whose address is taken counts as initialised,
\* if it was not before and no constructor has been called.
TakeAddress(v) == /\ "any_ctor" \notin flow.callSuper
                  /\ "this_ctor" \notin flow.fieldinit[v]
                  /\ modifyFieldVar(v)

MayExit == ExitsInLoops \/ ~Within({"for", "switch"})

\* assert(0)
Halt == /\ MayExit
        /\ Piece([Nothing EXCEPT !.ended = "halt"])
        /\ flow' = orCSX(flow, "halt")
        /\ UNCHANGED <<ctorinit, errors, deprecated>>

ReturnCtorErrors(c) ==
    {e \in {"return without calling constructor"} :
        "any_ctor" \in c /\ c \cap Ctors = {}}

Return ==
    /\ MayExit /\ ~Within(ExpressionKinds)
    /\ Piece([Nothing EXCEPT !.ended = "return"])
    /\ Report(ReturnCtorErrors(flow.callSuper) \cup
              {e \in {"an earlier return skips field"} :
                 \E v \in MustInit : "this_ctor" \notin flow.fieldinit[v]})
    /\ flow' = orCSX(flow, "return_")
    /\ UNCHANGED <<ctorinit, deprecated>>

-----------------------------------------------------------------------------
(* Statements and operators with parts. *)

\* A frame is opened with the flow f for its first part.
Open(k, f) ==
    /\ CanAdd
    /\ Len(frames) < MaxDepth
    /\ (k \notin ExpressionKinds => ~Within(ExpressionKinds))
    /\ statements' = statements + 1
    /\ frames' = Append(frames, NewFrame(k))
    /\ paths' = {Nothing}
    /\ flow' = f
    /\ UNCHANGED <<cd, ctorinit, errors, deprecated, stage, implicit>>

\* From one part of the innermost frame to the next, which starts with the flow f.
NextBranch(k, f, saved) ==
    /\ frames' = Append(Front(frames), [Top EXCEPT !.kind = k, !.scope = f, !.saved = saved,
                                                   !.siblings = @ \cup paths])
    /\ paths' = {Nothing}
    /\ flow' = f
    /\ UNCHANGED <<cd, ctorinit, statements, errors, deprecated, stage, implicit>>

\* The innermost frame ends with the flow f; all its parts together do P.
Close(f, P) ==
    /\ frames' = Front(frames)
    /\ paths' = Extend(Top.before, P)
    /\ flow' = f
    /\ UNCHANGED <<cd, ctorinit, statements, deprecated, stage, implicit>>

Analysing == stage = "analysing" /\ errors = {}

\* The last of the branches ends with the flow f; g is that of the other one.
CloseMerging(f, g, P) == /\ Close(MergeFlow(f, g), P)
                         /\ Report(MergeErrors(f, g))

\* MUTANT: the second branch goes on from the flow of the first.
ElseAfterThen == /\ Analysing /\ TopIs("then")
                 /\ NextBranch("else", OR(Top.scope, flow), OR(Top.scope, flow))

\* if (...) { } else { }: the first branch has a scope that is popped before the
\* second starts from the flow at the fork; a missing else is an empty one.
If       == Open("then", flow)
Else     == /\ Analysing /\ TopIs("then")
            /\ NextBranch("else", Top.saved, OR(Top.scope, flow))
EndIf    == /\ Analysing /\ TopIs("else")
            /\ CloseMerging(OR(Top.scope, flow), Top.saved, Top.siblings \cup paths)

\* ... ? ... : ...
Question == Open("first", flow)
Colon    == /\ Analysing /\ TopIs("first")
            /\ NextBranch("second", Top.saved, flow)
EndCond  == /\ Analysing /\ TopIs("second")
            /\ CloseMerging(flow, Top.saved, Top.siblings \cup paths)

\* ... && ... and ... || ...: the second operand may not be evaluated.
AndAnd    == Open("and", flow)
EndAndAnd == /\ Analysing /\ TopIs("and")
             /\ CloseMerging(flow, Top.saved, {Nothing} \cup paths)

\* Scope.pop at the end of a statement with a scope of its own.
Pop(P) == Close(OR(Top.scope, flow), P) /\ UNCHANGED errors

\* for and while, of which a body may never run; do, of which it does.
For    == Open("for", flow)
EndFor == Analysing /\ TopIs("for") /\ Pop({Nothing} \cup Repeat(paths))

Do    == Open("do", flow)
EndDo == Analysing /\ TopIs("do") /\ Pop(Repeat(paths))

\* A switch whose cases end with break, the last being the default.
SwitchCase == Open("switch", orCSX(flow, "label"))
NextCase   == /\ Analysing /\ TopIs("switch")
              /\ frames' = [frames EXCEPT ![Len(frames)].siblings = @ \cup paths]
              /\ paths' = {Nothing}
              /\ flow' = orCSX(flow, "label")
              /\ UNCHANGED <<cd, ctorinit, statements, errors, deprecated, stage, implicit>>
EndSwitch  == Analysing /\ TopIs("switch") /\ Pop(Top.siblings \cup paths)

\* MUTANT: the label is not noted in the flags.
LabelUnnoted == Open("label", flow)

\* L: { } followed by if (...) goto L;
Label    == Open("label", orCSX(flow, "label"))
EndLabel == Analysing /\ TopIs("label") /\ Pop(Repeat(paths))

-----------------------------------------------------------------------------
(* The end of the body, in FuncDeclaration.semantic3. *)

\* MUTANT: only fields that are nowhere initialised are looked for.
FieldsNowhere ==
    IF "this_ctor" \in flow.callSuper THEN {}
    ELSE {e \in {"field must be initialized in constructor"} :
             \E v \in MustInit : v \notin ctorinit}

FieldsLeftOut ==
    IF "this_ctor" \in flow.callSuper THEN {}
    ELSE {e \in {"missing initializer"} :
             cd /\ \E v \in Immutable : v \notin ctorinit}
         \cup {e \in {"field must be initialized in constructor"} :
             \E v \in MustInit : v \notin ctorinit}
         \cup {e \in {"field must be initialized but skipped"} :
             \E v \in MustInit : v \in ctorinit /\ "this_ctor" \notin flow.fieldinit[v]}

InsertSuper == cd /\ "any_ctor" \notin flow.callSuper

\* The constructor falls off its end (blockExit) and gets a return statement.
FallsThrough == Reachable

EndBody ==
    /\ Analysing /\ frames = <<>>
    /\ implicit' = InsertSuper
    /\ LET c == IF InsertSuper THEN {"any_ctor", "super_ctor"} ELSE flow.callSuper
       IN  /\ flow' = [flow EXCEPT !.callSuper = c]
           /\ errors' = FieldsLeftOut \cup
                        (IF FallsThrough THEN ReturnCtorErrors(c) ELSE {})
    /\ stage' = IF errors' = {} THEN "accepted" ELSE "rejected"
    /\ UNCHANGED <<cd, ctorinit, frames, paths, statements, deprecated>>

Next == \/ \E isSuper \in BOOLEAN : CtorCall(isSuper)
        \/ \E v \in Fields : Assign(v) \/ TakeAddress(v)
        \/ Halt \/ Return
        \/ If \/ Else \/ EndIf
        \/ Question \/ Colon \/ EndCond
        \/ AndAnd \/ EndAndAnd
        \/ For \/ EndFor \/ Do \/ EndDo
        \/ SwitchCase \/ NextCase \/ EndSwitch
        \/ Label \/ EndLabel
        \/ EndBody

Spec == Init /\ [][Next]_vars

-----------------------------------------------------------------------------
(* Properties.  A body is accepted without an error. *)

Accepted == stage = "accepted"

CtorsRun(p) == p.ctors + (IF implicit THEN 1 ELSE 0)

\* Where one branch halts and the other returns, the merged flags say halted.
ExitsDiffer(P) == {"return", "halt"} \subseteq {p.ended : p \in P}

\* In an accepted constructor every path that ends normally constructs exactly
\* once (a struct at most once), counting an inserted super().  Bodies that hold
\* both return and assert(0) are left to NoSecondCall: expressionsem.d:4458,
\* ctorflow.d:111, statementsem.d:3288, semantic3.d:676.
OneConstructorCall ==
    (Accepted /\ ~ExitsDiffer(paths)) =>
        \A p \in paths : p.ended # "halt" =>
            CtorsRun(p) \in (IF cd THEN {1} ELSE 0..1)

\* "multiple constructor calls": no path of any accepted constructor that ends
\* normally constructs twice: expressionsem.d:4463.
NoSecondCall ==
    Accepted => \A p \in paths : p.ended # "halt" => CtorsRun(p) <= 1

\* In an accepted constructor every path that ends normally has initialised the
\* fields without a default or has called this(): ctorflow.d:178, semantic3.d:643.
NoFieldSkipped ==
    Accepted => \A p \in paths, v \in MustInit :
                    p.ended # "halt" => p.delegated \/ p.inits[v] > 0

\* A path that initialises an immutable field twice is reported, be it as
\* deprecated: declaration.d:119.
DoubleInitReported ==
    \A p \in Whole, v \in Immutable :
        p.inits[v] > 1 => errors # {} \/ deprecated

\* The flags of the calls err on one side only: the flag of a call says that all
\* that go on from here have called, and the absence of any_ctor that none has
\* that did not halt: ctorflow.d:22.
FlagsTellPaths ==
    (errors = {} /\ stage = "analysing") =>
        /\ (flow.callSuper \cap Ctors # {}) =>
              \A p \in Running(Whole) : p.ctors > 0
        /\ ("any_ctor" \notin flow.callSuper /\ ~ExitsDiffer(Whole)) =>
              \A p \in Whole : p.ended # "halt" => p.ctors = 0

CtorComplaints == {"multiple constructor calls", "one path skips constructor",
                   "an earlier return skips constructor",
                   "return without calling constructor"}

\* No false alarm: a complaint about calls means that a path calls twice or that
\* two paths disagree, where one that halts before it calls any skips nothing:
\* ctorflow.d:111.
ComplaintsJustified ==
    errors \cap CtorComplaints # {} =>
        LET P == {p \in Whole : p.ended = "halt" => p.ctors > 0}
        IN  \/ \E p \in P : p.ctors > 1
            \/ \E p, q \in P : p.ctors # q.ctors

\* Which of two branches comes first in the source does not matter for the verdict
\* on the calls, nor for what a later check reads of the flags, if either branch
\* goes on: ctorflow.d:111.
BranchesCommute ==
    /\ TopIs("else") \/ TopIs("second")
    /\ errors = {}
    /\ Running(paths \cup Top.siblings) # {}
    =>
        LET a == flow.callSuper
            b == Top.saved.callSuper
            ab == mergeCallSuper(a, b)
            ba == mergeCallSuper(b, a)
        IN  /\ ab.ok = ba.ok
            /\ ab.ok => /\ ab.csx \cap {"any_ctor", "halt", "label"}
                             = ba.csx \cap {"any_ctor", "halt", "label"}
                        /\ (ab.csx \cap Ctors = {}) = (ba.csx \cap Ctors = {})
=============================================================================
