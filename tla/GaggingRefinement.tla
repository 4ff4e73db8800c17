------------------------- MODULE GaggingRefinement -------------------------
(***************************************************************************)
(* The counters of struct Global implement the nested scopes of            *)
(* ScopedDiagnostics, for every limit, modulus, bound and setting.         *)
(***************************************************************************)
EXTENDS GaggingProofs

AbstractScope == DiagnosticScopes!Scope

Kind(k) == IF k = 1 THEN "main" ELSE frames[k-1].kind

Hidden(k) == IF k = 1 THEN GaggedAt(1) ELSE GaggedAt(k) - GaggedAt(k-1)

Visible(k) == IF k = 1 THEN UngaggedAt(1) ELSE UngaggedAt(k) - UngaggedAt(k-1)

\* The mapped scopes, spelled out: one for the compilation and one for each frame.
ScopesSpelled ==
    /\ Scopes \in Seq(AbstractScope)
    /\ Len(Scopes) = Depth + 1
    /\ \A k \in 1..Depth+1 : /\ Scopes[k] \in AbstractScope
                             /\ Scopes[k].kind = Kind(k)
                             /\ Scopes[k].hidden = Hidden(k)
                             /\ Scopes[k].visible = Visible(k)

LEMMA ScopesShape == CountInv => ScopesSpelled
<1> SUFFICES ASSUME CountInv PROVE ScopesSpelled
  OBVIOUS
<1>1. /\ Depth \in Nat
      /\ \A k \in 1..Depth : frames[k].kind \in FrameKind
  BY FrameTypes DEF CountInv, Frame
<1>2. \A k \in 1..Depth+1 : GaggedAt(k) \in Int /\ UngaggedAt(k) \in Int
  BY FrameTypes DEF CountInv, GaggedAt, UngaggedAt
<1>3. \A k \in 1..Depth+1 : Hidden(k) \in Nat /\ Visible(k) \in Nat
  <2> SUFFICES ASSUME NEW k \in 1..Depth+1
               PROVE  Hidden(k) \in Nat /\ Visible(k) \in Nat
    OBVIOUS
  <2>1. CASE k = 1
    BY <1>1, <1>2, <2>1 DEF Hidden, Visible, CountInv, SavedCountsNest
  <2>2. CASE k # 1
    <3>1. k-1 \in 1..Depth /\ (k-1) + 1 = k
      BY <1>1, <2>2
    <3>2. GaggedAt(k-1) <= GaggedAt(k) /\ UngaggedAt(k-1) <= UngaggedAt(k)
      BY <3>1 DEF CountInv, SavedCountsNest
    <3>3. k-1 \in 1..Depth+1
      BY <1>1, <3>1
    <3> QED BY <1>2, <2>2, <3>2, <3>3 DEF Hidden, Visible
  <2> QED BY <2>1, <2>2
<1>4. \A k \in 1..Depth+1 : Kind(k) \in DiagnosticScopes!Kind
  BY <1>1 DEF Kind, DiagnosticScopes!Kind, FrameKind, GagKind
<1>5. Scopes = [k \in 1..Depth+1 |->
                  [kind |-> Kind(k), hidden |-> Hidden(k), visible |-> Visible(k)]]
  BY DEF Scopes, Kind, Hidden, Visible
<1>6. \A k \in 1..Depth+1 :
        [kind |-> Kind(k), hidden |-> Hidden(k), visible |-> Visible(k)] \in AbstractScope
  BY <1>3, <1>4 DEF AbstractScope, DiagnosticScopes!Scope
<1>7. Scopes \in [1..Depth+1 -> AbstractScope]
  BY <1>5, <1>6
<1>8. Depth + 1 \in Nat
  BY <1>1
<1>9. Scopes \in Seq(AbstractScope)
  BY <1>7, <1>8, SeqDef
<1>10. Len(Scopes) = Depth + 1
  <2>1. Len(Scopes) \in Nat /\ DOMAIN Scopes = 1..Len(Scopes)
    BY <1>9, LenProperties
  <2>2. DOMAIN Scopes = 1..Depth+1
    BY <1>7
  <2> QED BY <1>8, <2>1, <2>2
<1> QED BY <1>5, <1>6, <1>9, <1>10 DEF ScopesSpelled

\* The same after a step.
LEMMA ScopesShapeNext == CountInv' => ScopesSpelled'
  BY ScopesShape, PTL

\* Scopes are equal if their parts are.
LEMMA SameScope ==
    ASSUME NEW a \in AbstractScope, NEW b \in AbstractScope,
           a.kind = b.kind, a.hidden = b.hidden, a.visible = b.visible
    PROVE  a = b
  BY DEF AbstractScope, DiagnosticScopes!Scope

\* A scope with h more hidden and v more visible errors.
More(s, h, v) == [s EXCEPT !.hidden = @ + h, !.visible = @ + v]

\* Adding errors to a scope changes nothing else of it.
LEMMA MoreErrors ==
    ASSUME NEW s \in AbstractScope, NEW h \in Nat, NEW v \in Nat
    PROVE  /\ More(s, h, v) \in AbstractScope /\ More(s, h, v).kind = s.kind
           /\ More(s, h, v).hidden = s.hidden + h
           /\ More(s, h, v).visible = s.visible + v
<1> DEFINE t == [s EXCEPT !.hidden = @ + h]
<1>1. /\ s.hidden + h \in Nat /\ s.visible + v \in Nat
  BY DEF AbstractScope, DiagnosticScopes!Scope
<1>2. t \in AbstractScope /\ t.kind = s.kind /\ t.hidden = s.hidden + h /\ t.visible = s.visible
  BY <1>1 DEF AbstractScope, DiagnosticScopes!Scope
<1>3. More(s, h, v) = [t EXCEPT !.visible = s.visible + v]
  BY DEF More
<1> HIDE DEF t
<1> QED BY <1>1, <1>2, <1>3 DEF AbstractScope, DiagnosticScopes!Scope

\* The last scope is the innermost frame with what was counted since.
LEMMA LastScope ==
    ASSUME CountInv, Depth > 0
    PROVE  /\ DiagnosticScopes!Top.kind = Top.kind
           /\ DiagnosticScopes!Top.hidden = gaggedErrors - Top.gaggedErrors
           /\ DiagnosticScopes!Top.visible =
                (errors - gaggedErrors) - (Top.errors - Top.gaggedErrors)
<1>1. Depth \in Nat /\ Depth + 1 \in 1..Depth+1 /\ ~(Depth + 1 <= Depth) /\ (Depth + 1) - 1 = Depth
  BY FrameTypes DEF CountInv
<1>2. DiagnosticScopes!Top = Scopes[Depth + 1]
  BY ScopesShape DEF ScopesSpelled, DiagnosticScopes!Top
<1>3. /\ GaggedAt(Depth + 1) = gaggedErrors /\ GaggedAt(Depth) = Top.gaggedErrors
      /\ UngaggedAt(Depth + 1) = errors - gaggedErrors
      /\ UngaggedAt(Depth) = Top.errors - Top.gaggedErrors
  BY <1>1 DEF GaggedAt, UngaggedAt, Top
<1>4. Kind(Depth + 1) = Top.kind
  BY <1>1 DEF Kind, Top
<1> QED BY <1>1, <1>2, <1>3, <1>4, ScopesShape DEF ScopesSpelled, Hidden, Visible

\* A step that opens a frame opens a scope without errors.
LEMMA PushOpens ==
    ASSUME CountInv, CountInv', NEW k \in FrameKind, Pushed(k),
           errors' = errors, gaggedErrors' = gaggedErrors
    PROVE  Scopes' = Append(Scopes, DiagnosticScopes!New(k))
<1>1. /\ Depth \in Nat /\ Depth' = Depth + 1
      /\ \A i \in 1..Depth : frames'[i] = frames[i]
      /\ frames'[Depth + 1] = Entered(k)
      /\ errors \in Nat /\ gaggedErrors \in Nat
  BY FrameTypes DEF CountInv, Pushed
<1>2. \A i \in 1..Depth+1 : GaggedAt(i)' = GaggedAt(i) /\ UngaggedAt(i)' = UngaggedAt(i)
  <2>1. \A i \in 1..Depth : GaggedAt(i)' = GaggedAt(i) /\ UngaggedAt(i)' = UngaggedAt(i)
    BY <1>1 DEF GaggedAt, UngaggedAt
  <2>2. \A i : i = Depth + 1 => GaggedAt(i)' = GaggedAt(i) /\ UngaggedAt(i)' = UngaggedAt(i)
    BY <1>1 DEF GaggedAt, UngaggedAt, Entered
  <2> QED BY <1>1, <2>1, <2>2
<1>3. \A i : i = Depth + 2 => /\ GaggedAt(i)' = gaggedErrors
                             /\ UngaggedAt(i)' = errors - gaggedErrors
  BY <1>1 DEF GaggedAt, UngaggedAt
<1>4. \A i : i = Depth + 1 => /\ GaggedAt(i) = gaggedErrors
                             /\ UngaggedAt(i) = errors - gaggedErrors
  BY <1>1 DEF GaggedAt, UngaggedAt
<1>5. \A i \in 1..Depth+1 : /\ Kind(i)' = Kind(i)
                            /\ Hidden(i)' = Hidden(i) /\ Visible(i)' = Visible(i)
  <2> SUFFICES ASSUME NEW i \in 1..Depth+1
               PROVE  /\ Kind(i)' = Kind(i)
                      /\ Hidden(i)' = Hidden(i) /\ Visible(i)' = Visible(i)
    OBVIOUS
  <2>1. CASE i = 1
    BY <1>1, <1>2, <2>1 DEF Kind, Hidden, Visible
  <2>2. CASE i # 1
    <3>1. i - 1 \in 1..Depth /\ i - 1 \in 1..Depth+1
      BY <1>1, <2>2
    <3> QED BY <1>1, <1>2, <2>2, <3>1 DEF Kind, Hidden, Visible
  <2> QED BY <2>1, <2>2
<1>6. \A i : i = Depth + 2 => Kind(i)' = k /\ Hidden(i)' = 0 /\ Visible(i)' = 0
  <2> SUFFICES ASSUME NEW i, i = Depth + 2
               PROVE  Kind(i)' = k /\ Hidden(i)' = 0 /\ Visible(i)' = 0
    OBVIOUS
  <2>1. i # 1 /\ i - 1 = Depth + 1 /\ Depth + 1 \in 1..Depth+1
    BY <1>1
  <2>2. /\ GaggedAt(i - 1)' = gaggedErrors /\ GaggedAt(i)' = gaggedErrors
        /\ UngaggedAt(i - 1)' = errors - gaggedErrors /\ UngaggedAt(i)' = errors - gaggedErrors
    BY <1>2, <1>3, <1>4, <2>1
  <2>3. Kind(i)' = k
    BY <1>1, <2>1 DEF Kind, Entered
  <2> QED BY <1>1, <2>1, <2>2, <2>3 DEF Hidden, Visible
<1> DEFINE new == DiagnosticScopes!New(k)
<1>7. new \in AbstractScope /\ new.kind = k /\ new.hidden = 0 /\ new.visible = 0
  BY DEF DiagnosticScopes!New, AbstractScope, DiagnosticScopes!Scope,
         DiagnosticScopes!Kind, FrameKind, GagKind
<1> HIDE DEF new
<1>8. ScopesSpelled /\ ScopesSpelled'
  BY ScopesShape, ScopesShapeNext
<1>9. AbstractScope' = AbstractScope
  BY DEF AbstractScope, DiagnosticScopes!Scope, DiagnosticScopes!Kind
<1>10. /\ Append(Scopes, new) \in Seq(AbstractScope)
       /\ Len(Append(Scopes, new)) = Depth + 2
       /\ \A i \in 1..Depth+1 : Append(Scopes, new)[i] = Scopes[i]
       /\ Append(Scopes, new)[Depth + 2] = new
  BY <1>1, <1>7, <1>8, AppendProperties DEF ScopesSpelled
<1>11. ASSUME NEW i \in 1..Depth+2 PROVE Scopes'[i] = Append(Scopes, new)[i]
  <2>1. /\ Scopes'[i] \in AbstractScope /\ Scopes'[i].kind = Kind(i)'
        /\ Scopes'[i].hidden = Hidden(i)' /\ Scopes'[i].visible = Visible(i)'
    BY <1>1, <1>8, <1>9 DEF ScopesSpelled
  <2>2. CASE i \in 1..Depth+1
    <3>1. /\ Scopes[i] \in AbstractScope /\ Scopes[i].kind = Kind(i)
          /\ Scopes[i].hidden = Hidden(i) /\ Scopes[i].visible = Visible(i)
      BY <1>8, <2>2 DEF ScopesSpelled
    <3>2. Scopes'[i] = Scopes[i]
      BY <1>5, <2>1, <2>2, <3>1, SameScope
    <3> QED BY <1>10, <2>2, <3>2
  <2>3. CASE i = Depth + 2
    <3>1. Scopes'[i] = new
      BY <1>6, <1>7, <2>1, <2>3, SameScope
    <3> QED BY <1>10, <2>3, <3>1
  <2>4. i \in 1..Depth+1 \/ i = Depth + 2
    <3>1. Depth \in Nat
      BY <1>1
    <3> QED BY <3>1
  <2> QED BY <2>2, <2>3, <2>4
<1>12. Scopes' = Append(Scopes, new)
  <2>1. Len(Scopes') = Len(Append(Scopes, new)) /\ Len(Scopes') = Depth + 2
    BY <1>1, <1>8, <1>10 DEF ScopesSpelled
  <2>2. Scopes' \in Seq(AbstractScope)
    BY <1>8, <1>9 DEF ScopesSpelled
  <2> QED BY <1>10, <1>11, <2>1, <2>2, SeqEqual
<1> QED BY <1>12 DEF new

\* A step that keeps the frames and counts h hidden and v visible errors counts
\* them in the last scope.
LEMMA KeepReports ==
    ASSUME CountInv, CountInv', Kept,
           NEW h \in Nat, gaggedErrors' = gaggedErrors + h,
           NEW v \in Nat, errors' = errors + h + v
    PROVE  /\ Scopes[Len(Scopes)] \in AbstractScope
           /\ Scopes' = [Scopes EXCEPT ![Len(Scopes)] = More(@, h, v)]
<1>0. /\ Depth \in Nat /\ errors \in Nat /\ gaggedErrors \in Nat
  BY FrameTypes DEF CountInv
<1>1. Depth' = Depth /\ \A i \in 1..Depth : /\ frames'[i].kind = frames[i].kind
                                            /\ frames'[i].errors = frames[i].errors
                                            /\ frames'[i].gaggedErrors = frames[i].gaggedErrors
  BY DEF Kept
<1>2. \A i \in 1..Depth : /\ GaggedAt(i)' = GaggedAt(i) /\ GaggedAt(i) \in Int
                         /\ UngaggedAt(i)' = UngaggedAt(i) /\ UngaggedAt(i) \in Int
  BY <1>0, <1>1, FrameTypes DEF CountInv, GaggedAt, UngaggedAt
<1>3. \A i : i = Depth + 1 => /\ GaggedAt(i)' = GaggedAt(i) + h /\ GaggedAt(i) \in Int
                             /\ UngaggedAt(i)' = UngaggedAt(i) + v /\ UngaggedAt(i) \in Int
  BY <1>0, <1>1 DEF GaggedAt, UngaggedAt
<1>4. ASSUME NEW i \in 1..Depth
      PROVE  Kind(i)' = Kind(i) /\ Hidden(i)' = Hidden(i) /\ Visible(i)' = Visible(i)
  <2>1. i # 1 => i - 1 \in 1..Depth
    BY <1>0
  <2> QED BY <1>1, <1>2, <2>1 DEF Kind, Hidden, Visible
<1>5. ASSUME NEW i, i = Depth + 1
      PROVE  Kind(i)' = Kind(i) /\ Hidden(i)' = Hidden(i) + h /\ Visible(i)' = Visible(i) + v
  <2>1. i # 1 => i - 1 \in 1..Depth
    BY <1>0, <1>5
  <2> QED BY <1>1, <1>2, <1>3, <1>5, <2>1 DEF Kind, Hidden, Visible
<1>6. ScopesSpelled /\ ScopesSpelled' /\ AbstractScope' = AbstractScope
  BY ScopesShape, ScopesShapeNext DEF AbstractScope, DiagnosticScopes!Scope, DiagnosticScopes!Kind
<1> DEFINE last == Scopes[Depth + 1]
           more == More(last, h, v)
           new  == [Scopes EXCEPT ![Depth + 1] = more]
<1>7. last \in AbstractScope /\ Depth + 1 \in 1..Depth+1
  BY <1>0, <1>6 DEF ScopesSpelled
<1>8. /\ more \in AbstractScope /\ more.kind = last.kind
      /\ more.hidden = last.hidden + h /\ more.visible = last.visible + v
  BY <1>7, MoreErrors
<1> HIDE DEF more, last
<1>9. new = [Scopes EXCEPT ![Len(Scopes)] = More(@, h, v)] /\ last = Scopes[Len(Scopes)]
  BY <1>0, <1>6 DEF ScopesSpelled, more, last
<1>10. /\ new \in Seq(AbstractScope) /\ Len(new) = Depth + 1
       /\ \A i \in 1..Depth+1 : new[i] = IF i = Depth + 1 THEN more ELSE Scopes[i]
  BY <1>6, <1>7, <1>8, ExceptSeq DEF ScopesSpelled
<1> HIDE DEF new
<1>11. ASSUME NEW i \in 1..Depth+1 PROVE Scopes'[i] = new[i]
  <2>1. /\ Scopes'[i] \in AbstractScope /\ Scopes'[i].kind = Kind(i)'
        /\ Scopes'[i].hidden = Hidden(i)' /\ Scopes'[i].visible = Visible(i)'
    BY <1>0, <1>1, <1>6 DEF ScopesSpelled
  <2>2. /\ Scopes[i] \in AbstractScope /\ Scopes[i].kind = Kind(i)
        /\ Scopes[i].hidden = Hidden(i) /\ Scopes[i].visible = Visible(i)
    BY <1>6 DEF ScopesSpelled
  <2>3. CASE i = Depth + 1
    <3>1. Scopes'[i] = more
      BY <1>5, <1>8, <2>1, <2>2, <2>3, SameScope DEF last
    <3> QED BY <1>10, <2>3, <3>1
  <2>4. CASE i # Depth + 1
    <3>1. i \in 1..Depth
      BY <1>0, <2>4
    <3>2. Scopes'[i] = Scopes[i]
      BY <1>4, <2>1, <2>2, <3>1, SameScope
    <3> QED BY <1>10, <2>4, <3>2
  <2> QED BY <2>3, <2>4
<1>12. Scopes' = new
  <2>1. Scopes' \in Seq(AbstractScope) /\ Len(Scopes') = Depth + 1
    BY <1>1, <1>6 DEF ScopesSpelled
  <2> QED BY <1>10, <1>11, <2>1, SeqEqual
<1> QED BY <1>7, <1>9, <1>12

\* Closing a frame, with its hidden errors taken back or not, hands what is left
\* to the scope around it.
LEMMA PopCloses ==
    ASSUME CountInv, CountInv', Popped,
           NEW x \in {gaggedErrors, Top.gaggedErrors},
           gaggedErrors' = x, errors' = errors - (gaggedErrors - x),
           NEW h, h = x - Top.gaggedErrors
    PROVE  Scopes' = [SubSeq(Scopes, 1, Len(Scopes) - 1) EXCEPT
                        ![Len(Scopes) - 1].hidden  = @ + h,
                        ![Len(Scopes) - 1].visible = @ + DiagnosticScopes!Top.visible]
<1>0. /\ Depth \in Nat /\ Depth > 0 /\ errors \in Nat /\ gaggedErrors \in Nat
      /\ Top.gaggedErrors \in Nat /\ Top.errors \in Nat /\ Top = frames[Depth]
  BY FrameTypes DEF CountInv, Popped
<1>1. Depth' = Depth - 1 /\ \A i \in 1..Depth-1 : frames'[i] = frames[i]
  BY DEF Popped
<1> DEFINE v == DiagnosticScopes!Top.visible
<1>2. /\ h \in Int /\ v = (errors - gaggedErrors) - (Top.errors - Top.gaggedErrors)
      /\ v \in Nat
  <2>1. v = (errors - gaggedErrors) - (Top.errors - Top.gaggedErrors)
    BY <1>0, LastScope
  <2>2. UngaggedAt(Depth) <= UngaggedAt(Depth + 1)
    BY <1>0 DEF CountInv, SavedCountsNest
  <2> QED BY <1>0, <2>1, <2>2 DEF UngaggedAt
<1>3. h \in Nat
  <2>1. GaggedAt(Depth) <= GaggedAt(Depth + 1)
    BY <1>0 DEF CountInv, SavedCountsNest
  <2> QED BY <1>0, <2>1 DEF GaggedAt
<1> HIDE DEF v
<1>4. \A i \in 1..Depth-1 : /\ GaggedAt(i)' = GaggedAt(i) /\ GaggedAt(i) \in Int
                           /\ UngaggedAt(i)' = UngaggedAt(i) /\ UngaggedAt(i) \in Int
  BY <1>0, <1>1, FrameTypes DEF CountInv, GaggedAt, UngaggedAt
<1>5. \A i : i = Depth => /\ GaggedAt(i)' = GaggedAt(i) + h /\ GaggedAt(i) \in Int
                         /\ UngaggedAt(i)' = UngaggedAt(i) + v /\ UngaggedAt(i) \in Int
  BY <1>0, <1>1, <1>2 DEF GaggedAt, UngaggedAt
<1>6. ASSUME NEW i \in 1..Depth-1
      PROVE  Kind(i)' = Kind(i) /\ Hidden(i)' = Hidden(i) /\ Visible(i)' = Visible(i)
  <2>1. i # 1 => i - 1 \in 1..Depth-1
    BY <1>0
  <2> QED BY <1>1, <1>4, <2>1 DEF Kind, Hidden, Visible
<1>7. ASSUME NEW i, i = Depth
      PROVE  Kind(i)' = Kind(i) /\ Hidden(i)' = Hidden(i) + h /\ Visible(i)' = Visible(i) + v
  <2>1. i # 1 => i - 1 \in 1..Depth-1
    BY <1>0, <1>7
  <2> QED BY <1>1, <1>2, <1>3, <1>4, <1>5, <1>7, <2>1 DEF Kind, Hidden, Visible
<1>8. ScopesSpelled /\ ScopesSpelled' /\ AbstractScope' = AbstractScope
  BY ScopesShape, ScopesShapeNext DEF AbstractScope, DiagnosticScopes!Scope, DiagnosticScopes!Kind
<1> DEFINE front == SubSeq(Scopes, 1, Depth)
           last  == Scopes[Depth]
           more  == More(last, h, v)
           new   == [front EXCEPT ![Depth] = more]
<1>9. last \in AbstractScope /\ Depth \in 1..Depth+1
  BY <1>0, <1>8 DEF ScopesSpelled
<1>10. /\ more \in AbstractScope /\ more.kind = last.kind
       /\ more.hidden = last.hidden + h /\ more.visible = last.visible + v
  BY <1>2, <1>3, <1>9, MoreErrors
<1>11. /\ front \in Seq(AbstractScope) /\ Len(front) = Depth
       /\ \A i \in 1..Depth : front[i] = Scopes[i]
  <2>1. \A i \in 1..Depth : Scopes[i] \in AbstractScope
    BY <1>0, <1>8 DEF ScopesSpelled
  <2> QED BY <1>0, <1>8, <2>1, SubSeqProperties DEF ScopesSpelled
<1>12. front[Depth] = last
  BY <1>0, <1>11
<1> HIDE DEF more, last, front
<1>13. /\ new \in Seq(AbstractScope) /\ Len(new) = Depth
       /\ \A i \in 1..Depth : new[i] = IF i = Depth THEN more ELSE front[i]
  BY <1>0, <1>10, <1>11, ExceptSeq
<1>14. new = [SubSeq(Scopes, 1, Len(Scopes) - 1) EXCEPT
                 ![Len(Scopes) - 1].hidden  = @ + h, ![Len(Scopes) - 1].visible = @ + v]
  <2>1. Len(Scopes) - 1 = Depth
    BY <1>0, <1>8 DEF ScopesSpelled
  <2> QED BY <2>1, <1>12 DEF more, front, More
<1> HIDE DEF new
<1>15. ASSUME NEW i \in 1..Depth PROVE Scopes'[i] = new[i]
  <2>1. /\ Scopes'[i] \in AbstractScope /\ Scopes'[i].kind = Kind(i)'
        /\ Scopes'[i].hidden = Hidden(i)' /\ Scopes'[i].visible = Visible(i)'
    BY <1>0, <1>1, <1>8 DEF ScopesSpelled
  <2>2. /\ Scopes[i] \in AbstractScope /\ Scopes[i].kind = Kind(i)
        /\ Scopes[i].hidden = Hidden(i) /\ Scopes[i].visible = Visible(i)
    BY <1>0, <1>8 DEF ScopesSpelled
  <2>3. CASE i = Depth
    <3>1. Scopes'[i] = more
      BY <1>7, <1>10, <2>1, <2>2, <2>3, SameScope DEF last
    <3> QED BY <1>13, <2>3, <3>1
  <2>4. CASE i # Depth
    <3>1. i \in 1..Depth-1
      BY <1>0, <2>4
    <3>2. Scopes'[i] = Scopes[i]
      BY <1>6, <2>1, <2>2, <3>1, SameScope
    <3> QED BY <1>11, <1>13, <2>4, <3>2
  <2> QED BY <2>3, <2>4
<1>16. Scopes' = new
  <2>1. Scopes' \in Seq(AbstractScope) /\ Len(Scopes') = Depth
    BY <1>0, <1>1, <1>8 DEF ScopesSpelled
  <2> QED BY <1>13, <1>15, <2>1, SeqEqual
<1> QED BY <1>14, <1>16 DEF v

\* Counting hidden errors only, or visible ones only, is what the abstract
\* reports do.
LEMMA OneMore ==
    ASSUME NEW s \in AbstractScope
    PROVE  /\ More(s, 1, 0) = [s EXCEPT !.hidden = @ + 1]
           /\ More(s, 0, 1) = [s EXCEPT !.visible = @ + 1]
           /\ More(s, 0, 0) = s
<1>1. 0 \in Nat /\ 1 \in Nat /\ s.hidden \in Nat /\ s.visible \in Nat
  BY DEF AbstractScope, DiagnosticScopes!Scope
<1> DEFINE a == [s EXCEPT !.hidden = @ + 1]
           b == [s EXCEPT !.visible = @ + 1]
<1>2. /\ a \in AbstractScope /\ a.kind = s.kind /\ a.hidden = s.hidden + 1 /\ a.visible = s.visible
      /\ b \in AbstractScope /\ b.kind = s.kind /\ b.hidden = s.hidden /\ b.visible = s.visible + 1
  BY <1>1 DEF AbstractScope, DiagnosticScopes!Scope
<1> HIDE DEF a, b
<1>3. \A h, v \in Nat :    /\ More(s, h, v) \in AbstractScope /\ More(s, h, v).kind = s.kind
                            /\ More(s, h, v).hidden = s.hidden + h
                            /\ More(s, h, v).visible = s.visible + v
  BY <1>1, MoreErrors
<1>4. More(s, 1, 0) = a
  BY <1>1, <1>2, <1>3, SameScope
<1>5. More(s, 0, 1) = b
  BY <1>1, <1>2, <1>3, SameScope
<1>6. More(s, 0, 0) = s
  BY <1>1, <1>3, SameScope
<1> QED BY <1>4, <1>5, <1>6 DEF a, b

\* What the abstract specification may do in one step
AbstractStep == [DiagnosticScopes!Next]_(DiagnosticScopes!vars)

\* An error counted hidden is reported hidden in the innermost scope.
LEMMA HiddenReport ==
    ASSUME CountInv, CountInv', Kept, Running, UNCHANGED <<answer, status>>,
           errors' = errors + 1, gaggedErrors' = gaggedErrors + 1
    PROVE  AbstractStep
<1>1. errors \in Nat /\ gaggedErrors \in Nat /\ errors' = errors + 1 + 0 /\ 0 \in Nat /\ 1 \in Nat
  BY FrameTypes DEF CountInv
<1>2. /\ Scopes[Len(Scopes)] \in AbstractScope
      /\ Scopes' = [Scopes EXCEPT ![Len(Scopes)] = More(@, 1, 0)]
  BY <1>1, KeepReports
<1>3. Scopes' = [Scopes EXCEPT ![Len(Scopes)].hidden = @ + 1]
  BY <1>2, OneMore
<1>4. DiagnosticScopes!ReportHidden
  BY <1>3 DEF DiagnosticScopes!ReportHidden, DiagnosticScopes!Running, Running
<1> QED BY <1>4 DEF AbstractStep, DiagnosticScopes!Next

\* An error counted visible is reported visible in the innermost scope.
LEMMA VisibleReport ==
    ASSUME CountInv, CountInv', Kept, Running, UNCHANGED answer,
           status' \in {"running", "failed"},
           errors' = errors + 1, gaggedErrors' = gaggedErrors
    PROVE  AbstractStep
<1>1. /\ errors \in Nat /\ gaggedErrors \in Nat /\ errors' = errors + 0 + 1
      /\ gaggedErrors' = gaggedErrors + 0 /\ 0 \in Nat /\ 1 \in Nat
  BY FrameTypes DEF CountInv
<1>2. /\ Scopes[Len(Scopes)] \in AbstractScope
      /\ Scopes' = [Scopes EXCEPT ![Len(Scopes)] = More(@, 0, 1)]
  BY <1>1, KeepReports
<1>3. Scopes' = [Scopes EXCEPT ![Len(Scopes)].visible = @ + 1]
  BY <1>2, OneMore
<1>4. DiagnosticScopes!ReportVisible
  BY <1>3 DEF DiagnosticScopes!ReportVisible, DiagnosticScopes!Running, Running
<1> QED BY <1>4 DEF AbstractStep, DiagnosticScopes!Next

\* A step that counts no error and keeps the frames is invisible.
LEMMA NoReport ==
    ASSUME CountInv, CountInv', Kept, UNCHANGED <<errors, gaggedErrors, answer, status>>
    PROVE  UNCHANGED <<Scopes, answer, status>>
<1>1. /\ errors \in Nat /\ gaggedErrors \in Nat /\ errors' = errors + 0 + 0
      /\ gaggedErrors' = gaggedErrors + 0 /\ 0 \in Nat
  BY FrameTypes DEF CountInv
<1>2. /\ Scopes[Len(Scopes)] \in AbstractScope
      /\ Scopes' = [Scopes EXCEPT ![Len(Scopes)] = More(@, 0, 0)]
  BY <1>1, KeepReports
<1>3. Scopes' = [Scopes EXCEPT ![Len(Scopes)] = @]
  BY <1>2, OneMore
<1>4. Scopes \in Seq(AbstractScope)
  BY ScopesShape DEF ScopesSpelled
<1>5. Scopes' = Scopes
  BY <1>3, <1>4
<1> QED BY <1>5

\* Any report is one of the two.
LEMMA ErrorReport ==
    ASSUME CountInv, CountInv', Kept, Running, UNCHANGED answer, NEW g, verror(g)
    PROVE  AbstractStep
<1>1. CASE g = 0
  <2>1. errors' = errors + 1 /\ gaggedErrors' = gaggedErrors /\ status' \in {"running", "failed"}
    BY <1>1 DEF verror, Running
  <2> QED BY <2>1, VisibleReport
<1>2. CASE g # 0
  <2>1. errors' = errors + 1 /\ gaggedErrors' = gaggedErrors + 1 /\ status' = status
    BY <1>2 DEF verror
  <2> QED BY <2>1, HiddenReport
<1> QED BY <1>1, <1>2

\* The abstract kinds that may be opened are those of the frames.
LEMMA OpenKinds == DiagnosticScopes!Kind \ {"main"} = FrameKind
  BY DEF DiagnosticScopes!Kind, FrameKind, GagKind

\* Opening a frame opens a scope.
LEMMA OpenStep ==
    ASSUME CountInv, CountInv', NEW k \in FrameKind, Running, Depth < MaxDepth,
           frames' = Append(frames, Entered(k)),
           UNCHANGED <<errors, gaggedErrors, answer, status>>
    PROVE  AbstractStep
<1>1. Scopes' = Append(Scopes, DiagnosticScopes!New(k))
  BY PushShape, PushOpens DEF CountInv
<1>2. DiagnosticScopes!Open(k) /\ k \in DiagnosticScopes!Kind \ {"main"}
  BY <1>1, OpenKinds DEF DiagnosticScopes!Open, DiagnosticScopes!Running, Running
<1> QED BY <1>2 DEF AbstractStep, DiagnosticScopes!Next

\* endGagging answers for the hidden errors of its scope, and forgets them.
LEMMA CloseGagStep ==
    ASSUME CountInv, CountInv', NEW k \in GagKind, EndGaggingOf(k)
    PROVE  AbstractStep
<1>1. /\ Popped /\ Running /\ status' = status /\ Depth > 0 /\ Top.kind = k
      /\ gaggedErrors' = Top.gaggedErrors
      /\ errors' = errors - (gaggedErrors - Top.gaggedErrors)
      /\ answer' = (gaggedErrors # Top.gaggedErrors)
  BY PopShape DEF EndGaggingOf, CountInv
<1>2. /\ Depth \in Nat /\ gaggedErrors \in Nat /\ Top.gaggedErrors \in Nat
      /\ GaggedAt(Depth) <= GaggedAt(Depth + 1)
      /\ GaggedAt(Depth) = Top.gaggedErrors /\ GaggedAt(Depth + 1) = gaggedErrors
  BY <1>1, FrameTypes DEF CountInv, SavedCountsNest, GaggedAt, Popped
<1>3. 0 = Top.gaggedErrors - Top.gaggedErrors
  BY <1>2
<1>4. Scopes' = [SubSeq(Scopes, 1, Len(Scopes) - 1) EXCEPT
                   ![Len(Scopes) - 1].hidden  = @ + 0,
                   ![Len(Scopes) - 1].visible = @ + DiagnosticScopes!Top.visible]
  <2>1. Top.gaggedErrors \in {gaggedErrors, Top.gaggedErrors}
    OBVIOUS
  <2> QED BY <1>1, <1>3, <2>1, PopCloses, Zenon
<1>5. Len(Scopes) > 1
  BY <1>1, <1>2, ScopesShape DEF ScopesSpelled
<1>6. DiagnosticScopes!Close(0, DiagnosticScopes!Top.visible)
  BY <1>1, <1>4, <1>5 DEF DiagnosticScopes!Close, DiagnosticScopes!Running, Running
<1>7. /\ DiagnosticScopes!Top.kind \in {"gag", "try"}
      /\ answer' = (DiagnosticScopes!Top.hidden > 0)
  <2>1. /\ DiagnosticScopes!Top.kind = k
        /\ DiagnosticScopes!Top.hidden = gaggedErrors - Top.gaggedErrors
    BY <1>1, LastScope
  <2>2. (gaggedErrors # Top.gaggedErrors) <=> (gaggedErrors - Top.gaggedErrors > 0)
    BY <1>2
  <2> QED BY <1>1, <2>1, <2>2 DEF GagKind
<1>8. DiagnosticScopes!CloseGag
  BY <1>6, <1>7 DEF DiagnosticScopes!CloseGag
<1> QED BY <1>8 DEF AbstractStep, DiagnosticScopes!Next

\* The end of an Ungag or a probe hands on all errors of its scope.
LEMMA HandOn ==
    ASSUME CountInv, CountInv', Running, Depth > 0, frames' = Pop,
           UNCHANGED <<errors, gaggedErrors, status>>
    PROVE  /\ DiagnosticScopes!Close(DiagnosticScopes!Top.hidden, DiagnosticScopes!Top.visible)
           /\ DiagnosticScopes!Top.kind = Top.kind
           /\ (errors # Top.errors) <=>
                (DiagnosticScopes!Top.hidden + DiagnosticScopes!Top.visible > 0)
<1>1. Popped
  BY PopShape DEF CountInv
<1>2. /\ Depth \in Nat /\ gaggedErrors \in Nat /\ Top.gaggedErrors \in Nat
      /\ errors \in Nat /\ Top.errors \in Nat
      /\ Top.gaggedErrors <= gaggedErrors
      /\ Top.errors - Top.gaggedErrors <= errors - gaggedErrors
  BY <1>1, FrameTypes DEF CountInv, SavedCountsNest, GaggedAt, UngaggedAt, Popped
<1>3. /\ DiagnosticScopes!Top.kind = Top.kind
      /\ DiagnosticScopes!Top.hidden = gaggedErrors - Top.gaggedErrors
      /\ DiagnosticScopes!Top.visible = (errors - gaggedErrors) - (Top.errors - Top.gaggedErrors)
  BY LastScope
<1>4. errors' = errors - (gaggedErrors - gaggedErrors)
  BY <1>2
<1>5. Scopes' = [SubSeq(Scopes, 1, Len(Scopes) - 1) EXCEPT
                   ![Len(Scopes) - 1].hidden  = @ + DiagnosticScopes!Top.hidden,
                   ![Len(Scopes) - 1].visible = @ + DiagnosticScopes!Top.visible]
  BY <1>1, <1>3, <1>4, PopCloses
<1>6. Len(Scopes) > 1
  BY <1>2, ScopesShape DEF ScopesSpelled
<1>7. DiagnosticScopes!Close(DiagnosticScopes!Top.hidden, DiagnosticScopes!Top.visible)
  BY <1>5, <1>6 DEF DiagnosticScopes!Close, DiagnosticScopes!Running, Running
<1>8. (errors # Top.errors) <=>
          (DiagnosticScopes!Top.hidden + DiagnosticScopes!Top.visible > 0)
  <2>1. \A e, g, e0, g0 \in Nat :
           g0 <= g /\ e0 - g0 <= e - g => ((e # e0) <=> ((g - g0) + ((e - g) - (e0 - g0)) > 0))
    OBVIOUS
  <2>2. (errors # Top.errors) <=>
          ((gaggedErrors - Top.gaggedErrors)
            + ((errors - gaggedErrors) - (Top.errors - Top.gaggedErrors)) > 0)
    BY <1>2, <2>1
  <2> QED BY <1>3, <2>2
<1> QED BY <1>3, <1>7, <1>8

\* The compilation does not end well with an error counted and not taken back.
LEMMA FinishStep ==
    ASSUME CountInv, CountInv', Finish
    PROVE  AbstractStep
<1>1. /\ Running /\ Depth = 0 /\ frames' = frames /\ answer' = answer
      /\ errors' = errors /\ gaggedErrors' = gaggedErrors
      /\ status' \in {"failed", "succeeded"}
      /\ errors # 0 => status' = "failed"
      /\ errors \in Nat /\ gaggedErrors \in Nat
  BY FrameTypes DEF Finish, counters, CountInv
<1>2. ScopesSpelled
  BY ScopesShape
<1>3. /\ Len(Scopes) = 1 /\ DiagnosticScopes!Top = Scopes[1]
      /\ Scopes[1].hidden = gaggedErrors /\ Scopes[1].visible = errors - gaggedErrors
  BY <1>1, <1>2 DEF ScopesSpelled, DiagnosticScopes!Top, Hidden, Visible, GaggedAt, UngaggedAt
<1>4. Scopes' = Scopes
  BY <1>1 DEF Scopes, GaggedAt, UngaggedAt, Depth
<1>5. DiagnosticScopes!Top.hidden + DiagnosticScopes!Top.visible > 0 => status' = "failed"
  BY <1>1, <1>3
<1>6. DiagnosticScopes!Finish
  BY <1>1, <1>3, <1>4, <1>5 DEF DiagnosticScopes!Finish, DiagnosticScopes!Running, Running
<1> QED BY <1>6 DEF AbstractStep, DiagnosticScopes!Next

\* Every step of the counters is a step of the scopes, or changes none of them.
LEMMA StepImplements == CountInv /\ CountInv' /\ [Next]_vars => AbstractStep
<1> SUFFICES ASSUME CountInv, CountInv', [Next]_vars PROVE AbstractStep
  OBVIOUS
<1>0. /\ TypeOK /\ (UNCHANGED frames => Kept)
  BY SameShape DEF CountInv
<1>1. ASSUME Kept, UNCHANGED <<errors, gaggedErrors, answer, status>> PROVE AbstractStep
  BY <1>1, NoReport DEF AbstractStep, DiagnosticScopes!vars
<1>2. CASE \E k \in GagKind : StartGagging(k)
  BY <1>2, OpenStep DEF StartGagging, FrameKind
<1>3. CASE EndGagging \/ EndTrySemantic
  BY <1>3, CloseGagStep DEF EndGagging, EndTrySemantic, GagKind
<1>4. CASE \E lift \in BOOLEAN : StartUngag(lift)
  <2>1. "ungag" \in FrameKind
    BY DEF FrameKind
  <2> QED BY <1>4, <2>1, OpenStep DEF StartUngag
<1>5. CASE StartProbe
  <2>1. "probe" \in FrameKind
    BY DEF FrameKind
  <2> QED BY <1>5, <2>1, OpenStep DEF StartProbe, counters
<1>6. CASE EndUngag
  <2>1. DiagnosticScopes!CloseUngag
    BY <1>6, HandOn DEF EndUngag, DiagnosticScopes!CloseUngag
  <2> QED BY <2>1 DEF AbstractStep, DiagnosticScopes!Next
<1>7. CASE EndProbe
  <2>1. /\ Running /\ Depth > 0 /\ Top.kind = "probe" /\ frames' = Pop
        /\ answer' = (errors # Top.errors)
        /\ UNCHANGED <<errors, gaggedErrors, status>>
    BY <1>7 DEF EndProbe, counters
  <2>2. /\ DiagnosticScopes!Close(DiagnosticScopes!Top.hidden, DiagnosticScopes!Top.visible)
        /\ DiagnosticScopes!Top.kind = "probe"
        /\ answer' = (DiagnosticScopes!Top.hidden + DiagnosticScopes!Top.visible > 0)
    BY <2>1, HandOn
  <2>3. DiagnosticScopes!CloseProbe
    BY <2>2 DEF DiagnosticScopes!CloseProbe
  <2> QED BY <2>3 DEF AbstractStep, DiagnosticScopes!Next
<1>8. CASE Error
  BY <1>0, <1>8, ErrorReport DEF Error
<1>9. CASE increaseErrorCount
  <2>1. /\ Running /\ Kept /\ UNCHANGED <<answer, status>> /\ status' \in {"running", "failed"}
        /\ errors' = errors + 1
        /\ gaggedErrors' = gaggedErrors + 1 \/ gaggedErrors' = gaggedErrors
    BY <1>0, <1>9 DEF increaseErrorCount, Running
  <2> QED BY <2>1, HiddenReport, VisibleReport
<1>10. CASE ReuseFailedInstance
  BY <1>0, <1>10, HiddenReport DEF ReuseFailedInstance
<1>11. ASSUME GagWarning PROVE AbstractStep
  BY <1>0, <1>1, <1>11, WarnShape DEF GagWarning
<1>12. CASE vwarning
  <2>1. CASE GagWarning
    BY <1>11, <2>1
  <2>2. CASE ~GagWarning
    BY <1>0, <1>1, <1>12, <2>2 DEF vwarning
  <2> QED BY <2>1, <2>2
<1>13. CASE vdeprecation
  <2>1. CASE GagWarning
    BY <1>11, <2>1
  <2>2. CASE ~GagWarning
    BY <1>0, <1>13, <2>2, ErrorReport DEF vdeprecation
  <2> QED BY <2>1, <2>2
<1>14. CASE CtfeRecursionLimit
  BY <1>0, <1>14, ErrorReport DEF CtfeRecursionLimit
<1>15. CASE RecursiveExpansion
  <2>1. /\ Running /\ Kept /\ answer' = answer /\ status' \in {"running", "failed"}
        /\ errors' = errors + 1 /\ gaggedErrors' = gaggedErrors
    BY <1>0, <1>15 DEF RecursiveExpansion
  <2> QED BY <2>1, VisibleReport
<1>16. CASE Finish
  BY <1>16, FinishStep
<1>17. CASE UNCHANGED vars
  BY <1>0, <1>1, <1>17 DEF vars, counters
<1> QED
  BY <1>2, <1>3, <1>4, <1>5, <1>6, <1>7, <1>8, <1>9, <1>10, <1>12, <1>13, <1>14,
     <1>15, <1>16, <1>17 DEF Next

\* At the start one scope is open, the compilation, and it has no errors.
LEMMA InitImplements == Init => DiagnosticScopes!Init
<1> SUFFICES ASSUME Init PROVE DiagnosticScopes!Init
  OBVIOUS
<1>1. /\ Depth = 0 /\ errors = 0 /\ gaggedErrors = 0 /\ answer = FALSE /\ status = "running"
  BY EmptySeq DEF Init, Depth
<1>2. CountInv
  BY CountInvInit
<1>3. ScopesSpelled
  BY <1>2, ScopesShape
<1>4. /\ Scopes \in Seq(AbstractScope) /\ Len(Scopes) = 1 /\ Scopes[1] \in AbstractScope
      /\ Scopes[1].kind = "main" /\ Scopes[1].hidden = 0 /\ Scopes[1].visible = 0
  BY <1>1, <1>3 DEF ScopesSpelled, Kind, Hidden, Visible, GaggedAt, UngaggedAt
<1> DEFINE main == DiagnosticScopes!New("main")
<1>5. main \in AbstractScope /\ main.kind = "main" /\ main.hidden = 0 /\ main.visible = 0
  BY DEF DiagnosticScopes!New, AbstractScope, DiagnosticScopes!Scope, DiagnosticScopes!Kind
<1> HIDE DEF main
<1>6. Scopes[1] = main
  BY <1>4, <1>5, SameScope
<1>7. Scopes = <<main>>
  <2>1. <<main>> \in Seq(AbstractScope) /\ Len(<<main>>) = 1 /\ <<main>>[1] = main
    BY <1>5
  <2> QED BY <1>4, <1>6, <2>1, SeqEqual
<1> QED BY <1>1, <1>7 DEF DiagnosticScopes!Init, main

\* The counters of globals.d behave as nested scopes, each answering for its own
\* errors only (globals.d:303-328), with CTFE's recursion limit and without it.
THEOREM CountersImplementScopes == Spec => ImplementsScopes
<1>1. Init => CountInv /\ DiagnosticScopes!Init
  BY CountInvInit, InitImplements
<1>2. CountInv /\ CountInv' /\ [Next]_vars => [DiagnosticScopes!Next]_(DiagnosticScopes!vars)
  BY StepImplements DEF AbstractStep
<1> QED
  BY <1>1, <1>2, CountInvInductive, PTL DEF Spec, ImplementsScopes, DiagnosticScopes!Spec
=============================================================================
