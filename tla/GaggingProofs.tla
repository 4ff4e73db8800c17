--------------------------- MODULE GaggingProofs ---------------------------
(* Proofs about Gagging, for every limit, modulus, bound and setting.      *)
EXTENDS Gagging, SequenceTheorems, TLAPS

(***************************************************************************)
(* The three ways an action changes `frames`: a scope is pushed, the top   *)
(* one is popped, or none is and at most `warned` changes.                 *)
(***************************************************************************)

Pushed(k) ==
    /\ frames' \in Seq(Frame)
    /\ Depth' = Depth + 1 /\ Depth' \in 1..MaxDepth
    /\ \A i \in 1..Depth : frames'[i] = frames[i]
    /\ frames'[Depth + 1] = Entered(k)

Popped ==
    /\ frames' \in Seq(Frame)
    /\ Depth \in 1..MaxDepth
    /\ Depth' = Depth - 1 /\ Depth' \in 0..MaxDepth
    /\ \A i \in 1..Depth-1 : frames'[i] = frames[i]
    /\ Top = frames[Depth] /\ Top \in Frame

Kept ==
    /\ frames' \in Seq(Frame)
    /\ Depth \in 0..MaxDepth /\ Depth' = Depth
    /\ \A i \in 1..Depth : /\ frames'[i].kind = frames[i].kind
                           /\ frames'[i].errors = frames[i].errors
                           /\ frames'[i].gaggedErrors = frames[i].gaggedErrors
                           /\ frames'[i].gag = frames[i].gag

\* Opening a scope saves the counters in one more frame.
LEMMA PushShape ==
    ASSUME TypeOK, Running, NEW k \in FrameKind, Depth < MaxDepth,
           frames' = Append(frames, Entered(k))
    PROVE  Pushed(k)
<1>1. Entered(k) \in Frame
  BY DEF Entered, Frame, TypeOK
<1>2. QED
  BY <1>1, BoundAssumption, LenProperties DEF TypeOK, Depth, Pushed

\* Closing a scope takes the innermost frame off and leaves the others alone.
LEMMA PopShape ==
    ASSUME TypeOK, Depth > 0, frames' = Pop
    PROVE  Popped
<1>1. Depth \in 1..MaxDepth /\ frames \in Seq(Frame)
  BY BoundAssumption, LenProperties DEF TypeOK, Depth
<1>2. \A i \in 1..Depth : frames[i] \in Frame
  BY <1>1, ElementOfSeq DEF Depth
<1>3. /\ Pop \in Seq(Frame)
      /\ Len(Pop) = Depth - 1
      /\ \A i \in 1..Depth-1 : Pop[i] = frames[i]
  BY <1>1, <1>2, SubSeqProperties DEF Pop
<1>4. Depth' = Len(Pop)
  BY DEF Depth
<1>5. Top = frames[Depth] /\ Top \in Frame
  BY <1>1, <1>2 DEF Top
<1>6. QED
  BY <1>1, <1>3, <1>4, <1>5, BoundAssumption DEF Popped

\* A gagged warning changes nothing in the frames but the mark of one.
LEMMA WarnShape ==
    ASSUME TypeOK, GagWarning
    PROVE  Kept
<1> DEFINE Warned(i) == [frames[i] EXCEPT !.warned = TRUE]
<1>1. Depth \in 0..MaxDepth /\ frames \in Seq(Frame)
  BY BoundAssumption, LenProperties DEF TypeOK, Depth
<1>2. \A i \in 1..Depth : frames[i] \in Frame
  BY <1>1, ElementOfSeq DEF Depth
<1>3. \A i \in 1..Depth : /\ Warned(i) \in Frame
                         /\ Warned(i).kind = frames[i].kind
                         /\ Warned(i).errors = frames[i].errors
                         /\ Warned(i).gaggedErrors = frames[i].gaggedErrors
                         /\ Warned(i).gag = frames[i].gag
  BY <1>2 DEF Frame
<1> DEFINE open == {i \in 1..Depth : frames[i].kind \in GagKind}
           Hit(i) == i \in open /\ \A j \in open : j <= i
<1>4. frames' = [i \in 1..Depth |-> IF Hit(i) THEN Warned(i) ELSE frames[i]]
  BY DEF GagWarning
<1> HIDE DEF Hit, Warned, open
<1>5. frames' \in [1..Depth -> Frame]
  BY <1>2, <1>3, <1>4
<1>6. frames' \in Seq(Frame)
  BY <1>1, <1>5, SeqDef
<1>7. Depth' = Depth
  <2>1. DOMAIN frames' = 1..Depth
    BY <1>5
  <2>2. Depth' \in Nat /\ DOMAIN frames' = 1..Depth'
    BY <1>6, LenProperties DEF Depth
  <2> QED BY <1>1, <2>1, <2>2
<1>8. QED
  BY <1>1, <1>3, <1>4, <1>6, <1>7 DEF Kept

\* A step that leaves the frames alone keeps their shape.
LEMMA SameShape ==
    ASSUME TypeOK, UNCHANGED frames
    PROVE  Kept
  BY LenProperties, BoundAssumption DEF TypeOK, Depth, Kept

(***************************************************************************)
(* The saved counts nest, and the counters keep their types.  Each needs   *)
(* the other: the subtractions of endGagging stay in Nat because what a    *)
(* scope saved is at most what is counted now.                             *)
(***************************************************************************)

CountInv == TypeOK /\ SavedCountsNest

\* The counters and what the frames saved are natural numbers.
LEMMA FrameTypes ==
    ASSUME TypeOK
    PROVE  /\ Depth \in 0..MaxDepth /\ MaxDepth \in Nat
           /\ errors \in Nat /\ gaggedErrors \in Nat
           /\ \A i \in 1..Depth : /\ frames[i] \in Frame
                                  /\ frames[i].errors \in Nat
                                  /\ frames[i].gaggedErrors \in Nat
<1>1. Depth \in 0..MaxDepth /\ MaxDepth \in Nat
  BY LenProperties, BoundAssumption DEF TypeOK, Depth
<1>2. \A i \in 1..Depth : frames[i] \in Frame
  BY <1>1, ElementOfSeq DEF TypeOK, Depth
<1>3. QED
  BY <1>1, <1>2 DEF TypeOK, Frame

\* Opening a scope keeps the saved counts in order, the new ones being the last.
LEMMA PushNests ==
    ASSUME CountInv, NEW k \in FrameKind, Pushed(k),
           errors' = errors, gaggedErrors' = gaggedErrors
    PROVE  SavedCountsNest'
<1>1. /\ Depth' = Depth + 1
      /\ \A i \in 1..Depth : frames'[i] = frames[i]
      /\ frames'[Depth + 1] = Entered(k)
  BY DEF Pushed
<1>2. /\ Depth \in Nat /\ MaxDepth \in Nat
      /\ errors \in Nat /\ gaggedErrors \in Nat
  BY FrameTypes DEF CountInv
<1>3. \A i \in 1..Depth+1 : GaggedAt(i)' = GaggedAt(i) /\ UngaggedAt(i)' = UngaggedAt(i)
  <2>1. ASSUME NEW i \in 1..Depth
        PROVE  GaggedAt(i)' = GaggedAt(i) /\ UngaggedAt(i)' = UngaggedAt(i)
    BY <1>1, <1>2 DEF GaggedAt, UngaggedAt
  <2>2. ASSUME NEW i, i = Depth + 1
        PROVE  GaggedAt(i)' = GaggedAt(i) /\ UngaggedAt(i)' = UngaggedAt(i)
    <3>1. i <= Depth' /\ ~(i <= Depth) /\ frames'[i] = Entered(k)
      BY <1>1, <1>2, <2>2
    <3> QED BY <3>1 DEF GaggedAt, UngaggedAt, Entered
  <2> QED BY <1>2, <2>1, <2>2
<1>4. \A i \in 1..Depth+2 : i > Depth => /\ GaggedAt(i)' = GaggedAt(Depth + 1)
                                         /\ UngaggedAt(i)' = UngaggedAt(Depth + 1)
  <2>1. ASSUME NEW i, i = Depth + 2
        PROVE  GaggedAt(i)' = gaggedErrors /\ UngaggedAt(i)' = errors - gaggedErrors
    BY <1>1, <1>2, <2>1 DEF GaggedAt, UngaggedAt
  <2>2. /\ GaggedAt(Depth + 1) = gaggedErrors
        /\ UngaggedAt(Depth + 1) = errors - gaggedErrors
    BY <1>2 DEF GaggedAt, UngaggedAt
  <2> QED BY <1>2, <1>3, <2>1, <2>2
<1>5. /\ GaggedAt(Depth + 1) \in Int /\ UngaggedAt(Depth + 1) \in Int
  BY <1>2 DEF GaggedAt, UngaggedAt
<1>6. SavedCountsNest'
  <2>1. \A i \in 1..Depth' : /\ GaggedAt(i)' <= GaggedAt(i + 1)'
                            /\ UngaggedAt(i)' <= UngaggedAt(i + 1)'
    <3> SUFFICES ASSUME NEW i \in 1..Depth+1
                 PROVE  /\ GaggedAt(i)' <= GaggedAt(i + 1)'
                        /\ UngaggedAt(i)' <= UngaggedAt(i + 1)'
      BY <1>1
    <3>1. CASE i = Depth + 1
      BY <1>2, <1>3, <1>4, <1>5, <3>1
    <3>2. CASE i \in 1..Depth
      BY <1>2, <1>3, <3>2 DEF CountInv, SavedCountsNest
    <3> QED BY <1>2, <3>1, <3>2
  <2>2. \A i \in 1..Depth'+1 : 0 <= GaggedAt(i)' /\ 0 <= UngaggedAt(i)'
    BY <1>1, <1>2, <1>3, <1>4 DEF CountInv, SavedCountsNest
  <2> QED BY <2>1, <2>2 DEF SavedCountsNest
<1>7. QED
  BY <1>6

\* Closing a scope, with its gagged errors taken back or not, keeps the saved
\* counts of the others in order, and no subtraction goes below zero.
LEMMA PopNests ==
    ASSUME CountInv, Popped,
           NEW x \in {gaggedErrors, Top.gaggedErrors},
           gaggedErrors' = x, errors' = errors - (gaggedErrors - x)
    PROVE  SavedCountsNest' /\ errors' \in Nat /\ gaggedErrors' \in Nat
<1>1. /\ Depth \in 1..MaxDepth
      /\ Depth' = Depth - 1 /\ Depth' \in 0..MaxDepth
      /\ \A i \in 1..Depth-1 : frames'[i] = frames[i]
      /\ Top = frames[Depth]
  BY DEF Popped
<1>2. /\ Depth \in Nat /\ MaxDepth \in Nat /\ errors \in Nat /\ gaggedErrors \in Nat
      /\ frames[Depth].errors \in Nat /\ frames[Depth].gaggedErrors \in Nat
  BY <1>1, FrameTypes DEF CountInv
<1>3. /\ GaggedAt(Depth) = frames[Depth].gaggedErrors
      /\ UngaggedAt(Depth) = frames[Depth].errors - frames[Depth].gaggedErrors
      /\ GaggedAt(Depth) <= gaggedErrors
      /\ UngaggedAt(Depth) <= errors - gaggedErrors
      /\ 0 <= UngaggedAt(Depth) /\ UngaggedAt(Depth) \in Int
  BY <1>1, <1>2 DEF CountInv, SavedCountsNest, GaggedAt, UngaggedAt
<1>4. /\ x \in Nat /\ gaggedErrors' \in Nat /\ errors' \in Nat
      /\ GaggedAt(Depth) <= gaggedErrors'
      /\ UngaggedAt(Depth) <= errors' - gaggedErrors'
  BY <1>1, <1>2, <1>3
<1>5. \A i \in 1..Depth-1 : GaggedAt(i)' = GaggedAt(i) /\ UngaggedAt(i)' = UngaggedAt(i)
  BY <1>1, <1>2 DEF GaggedAt, UngaggedAt
<1>6. \A i : i = Depth => /\ GaggedAt(i)' = gaggedErrors'
                         /\ UngaggedAt(i)' = errors' - gaggedErrors'
  BY <1>1, <1>2 DEF GaggedAt, UngaggedAt
<1>7. \A i \in 1..Depth : GaggedAt(i) \in Int /\ UngaggedAt(i) \in Int
  BY FrameTypes DEF CountInv, GaggedAt, UngaggedAt
<1>8. SavedCountsNest'
  <2>1. \A i \in 1..Depth' : /\ GaggedAt(i)' <= GaggedAt(i + 1)'
                            /\ UngaggedAt(i)' <= UngaggedAt(i + 1)'
    <3> SUFFICES ASSUME NEW i \in 1..Depth-1
                 PROVE  /\ GaggedAt(i)' <= GaggedAt(i + 1)'
                        /\ UngaggedAt(i)' <= UngaggedAt(i + 1)'
      BY <1>1
    <3>0. GaggedAt(i) <= GaggedAt(i + 1) /\ UngaggedAt(i) <= UngaggedAt(i + 1)
      BY <1>1, <1>2 DEF CountInv, SavedCountsNest
    <3>1. CASE i = Depth - 1
      BY <1>2, <1>3, <1>4, <1>5, <1>6, <1>7, <3>0, <3>1
    <3>2. CASE i \in 1..Depth-2
      BY <1>2, <1>5, <3>0, <3>2
    <3> QED BY <1>2, <3>1, <3>2
  <2>2. \A i \in 1..Depth'+1 : 0 <= GaggedAt(i)' /\ 0 <= UngaggedAt(i)'
    <3>1. \A i \in 1..Depth : 0 <= GaggedAt(i) /\ 0 <= UngaggedAt(i)
      BY <1>1, <1>2 DEF CountInv, SavedCountsNest
    <3>2. 0 <= gaggedErrors' /\ 0 <= errors' - gaggedErrors'
      BY <1>2, <1>3, <1>4
    <3> SUFFICES ASSUME NEW i \in 1..Depth
                 PROVE  0 <= GaggedAt(i)' /\ 0 <= UngaggedAt(i)'
      BY <1>1, <1>2
    <3>3. CASE i = Depth
      BY <1>6, <3>2, <3>3
    <3>4. CASE i \in 1..Depth-1
      BY <1>2, <1>5, <3>1, <3>4
    <3> QED BY <1>2, <3>3, <3>4
  <2> QED BY <2>1, <2>2 DEF SavedCountsNest
<1>9. QED
  BY <1>4, <1>8

\* Counting more errors, hidden or visible, keeps the saved counts in order.
LEMMA SameFramesNest ==
    ASSUME CountInv, Kept,
           NEW h \in Nat, gaggedErrors' = gaggedErrors + h,
           NEW v \in Nat, errors' = errors + h + v
    PROVE  SavedCountsNest'
<1>1. /\ Depth \in Nat /\ errors \in Nat /\ gaggedErrors \in Nat
  BY FrameTypes DEF CountInv
<1>2. \A i \in 1..Depth : /\ GaggedAt(i)' = GaggedAt(i) /\ UngaggedAt(i)' = UngaggedAt(i)
                         /\ GaggedAt(i) \in Int /\ UngaggedAt(i) \in Int
  BY <1>1, FrameTypes DEF CountInv, GaggedAt, UngaggedAt, Kept
<1>3. /\ GaggedAt(Depth + 1) = gaggedErrors
      /\ UngaggedAt(Depth + 1) = errors - gaggedErrors
      /\ \A i : i = Depth + 1 => /\ GaggedAt(i)' = gaggedErrors'
                               /\ UngaggedAt(i)' = errors' - gaggedErrors'
  BY <1>1 DEF GaggedAt, UngaggedAt, Kept
<1>4. \A i \in 1..Depth : /\ GaggedAt(i)' <= GaggedAt(i + 1)'
                         /\ UngaggedAt(i)' <= UngaggedAt(i + 1)'
  <2> SUFFICES ASSUME NEW i \in 1..Depth
               PROVE  /\ GaggedAt(i)' <= GaggedAt(i + 1)'
                      /\ UngaggedAt(i)' <= UngaggedAt(i + 1)'
    OBVIOUS
  <2>0. GaggedAt(i) <= GaggedAt(i + 1) /\ UngaggedAt(i) <= UngaggedAt(i + 1)
    BY <1>1 DEF CountInv, SavedCountsNest
  <2>1. CASE i = Depth
    <3>1. /\ GaggedAt(i + 1) = gaggedErrors /\ UngaggedAt(i + 1) = errors - gaggedErrors
          /\ GaggedAt(i + 1)' = gaggedErrors' /\ UngaggedAt(i + 1)' = errors' - gaggedErrors'
      BY <1>3, <2>1
    <3> QED BY <1>1, <1>2, <2>0, <3>1
  <2>2. CASE i \in 1..Depth-1
    BY <1>1, <1>2, <2>0, <2>2
  <2> QED BY <1>1, <2>1, <2>2
<1>5. \A i \in 1..Depth+1 : 0 <= GaggedAt(i)' /\ 0 <= UngaggedAt(i)'
  <2>1. \A i \in 1..Depth+1 : 0 <= GaggedAt(i) /\ 0 <= UngaggedAt(i)
    BY <1>1 DEF CountInv, SavedCountsNest
  <2>2. 0 <= gaggedErrors' /\ 0 <= errors' - gaggedErrors'
    <3>1. Depth + 1 \in 1..Depth+1
      BY <1>1
    <3>2. 0 <= errors - gaggedErrors
      BY <1>3, <2>1, <3>1
    <3> QED BY <1>1, <3>2
  <2> SUFFICES ASSUME NEW i \in 1..Depth+1
               PROVE  0 <= GaggedAt(i)' /\ 0 <= UngaggedAt(i)'
    OBVIOUS
  <2>3. CASE i = Depth + 1
    BY <1>3, <2>2, <2>3
  <2>4. CASE i \in 1..Depth
    BY <1>2, <2>1, <2>4
  <2> QED BY <1>1, <2>3, <2>4
<1>6. QED
  BY <1>4, <1>5 DEF SavedCountsNest, Kept

\* Every step keeps the types and the nesting of the saved counts.
LEMMA CountInvInductive == CountInv /\ [Next]_vars => CountInv'
<1> SUFFICES ASSUME CountInv, [Next]_vars
             PROVE  CountInv'
  OBVIOUS
<1> USE DEF CountInv
<1>0. /\ errors \in Nat /\ gaggedErrors \in Nat /\ warnings \in Nat
      /\ gaggedWarnings \in Nat /\ shown \in Nat
      /\ gag \in 0..GagModulus-1 /\ GagModulus \in Nat /\ GagModulus > 0
      /\ MaxDepth \in Nat
      /\ answer \in BOOLEAN /\ rerun \in BOOLEAN /\ status \in Status
  BY BoundAssumption DEF TypeOK
<1>1. GagInc \in 0..GagModulus-1 /\ GagDec \in 0..GagModulus-1 /\ 0 \in 0..GagModulus-1
  BY <1>0 DEF GagInc, GagDec
<1>2. ASSUME NEW k \in FrameKind, Pushed(k),
             errors' = errors, gaggedErrors' = gaggedErrors
      PROVE  SavedCountsNest' /\ frames' \in Seq(Frame) /\ Depth' <= MaxDepth
  BY <1>0, <1>2, PushNests DEF Pushed
<1>3. ASSUME Popped, NEW x \in {gaggedErrors, Top.gaggedErrors},
             gaggedErrors' = x, errors' = errors - (gaggedErrors - x)
      PROVE  /\ SavedCountsNest' /\ frames' \in Seq(Frame) /\ Depth' <= MaxDepth
             /\ errors' \in Nat /\ gaggedErrors' \in Nat
  BY <1>0, <1>3, PopNests DEF Popped
<1>4. ASSUME Kept, NEW h \in Nat, gaggedErrors' = gaggedErrors + h,
             NEW v \in Nat, errors' = errors + h + v
      PROVE  /\ SavedCountsNest' /\ frames' \in Seq(Frame) /\ Depth' <= MaxDepth
             /\ errors' \in Nat /\ gaggedErrors' \in Nat
  BY <1>0, <1>4, SameFramesNest DEF Kept
<1>5. ASSUME UNCHANGED frames PROVE Kept
  BY <1>5, SameShape
<1>6. ASSUME NEW g, verror(g), Kept
      PROVE  /\ SavedCountsNest' /\ frames' \in Seq(Frame) /\ Depth' <= MaxDepth
             /\ errors' \in Nat /\ gaggedErrors' \in Nat /\ shown' \in Nat
             /\ status' \in Status
  <2>1. CASE g = 0
    <3>1. gaggedErrors' = gaggedErrors + 0 /\ errors' = errors + 0 + 1
      BY <1>0, <1>6, <2>1 DEF verror
    <3>2. shown' \in Nat /\ status' \in Status
      BY <1>0, <1>6, <2>1 DEF verror, Status
    <3> QED BY <1>4, <1>6, <3>1, <3>2
  <2>2. CASE g # 0
    <3>1. gaggedErrors' = gaggedErrors + 1 /\ errors' = errors + 1 + 0
      BY <1>0, <1>6, <2>2 DEF verror
    <3>2. shown' \in Nat /\ status' \in Status
      BY <1>0, <1>6, <2>2 DEF verror
    <3> QED BY <1>4, <1>6, <3>1, <3>2
  <2> QED BY <2>1, <2>2
<1>7. ASSUME GagWarning PROVE CountInv'
  <2>1. Kept
    BY <1>7, WarnShape
  <2>2. gaggedErrors' = gaggedErrors + 0 /\ errors' = errors + 0 + 0
    BY <1>0, <1>7 DEF GagWarning
  <2>3. gaggedWarnings' \in Nat
    BY <1>0, <1>7 DEF GagWarning
  <2> QED BY <1>0, <1>4, <1>7, <2>1, <2>2, <2>3 DEF GagWarning, TypeOK, Depth
<1>10. CASE \E k \in GagKind : StartGagging(k)
  <2> SUFFICES ASSUME NEW k \in GagKind, StartGagging(k) PROVE CountInv'
    BY <1>10
  <2>1. k \in FrameKind /\ Pushed(k)
    BY PushShape DEF StartGagging, FrameKind
  <2> QED BY <1>0, <1>1, <1>2, <2>1 DEF StartGagging, TypeOK, Depth
<1>11. ASSUME NEW k, EndGaggingOf(k), rerun' \in BOOLEAN PROVE CountInv'
  <2>1. Popped
    BY <1>11, PopShape DEF EndGaggingOf
  <2>2. /\ gaggedErrors' = Top.gaggedErrors
        /\ errors' = errors - (gaggedErrors - Top.gaggedErrors)
    BY <1>11 DEF EndGaggingOf
  <2>3. answer' \in BOOLEAN /\ gag' \in 0..GagModulus-1
    BY <1>1, <1>11 DEF EndGaggingOf
  <2> QED BY <1>0, <1>3, <1>11, <2>1, <2>2, <2>3 DEF EndGaggingOf, TypeOK, Depth
<1>12. CASE EndGagging
  BY <1>0, <1>11, <1>12 DEF EndGagging
<1>13. CASE EndTrySemantic
  <2>1. EndGaggingOf("try")
    BY <1>13 DEF EndTrySemantic
  <2>2. rerun' = rerun \/ rerun' = (gaggedWarnings > 0)
    BY <1>13 DEF EndTrySemantic
  <2>3. rerun' \in BOOLEAN
    <3>1. (gaggedWarnings > 0) \in BOOLEAN
      BY <1>0
    <3> QED BY <1>0, <2>2, <3>1, Zenon
  <2> QED BY <1>11, <2>1, <2>3
<1>14. CASE \E lift \in BOOLEAN : StartUngag(lift)
  <2> SUFFICES ASSUME NEW lift \in BOOLEAN, StartUngag(lift) PROVE CountInv'
    BY <1>14
  <2>1. "ungag" \in FrameKind /\ Pushed("ungag")
    BY PushShape DEF StartUngag, FrameKind
  <2>2. gag' \in 0..GagModulus-1
    BY <1>0, <1>1 DEF StartUngag
  <2> QED BY <1>0, <1>2, <2>1, <2>2 DEF StartUngag, TypeOK, Depth
<1>15. CASE EndUngag
  <2>1. Popped
    BY <1>15, PopShape DEF EndUngag
  <2>2. gag' \in 0..GagModulus-1
    BY <1>15, <2>1 DEF EndUngag, Popped, Frame
  <2>3. gaggedErrors' = gaggedErrors /\ errors' = errors - (gaggedErrors - gaggedErrors)
    BY <1>0, <1>15 DEF EndUngag
  <2> QED BY <1>0, <1>3, <1>15, <2>1, <2>2, <2>3 DEF EndUngag, TypeOK, Depth
<1>16. CASE StartProbe
  <2>1. "probe" \in FrameKind /\ Pushed("probe")
    BY <1>16, PushShape DEF StartProbe, FrameKind
  <2> QED BY <1>0, <1>2, <1>16, <2>1 DEF StartProbe, TypeOK, Depth, counters
<1>17. CASE EndProbe
  <2>1. Popped
    BY <1>17, PopShape DEF EndProbe
  <2>2. gaggedErrors' = gaggedErrors /\ errors' = errors - (gaggedErrors - gaggedErrors)
    BY <1>0, <1>17 DEF EndProbe, counters
  <2>3. answer' \in BOOLEAN
    BY <1>17 DEF EndProbe
  <2> QED BY <1>0, <1>3, <1>17, <2>1, <2>2, <2>3 DEF EndProbe, TypeOK, Depth, counters
<1>18. CASE Error
  <2>1. Kept /\ verror(gag)
    BY <1>5, <1>18 DEF Error
  <2> QED BY <1>0, <1>6, <1>18, <2>1 DEF Error, TypeOK, Depth
<1>19. CASE increaseErrorCount
  <2>1. \/ gaggedErrors' = gaggedErrors + 1 /\ errors' = errors + 1 + 0
        \/ gaggedErrors' = gaggedErrors + 0 /\ errors' = errors + 0 + 1
    BY <1>0, <1>19 DEF increaseErrorCount
  <2>2. Kept
    BY <1>5, <1>19 DEF increaseErrorCount
  <2> QED BY <1>0, <1>4, <1>19, <2>1, <2>2 DEF increaseErrorCount, TypeOK, Depth
<1>20. CASE ReuseFailedInstance
  <2>1. gaggedErrors' = gaggedErrors + 1 /\ errors' = errors + 1 + 0
    BY <1>0, <1>20 DEF ReuseFailedInstance
  <2>2. Kept
    BY <1>5, <1>20 DEF ReuseFailedInstance
  <2> QED BY <1>0, <1>4, <1>20, <2>1, <2>2 DEF ReuseFailedInstance, TypeOK, Depth
<1>21. ASSUME UNCHANGED <<errors, gag, gaggedErrors, gaggedWarnings, frames, answer, shown, rerun>>,
              warnings' \in Nat, status' \in Status
       PROVE  CountInv'
  <2>1. gaggedErrors' = gaggedErrors + 0 /\ errors' = errors + 0 + 0
    BY <1>0, <1>21
  <2> QED BY <1>0, <1>4, <1>5, <1>21, <2>1 DEF TypeOK, Depth
<1>22. CASE vwarning
  <2>1. CASE /\ warnings' = warnings + 1
             /\ UNCHANGED <<errors, gag, gaggedErrors, gaggedWarnings,
                            frames, answer, shown, rerun, status>>
    BY <1>0, <1>21, <2>1
  <2> QED BY <1>7, <1>22, <2>1 DEF vwarning
<1>23. CASE vdeprecation
  <2>1. CASE verror(gag) /\ UNCHANGED <<warnings, gag, gaggedWarnings, frames, answer, rerun>>
    BY <1>0, <1>5, <1>6, <2>1 DEF TypeOK, Depth
  <2> QED BY <1>7, <1>23, <2>1 DEF vdeprecation
<1>24. CASE CtfeRecursionLimit
  <2>1. Kept /\ verror(0)
    BY <1>5, <1>24 DEF CtfeRecursionLimit
  <2> QED BY <1>0, <1>1, <1>6, <1>24, <2>1 DEF CtfeRecursionLimit, TypeOK, Depth
<1>25. CASE RecursiveExpansion
  <2>1. gaggedErrors' = gaggedErrors + 0 /\ errors' = errors + 0 + 1
    BY <1>0, <1>25 DEF RecursiveExpansion
  <2>2. Kept
    BY <1>5, <1>25 DEF RecursiveExpansion
  <2>3. status' \in Status /\ shown' \in Nat
    BY <1>0, <1>25 DEF RecursiveExpansion, Status
  <2> QED BY <1>0, <1>1, <1>4, <1>25, <2>1, <2>2, <2>3 DEF RecursiveExpansion, TypeOK, Depth
<1>26. CASE Finish
  BY <1>0, <1>21, <1>26 DEF Finish, counters, Status
<1>27. CASE UNCHANGED vars
  BY <1>0, <1>21, <1>27 DEF vars, counters
<1> QED
  BY <1>10, <1>12, <1>13, <1>14, <1>15, <1>16, <1>17, <1>18, <1>19, <1>20,
     <1>22, <1>23, <1>24, <1>25, <1>26, <1>27 DEF Next

\* At the start nothing is counted and no scope is open.
LEMMA CountInvInit == Init => CountInv
<1> SUFFICES ASSUME Init PROVE CountInv
  OBVIOUS
<1>1. frames \in Seq(Frame) /\ Depth = 0
  BY EmptySeq DEF Init, Depth
<1>2. TypeOK
  <2>1. Len(frames) <= MaxDepth /\ 0 \in 0..GagModulus-1
    BY <1>1, BoundAssumption DEF Depth
  <2> QED BY <1>1, <2>1 DEF Init, TypeOK, Status
<1>3. SavedCountsNest
  BY <1>1 DEF Init, SavedCountsNest, GaggedAt, UngaggedAt
<1> QED BY <1>2, <1>3 DEF CountInv

\* The counters have their types: no unsigned counter but gag ever wraps.
THEOREM TypeCorrect == Spec => []TypeOK
<1>1. CountInv => TypeOK
  BY DEF CountInv
<1> QED BY <1>1, CountInvInit, CountInvInductive, PTL DEF Spec

\* The counts saved by nested scopes nest (globals.d:313-322).
THEOREM CountsNest == Spec => []SavedCountsNest
<1>1. CountInv => SavedCountsNest
  BY DEF CountInv
<1> QED BY <1>1, CountInvInit, CountInvInductive, PTL DEF Spec

(***************************************************************************)
(* What is printed.  The error limit is compared with `errors`, which      *)
(* endGagging winds back; the limit holds because a scope never takes back *)
(* an ungagged error, so what is shown stays below errors - gaggedErrors.  *)
(***************************************************************************)

ShownCounted == shown <= errors - gaggedErrors

BelowLimit == ErrorLimit # 0 => shown <= ErrorLimit /\ (Running => shown < ErrorLimit)

ReportInv == ShownCounted /\ BelowLimit /\ SuccessMeansClean

\* Every step keeps what is printed below what is counted and below the limit.
LEMMA ReportInvInductive == CountInv /\ ReportInv /\ [Next]_vars => ReportInv'
<1> SUFFICES ASSUME CountInv, ReportInv, [Next]_vars
             PROVE  ReportInv'
  OBVIOUS
<1> USE DEF ReportInv
<1>0. /\ errors \in Nat /\ gaggedErrors \in Nat /\ shown \in Nat /\ warnings \in Nat
      /\ ErrorLimit \in Nat /\ Running \in BOOLEAN
  BY ErrorLimitAssumption DEF CountInv, TypeOK, Running
<1>1. ASSUME UNCHANGED <<errors, gaggedErrors, shown, warnings, status>>
      PROVE  ReportInv'
  BY <1>1 DEF ShownCounted, BelowLimit, SuccessMeansClean, Running
<1>2. ASSUME Running, NEW g, verror(g), warnings' = warnings
      PROVE  ReportInv'
  <2>1. CASE g # 0
    <3>1. /\ errors' = errors + 1 /\ gaggedErrors' = gaggedErrors + 1
          /\ shown' = shown /\ status' = status
      BY <1>2, <2>1 DEF verror
    <3>2. ShownCounted'
      BY <1>0, <3>1 DEF ShownCounted
    <3> QED BY <1>2, <3>1, <3>2 DEF BelowLimit, SuccessMeansClean, Running
  <2>2. CASE g = 0
    <3>1. /\ errors' = errors + 1 /\ gaggedErrors' = gaggedErrors /\ shown' = shown + 1
          /\ status' = IF ErrorLimit # 0 /\ errors + 1 >= ErrorLimit THEN "failed" ELSE status
      BY <1>2, <2>2 DEF verror
    <3>2. ShownCounted'
      BY <1>0, <3>1 DEF ShownCounted
    <3>3. BelowLimit'
      <4>1. ErrorLimit # 0 => shown + 1 <= ErrorLimit
        BY <1>0, <1>2 DEF BelowLimit
      <4>2. status' = "running" /\ ErrorLimit # 0 => shown + 1 < ErrorLimit
        BY <1>0, <3>1 DEF ShownCounted
      <4> QED BY <3>1, <4>1, <4>2 DEF BelowLimit, Running
    <3>4. SuccessMeansClean'
      BY <1>2, <3>1 DEF SuccessMeansClean, Running
    <3> QED BY <3>2, <3>3, <3>4
  <2> QED BY <2>1, <2>2
<1>3. ASSUME NEW k, EndGaggingOf(k)
      PROVE  ReportInv'
  <2>1. Top.gaggedErrors \in Nat
    BY <1>3, FrameTypes, PopShape DEF EndGaggingOf, CountInv, Popped
  <2>2. /\ errors' = errors - (gaggedErrors - Top.gaggedErrors)
        /\ gaggedErrors' = Top.gaggedErrors /\ shown' = shown
        /\ status' = status /\ warnings' = warnings
    BY <1>3 DEF EndGaggingOf
  <2>3. ShownCounted'
    BY <1>0, <2>1, <2>2 DEF ShownCounted
  <2> QED BY <2>2, <2>3 DEF BelowLimit, SuccessMeansClean, Running
<1>4. CASE increaseErrorCount
  <2>1. /\ errors' = errors + 1
        /\ gaggedErrors' = gaggedErrors \/ gaggedErrors' = gaggedErrors + 1
        /\ shown' = shown /\ status' = status /\ warnings' = warnings
    BY <1>4 DEF increaseErrorCount
  <2>2. ShownCounted'
    <3>1. CASE gaggedErrors' = gaggedErrors
      BY <1>0, <2>1, <3>1 DEF ShownCounted
    <3>2. CASE gaggedErrors' = gaggedErrors + 1
      BY <1>0, <2>1, <3>2 DEF ShownCounted
    <3> QED BY <2>1, <3>1, <3>2
  <2> QED BY <2>1, <2>2 DEF BelowLimit, SuccessMeansClean, Running
<1>5. CASE ReuseFailedInstance
  <2>1. /\ errors' = errors + 1 /\ gaggedErrors' = gaggedErrors + 1
        /\ shown' = shown /\ status' = status /\ warnings' = warnings
    BY <1>5 DEF ReuseFailedInstance
  <2>2. ShownCounted'
    BY <1>0, <2>1 DEF ShownCounted
  <2> QED BY <2>1, <2>2 DEF BelowLimit, SuccessMeansClean, Running
<1>6. ASSUME UNCHANGED <<errors, gaggedErrors, shown, status>>, Running
      PROVE  ReportInv'
  BY <1>6 DEF ShownCounted, BelowLimit, SuccessMeansClean, Running
<1>7. CASE RecursiveExpansion
  <2>1. /\ errors' = errors + 1 /\ gaggedErrors' = gaggedErrors /\ shown' = shown + 1
        /\ status' = "failed"
    BY <1>7 DEF RecursiveExpansion
  <2>2. ShownCounted'
    BY <1>0, <2>1 DEF ShownCounted
  <2>3. ErrorLimit # 0 => shown + 1 <= ErrorLimit
    BY <1>0, <1>7 DEF BelowLimit, RecursiveExpansion
  <2> QED BY <2>1, <2>2, <2>3 DEF BelowLimit, SuccessMeansClean, Running
<1>8. CASE Finish
  <2>1. /\ errors' = errors /\ gaggedErrors' = gaggedErrors /\ shown' = shown
        /\ warnings' = warnings /\ status' # "running"
        /\ status' = "succeeded" => errors = 0 /\ warnings = 0
    BY <1>8 DEF Finish, counters
  <2>2. SuccessMeansClean'
    BY <1>0, <2>1 DEF SuccessMeansClean, ShownCounted
  <2> QED BY <2>1, <2>2 DEF ShownCounted, BelowLimit, Running
<1> QED
  BY <1>1, <1>2, <1>3, <1>4, <1>5, <1>6, <1>7, <1>8
     DEF Next, StartGagging, EndGagging, EndTrySemantic, StartUngag, EndUngag, StartProbe,
         EndProbe, Error, vwarning, vdeprecation, GagWarning, CtfeRecursionLimit, vars, counters

\* At the start nothing is printed and the limit is not reached.
LEMMA ReportInvInit == Init => ReportInv
  BY ErrorLimitAssumption
     DEF Init, ReportInv, ShownCounted, BelowLimit, SuccessMeansClean, Running

\* No more messages than the error limit are printed (errors.d:281).
THEOREM LimitRespected == Spec => []ErrorLimitRespected
<1>1. ReportInv => ErrorLimitRespected
  BY DEF ReportInv, BelowLimit, ErrorLimitRespected
<1> QED BY <1>1, CountInvInit, CountInvInductive, ReportInvInit, ReportInvInductive, PTL DEF Spec

\* A compilation that printed an error does not succeed (mars.d:739).
THEOREM SuccessIsClean == Spec => []SuccessMeansClean
<1>1. ReportInv => SuccessMeansClean
  BY DEF ReportInv
<1> QED BY <1>1, CountInvInit, CountInvInductive, ReportInvInit, ReportInvInductive, PTL DEF Spec

(***************************************************************************)
(* gag is what the open scopes say.  A gag scope adds one to the gag it    *)
(* found, an ungag keeps or clears it, a probe keeps it; so endGagging's   *)
(* --gag restores it.  CTFE's recursion limit (dinterpret.d:961) clears    *)
(* gag without a scope and is excluded: with it the property fails.        *)
(***************************************************************************)

GagAt(k) == IF k <= Depth THEN frames[k].gag ELSE gag

ScopeStep(kind, from, to) ==
    /\ kind \in GagKind => to = from + 1
    /\ kind = "ungag" => to = 0 \/ to = from
    /\ kind = "probe" => to = from

GagInv == Running =>
    /\ \A k \in 1..Depth : ScopeStep(frames[k].kind, GagAt(k), GagAt(k + 1))
    /\ \A k \in 1..Depth+1 : GagAt(k) \in 0..k-1

\* Opening a scope that changes gag as its kind allows keeps GagInv.
LEMMA PushGag ==
    ASSUME TypeOK, GagInv, Running, NEW k \in FrameKind, Pushed(k), Depth < MaxDepth,
           NEW n \in Nat, gag' = n, n <= gag + 1, ScopeStep(k, gag, n)
    PROVE  GagInv'
<1>1. /\ Depth \in Nat /\ Depth' = Depth + 1
      /\ \A i \in 1..Depth : frames'[i] = frames[i]
      /\ frames'[Depth + 1] = Entered(k)
  BY FrameTypes DEF Pushed
<1>2. /\ \A i \in 1..Depth : ScopeStep(frames[i].kind, GagAt(i), GagAt(i + 1))
      /\ \A i \in 1..Depth+1 : GagAt(i) \in 0..i-1
  BY DEF GagInv
<1>3. GagAt(Depth + 1) = gag /\ gag \in 0..Depth
  BY <1>1, <1>2 DEF GagAt
<1>4. \A i \in 1..Depth : GagAt(i)' = GagAt(i)
  BY <1>1 DEF GagAt
<1>5. \A i : i = Depth + 1 => GagAt(i)' = gag
  BY <1>1 DEF GagAt, Entered
<1>6. \A i : i = Depth + 2 => GagAt(i)' = n
  BY <1>1 DEF GagAt
<1>7. ASSUME NEW i \in 1..Depth'
      PROVE  ScopeStep(frames'[i].kind, GagAt(i)', GagAt(i + 1)')
  <2>1. CASE i \in 1..Depth-1
    <3>1. GagAt(i)' = GagAt(i) /\ GagAt(i + 1)' = GagAt(i + 1) /\ frames'[i] = frames[i]
      BY <1>1, <1>4, <2>1
    <3> QED BY <1>1, <1>2, <2>1, <3>1
  <2>2. CASE i = Depth /\ i \in 1..Depth
    <3>1. /\ GagAt(i)' = GagAt(i) /\ GagAt(i + 1)' = gag /\ gag = GagAt(i + 1)
          /\ frames'[i] = frames[i]
      BY <1>1, <1>3, <1>4, <1>5, <2>2
    <3> QED BY <1>2, <2>2, <3>1
  <2>3. CASE i = Depth + 1
    <3>1. GagAt(i)' = gag /\ GagAt(i + 1)' = n /\ frames'[i].kind = k
      BY <1>1, <1>5, <1>6, <2>3 DEF Entered
    <3> QED BY <3>1
  <2> QED BY <1>1, <2>1, <2>2, <2>3
<1>8. ASSUME NEW i \in 1..Depth'+1
      PROVE  GagAt(i)' \in 0..i-1
  <2>1. CASE i \in 1..Depth
    BY <1>1, <1>2, <1>4, <2>1
  <2>2. CASE i = Depth + 1
    BY <1>1, <1>3, <1>5, <2>2
  <2>3. CASE i = Depth + 2
    BY <1>1, <1>3, <1>6, <2>3
  <2> QED BY <1>1, <2>1, <2>2, <2>3
<1> QED BY <1>7, <1>8 DEF GagInv

\* Closing a scope and putting its gag back keeps GagInv.
LEMMA PopGag ==
    ASSUME TypeOK, GagInv, Running, Popped, gag' = Top.gag
    PROVE  GagInv'
<1>1. /\ Depth \in Nat /\ Depth' = Depth - 1 /\ Depth >= 1
      /\ \A i \in 1..Depth-1 : frames'[i] = frames[i]
      /\ Top = frames[Depth]
  BY FrameTypes DEF Popped
<1>2. /\ \A i \in 1..Depth : ScopeStep(frames[i].kind, GagAt(i), GagAt(i + 1))
      /\ \A i \in 1..Depth+1 : GagAt(i) \in 0..i-1
  BY DEF GagInv
<1>3. ASSUME NEW i \in 1..Depth PROVE GagAt(i)' = GagAt(i)
  <2>1. CASE i \in 1..Depth-1
    BY <1>1, <2>1 DEF GagAt
  <2>2. CASE i = Depth
    BY <1>1, <2>2 DEF GagAt
  <2> QED BY <1>1, <2>1, <2>2
<1>4. ASSUME NEW i \in 1..Depth'
      PROVE  ScopeStep(frames'[i].kind, GagAt(i)', GagAt(i + 1)')
  <2>1. GagAt(i)' = GagAt(i) /\ GagAt(i + 1)' = GagAt(i + 1) /\ frames'[i] = frames[i]
    BY <1>1, <1>3
  <2> QED BY <1>1, <1>2, <2>1
<1>5. ASSUME NEW i \in 1..Depth'+1 PROVE GagAt(i)' \in 0..i-1
  BY <1>1, <1>2, <1>3
<1> QED BY <1>4, <1>5 DEF GagInv

\* A step that leaves the scopes and gag alone keeps GagInv.
LEMMA KeepGag ==
    ASSUME TypeOK, GagInv, Running, Kept, gag' = gag
    PROVE  GagInv'
<1>1. Depth \in Nat /\ Depth' = Depth
  BY FrameTypes DEF Kept
<1>2. ASSUME NEW i \in 1..Depth+1 PROVE GagAt(i)' = GagAt(i)
  BY <1>1 DEF GagAt, Kept
<1>3. \A i \in 1..Depth : frames'[i].kind = frames[i].kind
  BY DEF Kept
<1>4. ASSUME NEW i \in 1..Depth'
      PROVE  ScopeStep(frames'[i].kind, GagAt(i)', GagAt(i + 1)')
  <2>1. GagAt(i)' = GagAt(i) /\ GagAt(i + 1)' = GagAt(i + 1)
    BY <1>1, <1>2
  <2> QED BY <1>1, <1>3, <2>1 DEF GagInv
<1>5. ASSUME NEW i \in 1..Depth'+1 PROVE GagAt(i)' \in 0..i-1
  BY <1>1, <1>2 DEF GagInv
<1> QED BY <1>4, <1>5 DEF GagInv

\* What the innermost scope found and left, by its kind
LEMMA TopGag ==
    ASSUME TypeOK, GagInv, Running, Depth > 0
    PROVE  /\ Top.kind \in GagKind => GagDec = Top.gag
           /\ Top.kind = "probe" => gag = Top.gag
<1>1. /\ Depth \in Nat /\ Depth \in 1..Depth /\ Top = frames[Depth]
      /\ Top.gag \in 0..GagModulus-1 /\ GagModulus \in Nat
  BY FrameTypes, BoundAssumption DEF Top, Frame
<1>2. GagAt(Depth) = Top.gag /\ GagAt(Depth + 1) = gag
  BY <1>1 DEF GagAt
<1>3. ScopeStep(Top.kind, Top.gag, gag)
  BY <1>1, <1>2 DEF GagInv
<1> QED BY <1>1, <1>3 DEF ScopeStep, GagDec, GagKind

\* Every step keeps GagInv if CTFE does not reach its recursion limit.
LEMMA GagInvInductive ==
    ASSUME ~CtfeLimitHit, CountInv, GagInv, [Next]_vars
    PROVE  GagInv'
<1>0. /\ TypeOK /\ gag \in 0..GagModulus-1 /\ MaxDepth \in Nat
      /\ GagModulus \in Nat /\ GagModulus > MaxDepth + 1 /\ Depth \in 0..MaxDepth
  BY BoundAssumption, FrameTypes DEF CountInv, TypeOK
<1>1. Running => gag <= Depth
  BY <1>0 DEF GagInv, GagAt
<1>2. ASSUME Running, UNCHANGED <<frames, gag>> PROVE GagInv'
  BY <1>0, <1>2, SameShape, KeepGag
<1>3. ASSUME Running, GagWarning PROVE GagInv'
  BY <1>0, <1>3, WarnShape, KeepGag DEF GagWarning
<1>4. CASE \E k \in GagKind : StartGagging(k)
  <2> SUFFICES ASSUME NEW k \in GagKind, StartGagging(k) PROVE GagInv'
    BY <1>4
  <2>1. /\ Running /\ k \in FrameKind /\ Depth < MaxDepth
        /\ frames' = Append(frames, Entered(k)) /\ gag' = GagInc
    BY DEF StartGagging, FrameKind
  <2>2. GagInc = gag + 1 /\ gag + 1 \in Nat
    BY <1>0, <1>1, <2>1 DEF GagInc
  <2>3. Pushed(k)
    BY <1>0, <2>1, PushShape
  <2>4. ScopeStep(k, gag, gag + 1)
    BY DEF ScopeStep, GagKind
  <2>5. gag' = gag + 1 /\ gag + 1 <= gag + 1
    BY <1>0, <2>1, <2>2
  <2> QED BY <1>0, <2>1, <2>2, <2>3, <2>4, <2>5, PushGag
<1>5. ASSUME NEW k \in GagKind, EndGaggingOf(k) PROVE GagInv'
  BY <1>0, <1>5, PopShape, PopGag, TopGag DEF EndGaggingOf
<1>6. CASE \E lift \in BOOLEAN : StartUngag(lift)
  <2> SUFFICES ASSUME NEW lift \in BOOLEAN, StartUngag(lift) PROVE GagInv'
    BY <1>6
  <2>1. /\ Running /\ "ungag" \in FrameKind /\ Depth < MaxDepth
        /\ frames' = Append(frames, Entered("ungag"))
        /\ gag' = 0 \/ gag' = gag
    BY DEF StartUngag, FrameKind
  <2>2. Pushed("ungag")
    BY <1>0, <2>1, PushShape
  <2>3. ScopeStep("ungag", gag, 0) /\ ScopeStep("ungag", gag, gag)
    BY DEF ScopeStep, GagKind
  <2>4. CASE gag' = 0
    <3>1. 0 \in Nat /\ 0 <= gag + 1
      BY <1>0
    <3> QED BY <1>0, <2>1, <2>2, <2>3, <2>4, <3>1, PushGag
  <2>5. CASE gag' = gag
    <3>1. gag \in Nat /\ gag <= gag + 1
      BY <1>0
    <3> QED BY <1>0, <2>1, <2>2, <2>3, <2>5, <3>1, PushGag
  <2> QED BY <2>1, <2>4, <2>5
<1>7. CASE EndUngag
  BY <1>0, <1>7, PopShape, PopGag DEF EndUngag
<1>8. CASE StartProbe
  <2>1. /\ Running /\ "probe" \in FrameKind /\ Depth < MaxDepth
        /\ frames' = Append(frames, Entered("probe")) /\ gag' = gag
    BY <1>8 DEF StartProbe, FrameKind, counters
  <2>2. Pushed("probe")
    BY <1>0, <2>1, PushShape
  <2>3. ScopeStep("probe", gag, gag) /\ gag \in Nat /\ gag <= gag + 1
    BY <1>0 DEF ScopeStep, GagKind
  <2> QED BY <1>0, <2>1, <2>2, <2>3, PushGag
<1>9. CASE EndProbe
  BY <1>0, <1>9, PopShape, PopGag, TopGag DEF EndProbe, counters
<1>10. CASE RecursiveExpansion
  BY <1>10 DEF RecursiveExpansion, GagInv, Running
<1>11. CASE Finish
  <2>1. status' # "running"
    BY <1>11 DEF Finish
  <2> QED BY <2>1 DEF GagInv, Running
<1>12. CASE UNCHANGED vars
  BY <1>2, <1>12 DEF vars, counters, GagInv, Running
<1> QED
  BY <1>2, <1>3, <1>4, <1>5, <1>6, <1>7, <1>8, <1>9, <1>10, <1>11, <1>12
     DEF Next, GagKind, EndGagging, EndTrySemantic, Error, increaseErrorCount, ReuseFailedInstance,
         vwarning, vdeprecation, CtfeRecursionLimit

\* Without the recursion limit, endGagging restores the gag that the matching
\* startGagging found (globals.d:303, 313), whatever ran in between.
THEOREM GagRestored ==
    ASSUME ~CtfeLimitHit
    PROVE  Spec => EndGaggingRestoresGag
<1>1. Init => GagInv
  <2> SUFFICES ASSUME Init PROVE GagInv
    OBVIOUS
  <2>1. Depth = 0 /\ gag = 0
    BY EmptySeq DEF Init, Depth
  <2> QED BY <2>1 DEF GagInv, GagAt
<1>2. CountInv /\ GagInv /\ [Next]_vars => GagInv'
  BY GagInvInductive
<1>3. CountInv /\ GagInv => [\A k \in GagKind : EndGaggingOf(k) => gag' = Top.gag]_vars
  BY TopGag DEF CountInv, EndGaggingOf
<1> QED
  BY <1>1, <1>2, <1>3, CountInvInit, CountInvInductive, PTL DEF Spec, EndGaggingRestoresGag
=============================================================================
