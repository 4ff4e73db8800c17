---------------------- MODULE TemplateInstancesProofs ----------------------
(* Proofs about TemplateInstances, for every set of templates, symbols and  *)
(* modules, every nesting limit and every program.                          *)
EXTENDS TemplateInstances, SequenceTheorems, FiniteSetTheorems, TLAPS

(***************************************************************************)
(* The calls in progress.  What is said of the stack is said of a sequence  *)
(* s of frames, given the instances I, the members mem of the modules, the   *)
(* progress sem of the modules, and the counters g and e of gagging and of   *)
(* gagged errors: so it can be said of the stack without its top, too.      *)
(***************************************************************************)

FrameSet ==
    [proc : {"module", "symbol", "instance", "pass", "deferred", "trial", "check"},
     of : Mod \cup Symbol \cup Template \cup Nat, pass : 0..3,
     pc : {"enter", "members", "instances", "initialized", "collected", "enlist",
           "after", "next", "end"},
     i : Nat \ {0}, mode : Mode, tinst : Nat, root : BOOLEAN, func : BOOLEAN, gag : Nat,
     errors : Nat, gaggedErrors : Nat, errinst : Nat, index : Nat]

\* The instance of this frame has been made.
Made(f) == f.proc = "instance" /\ f.pc # "enter"

\* What a frame may be, by its kind.
FrameOK(f, I) ==
    /\ f \in FrameSet /\ f.proc # "check"
    /\ f.proc = "module" => /\ f.of \in Mod /\ f.pass \in 1..3
                            /\ f.pc \in {"enter", "members", "instances"}
    /\ f.proc = "symbol" => f.of \in Symbol /\ f.pass = 1 /\ f.pc = "members"
    /\ f.proc = "instance" => /\ f.pass = 1 /\ f.tinst \in 0..Len(I)
                              /\ f.pc \in {"enter", "members", "initialized", "collected",
                                           "enlist", "after"}
                              /\ f.pc = "enter" => f.of \in Template
    /\ Made(f) => /\ f.of \in 1..Len(I) /\ f.errinst \in 0..Len(I)
                  /\ f.errinst # 0 => I[f.errinst].errors
    /\ f.proc = "pass" => /\ f.of \in 1..Len(I) /\ f.pass \in {2, 3}
                          /\ f.pc \in {"enter", "members", "end"} /\ f.gag \in {0, 1}
                          /\ f.pc = "enter" => f.gag = 0
    /\ f.proc = "deferred" => f.pass \in {2, 3} /\ f.pc \in {"enter", "next"}
    /\ f.proc = "trial" => f.pc = "end" /\ f.tinst \in 0..Len(I)

\* A frame that started gagging and will end it.
Gags(f) == f.proc = "trial" \/ (f.proc = "pass" /\ f.gag = 1)

\* How a frame sets the level of gagging, which is `below` without it.
LevelStep(f, g, below) ==
    IF f.proc = "trial" THEN g = below + 1
    ELSE IF f.proc = "symbol" THEN g = 0 /\ f.gag = below
    ELSE IF f.proc = "pass" /\ f.gag = 1 THEN g = 1 /\ below = 0
    ELSE g = below

HomeOf(n, I) == Home[I[n].key]

\* How a frame f relates to those below it, s.
Fits(f, s, I, mem, sem, g, below, e) ==
    /\ FrameOK(f, I)
    /\ g \in Nat /\ LevelStep(f, g, below)
    /\ Gags(f) => /\ f.gaggedErrors <= e
                  /\ \A k \in 1..Len(s) : Gags(s[k]) => s[k].gaggedErrors <= f.gaggedErrors
    /\ Made(f) => /\ f.index \in 1..Len(mem[HomeOf(f.of, I)])
                  /\ mem[HomeOf(f.of, I)][f.index] = f.of
                  /\ \A k \in 1..Len(s) :
                        Made(s[k]) /\ HomeOf(s[k].of, I) = HomeOf(f.of, I)
                          => s[k].index < f.index
    /\ f.proc = "module" => /\ s = <<>>
                            /\ f.pc # "enter" => sem[f.of] = PassRun(f.pass)

\* The levels of gagging under the frames of s, level[0] below all of them.
IsLevels(level, s, g) ==
    /\ level \in [Nat -> Nat] /\ level[0] = 0 /\ level[Len(s)] = g
    /\ \A k \in 1..Len(s) : LevelStep(s[k], level[Len(s) - k + 1], level[Len(s) - k])

Levels(s, g) == \E level : IsLevels(level, s, g)

\* The counts saved for the ends of gagging nest.
SavedNest(s, e) ==
    /\ \A k \in 1..Len(s) : Gags(s[k]) => s[k].gaggedErrors <= e
    /\ \A j, k \in 1..Len(s) :
          j < k /\ Gags(s[j]) /\ Gags(s[k]) => s[k].gaggedErrors <= s[j].gaggedErrors

\* The instances being made are where they were appended, the later made ones
\* further back.
Placed(s, I, mem) ==
    \A k \in 1..Len(s) : Made(s[k]) =>
        /\ s[k].index \in 1..Len(mem[HomeOf(s[k].of, I)])
        /\ mem[HomeOf(s[k].of, I)][s[k].index] = s[k].of

PlacesNest(s, I) ==
    \A j, k \in 1..Len(s) :
        j < k /\ Made(s[j]) /\ Made(s[k]) /\ HomeOf(s[k].of, I) = HomeOf(s[j].of, I)
          => s[k].index < s[j].index

\* A pass over a module is called by the driver only.
ModuleLast(s, sem) ==
    \A k \in 1..Len(s) : s[k].proc = "module" =>
        /\ k = Len(s)
        /\ s[k].pc # "enter" => sem[s[k].of] = PassRun(s[k].pass)

StackOK(s, I, mem, sem, g, e) ==
    /\ s \in Seq(FrameSet)
    /\ \A k \in 1..Len(s) : FrameOK(s[k], I)
    /\ Levels(s, g)
    /\ SavedNest(s, e)
    /\ Placed(s, I, mem) /\ PlacesNest(s, I)
    /\ ModuleLast(s, sem)

\* A frame on top of a sequence of frames.
LEMMA PushSeq ==
    ASSUME NEW S, NEW s \in Seq(S), NEW f \in S
    PROVE  /\ <<f>> \o s \in Seq(S) /\ Len(<<f>> \o s) = Len(s) + 1 /\ Len(s) \in Nat
           /\ (<<f>> \o s)[1] = f /\ <<f>> \o s # <<>>
           /\ \A k \in 1..Len(s) : (<<f>> \o s)[k + 1] = s[k]
           /\ \A k \in 1..Len(s) + 1 : k = 1 \/ (k - 1 \in 1..Len(s) /\ (<<f>> \o s)[k] = s[k - 1])
           /\ Head(<<f>> \o s) = f /\ Tail(<<f>> \o s) = s
<1>1. <<f>> \in Seq(S) /\ Len(<<f>>) = 1 /\ <<f>>[1] = f
  OBVIOUS
<1>2. Len(s) \in Nat
  BY LenProperties
<1> DEFINE t == <<f>> \o s
<1>3. /\ t \in Seq(S) /\ Len(t) = 1 + Len(s)
      /\ \A i \in 1..1 + Len(s) : t[i] = IF i <= 1 THEN <<f>>[i] ELSE s[i - 1]
  BY <1>1, ConcatProperties
<1>4. t[1] = f
  BY <1>1, <1>2, <1>3
<1>5. \A k \in 1..Len(s) : t[k + 1] = s[k]
  <2> TAKE k \in 1..Len(s)
  <2>1. k + 1 \in 1..1 + Len(s) /\ ~(k + 1 <= 1) /\ (k + 1) - 1 = k
    BY <1>2
  <2> QED BY <1>3, <2>1
<1>6. \A k \in 1..Len(s) + 1 : k = 1 \/ (k - 1 \in 1..Len(s) /\ t[k] = s[k - 1])
  <2> TAKE k \in 1..Len(s) + 1
  <2>1. k = 1 \/ (k - 1 \in 1..Len(s) /\ (k - 1) + 1 = k)
    BY <1>2
  <2> QED BY <1>5, <2>1
<1> HIDE DEF t
<1>7. t # <<>>
  BY <1>2, <1>3
<1>8. Head(t) = f
  BY <1>4, <1>7 DEF t
<1>9. Tail(t) = s
  <2>1. Tail(t) \in Seq(S) /\ Len(Tail(t)) = Len(t) - 1 /\ \A i \in 1..Len(Tail(t)) : Tail(t)[i] = t[i + 1]
    BY <1>3, <1>7, HeadTailProperties
  <2>2. Len(Tail(t)) = Len(s) /\ \A i \in 1..Len(s) : Tail(t)[i] = s[i]
    BY <1>2, <1>3, <1>5, <2>1
  <2> QED BY <2>1, <2>2, SeqEqual
<1> QED BY <1>2, <1>3, <1>4, <1>5, <1>6, <1>7, <1>8, <1>9 DEF t

\* The top of a stack that is not empty, and the rest of it.
LEMMA PopSeq ==
    ASSUME NEW S, NEW s \in Seq(S), s # <<>>
    PROVE  /\ Head(s) \in S /\ Head(s) = s[1] /\ Tail(s) \in Seq(S)
           /\ Len(s) \in Nat \ {0} /\ Len(Tail(s)) = Len(s) - 1
           /\ \A k \in 1..Len(s) - 1 : Tail(s)[k] = s[k + 1] /\ k + 1 \in 1..Len(s)
<1>1. Len(s) \in Nat \ {0} /\ 1 \in 1..Len(s)
  BY EmptySeq, LenProperties
<1>2. Head(s) = s[1] /\ s[1] \in S
  BY <1>1, ElementOfSeq
<1> QED BY <1>1, <1>2, HeadTailProperties

\* Without the top, the rest is a stack in order and the top fits on it.
LEMMA Rest ==
    ASSUME NEW s, NEW I, NEW mem, NEW sem, NEW g, NEW e,
           StackOK(s, I, mem, sem, g, e), s # <<>>
    PROVE  \E below \in Nat :
              /\ StackOK(Tail(s), I, mem, sem, below, e)
              /\ Fits(Head(s), Tail(s), I, mem, sem, g, below, e)
<1> DEFINE t == Tail(s)
           f == Head(s)
<1>1. /\ s \in Seq(FrameSet) /\ f = s[1] /\ t \in Seq(FrameSet)
      /\ Len(s) \in Nat \ {0} /\ Len(t) = Len(s) - 1 /\ 1 \in 1..Len(s)
      /\ \A k \in 1..Len(t) : t[k] = s[k + 1] /\ k + 1 \in 1..Len(s) /\ 1 < k + 1
  BY PopSeq DEF StackOK
<1> HIDE DEF t, f
<1>2. PICK level : IsLevels(level, s, g)
  BY DEF StackOK, Levels
<1>3. g \in Nat /\ level[Len(s) - 1] \in Nat /\ LevelStep(f, g, level[Len(s) - 1])
  <2>1. LevelStep(s[1], level[Len(s) - 1 + 1], level[Len(s) - 1])
    BY <1>1, <1>2 DEF IsLevels
  <2>2. Len(s) - 1 + 1 = Len(s) /\ Len(s) - 1 \in Nat
    BY <1>1
  <2> QED BY <1>1, <1>2, <2>1, <2>2 DEF IsLevels
<1> DEFINE below == level[Len(s) - 1]
<1>4. Levels(t, below)
  <2>1. ASSUME NEW k \in 1..Len(t)
        PROVE  LevelStep(t[k], level[Len(t) - k + 1], level[Len(t) - k])
    <3>1. LevelStep(s[k+1], level[Len(s) - (k + 1) + 1], level[Len(s) - (k + 1)])
      BY <1>1, <1>2 DEF IsLevels
    <3>2. Len(s) - (k + 1) + 1 = Len(t) - k + 1 /\ Len(s) - (k + 1) = Len(t) - k
      BY <1>1
    <3> QED BY <1>1, <3>1, <3>2
  <2>2. IsLevels(level, t, below)
    BY <1>1, <1>2, <2>1 DEF IsLevels
  <2> QED BY <2>2 DEF Levels
<1> HIDE DEF below
<1>5. StackOK(t, I, mem, sem, below, e)
  <2>1. \A j, k \in 1..Len(t) : j < k => j + 1 < k + 1
    BY <1>1
  <2>2. \A k \in 1..Len(t) : k + 1 = Len(s) => k = Len(t)
    BY <1>1
  <2>3. \A k \in 1..Len(t) : FrameOK(t[k], I)
    BY <1>1 DEF StackOK
  <2>4. SavedNest(t, e)
    BY <1>1, <2>1 DEF StackOK, SavedNest
  <2>5. Placed(t, I, mem)
    BY <1>1 DEF StackOK, Placed
  <2>6. PlacesNest(t, I)
    <3> SUFFICES ASSUME NEW j \in 1..Len(t), NEW k \in 1..Len(t), j < k, Made(t[j]), Made(t[k]),
                        HomeOf(t[k].of, I) = HomeOf(t[j].of, I)
                 PROVE  t[k].index < t[j].index
      BY DEF PlacesNest
    <3>1. /\ j + 1 \in 1..Len(s) /\ k + 1 \in 1..Len(s) /\ j + 1 < k + 1
          /\ t[j] = s[j + 1] /\ t[k] = s[k + 1]
      BY <1>1, <2>1
    <3> QED BY <3>1 DEF StackOK, PlacesNest
  <2>7. ModuleLast(t, sem)
    BY <1>1, <2>2 DEF StackOK, ModuleLast
  <2> QED BY <1>1, <1>4, <2>3, <2>4, <2>5, <2>6, <2>7 DEF StackOK
<1>6. Fits(f, t, I, mem, sem, g, below, e)
  <2>1. FrameOK(f, I)
    BY <1>1 DEF StackOK
  <2>2. Gags(f) => /\ f.gaggedErrors <= e
                   /\ \A k \in 1..Len(t) : Gags(t[k]) => t[k].gaggedErrors <= f.gaggedErrors
    BY <1>1 DEF StackOK, SavedNest
  <2>3. Made(f) => /\ f.index \in 1..Len(mem[HomeOf(f.of, I)])
                   /\ mem[HomeOf(f.of, I)][f.index] = f.of
    BY <1>1 DEF StackOK, Placed
  <2>4. ASSUME Made(f), NEW k \in 1..Len(t), Made(t[k]), HomeOf(t[k].of, I) = HomeOf(f.of, I)
        PROVE  t[k].index < f.index
    BY <1>1, <2>4 DEF StackOK, PlacesNest
  <2>5. f.proc = "module" => t = <<>> /\ (f.pc # "enter" => sem[f.of] = PassRun(f.pass))
    <3>1. ASSUME f.proc = "module" PROVE Len(s) = 1 /\ (f.pc # "enter" => sem[f.of] = PassRun(f.pass))
      BY <1>1, <3>1 DEF StackOK, ModuleLast
    <3>2. Len(s) = 1 => t = <<>>
      BY <1>1, EmptySeq
    <3> QED BY <3>1, <3>2
  <2> QED BY <1>3, <2>1, <2>2, <2>3, <2>4, <2>5 DEF Fits, below
<1> QED BY <1>3, <1>5, <1>6 DEF t, f, below

\* A frame that fits on a stack in order makes one in order.
LEMMA Push ==
    ASSUME NEW s, NEW I, NEW mem, NEW sem, NEW g, NEW below, NEW e, NEW f,
           StackOK(s, I, mem, sem, below, e), Fits(f, s, I, mem, sem, g, below, e)
    PROVE  StackOK(<<f>> \o s, I, mem, sem, g, e)
<1> DEFINE t == <<f>> \o s
<1>1. s \in Seq(FrameSet) /\ f \in FrameSet /\ FrameOK(f, I) /\ g \in Nat
  BY DEF StackOK, Fits, FrameOK
<1>2. /\ t \in Seq(FrameSet) /\ Len(t) = Len(s) + 1 /\ Len(s) \in Nat /\ t[1] = f
      /\ \A k \in 1..Len(s) : t[k + 1] = s[k]
      /\ \A k \in 1..Len(t) : k = 1 \/ (k - 1 \in 1..Len(s) /\ t[k] = s[k - 1])
  BY <1>1, PushSeq
<1> HIDE DEF t
<1>3. Levels(t, g)
  <2>1. PICK level : IsLevels(level, s, below)
    BY DEF StackOK, Levels
  <2> DEFINE more == [level EXCEPT ![Len(s) + 1] = g]
  <2>2. /\ more \in [Nat -> Nat] /\ more[Len(s) + 1] = g /\ more[0] = 0
        /\ \A n \in Nat : n # Len(s) + 1 => more[n] = level[n]
    <3>1. Len(s) + 1 \in Nat /\ 0 # Len(s) + 1 /\ level \in [Nat -> Nat] /\ level[0] = 0
      BY <1>2, <2>1 DEF IsLevels
    <3> QED BY <1>1, <3>1
  <2> HIDE DEF more
  <2>3. ASSUME NEW k \in 1..Len(t)
        PROVE  LevelStep(t[k], more[Len(t) - k + 1], more[Len(t) - k])
    <3>1. CASE k = 1
      <4>1. Len(t) - k + 1 = Len(s) + 1 /\ Len(t) - k = Len(s) /\ Len(s) \in Nat /\ Len(s) # Len(s) + 1
        BY <1>2, <3>1
      <4>2. more[Len(s)] = below /\ more[Len(s) + 1] = g
        BY <2>1, <2>2, <4>1 DEF IsLevels
      <4>3. LevelStep(f, g, below) /\ t[k] = f
        BY <1>2, <3>1 DEF Fits
      <4> QED BY <4>1, <4>2, <4>3
    <3>2. CASE k - 1 \in 1..Len(s) /\ t[k] = s[k - 1]
      <4>1. LevelStep(s[k-1], level[Len(s) - (k - 1) + 1], level[Len(s) - (k - 1)])
        BY <2>1, <3>2 DEF IsLevels
      <4>2. /\ Len(s) - (k - 1) + 1 = Len(t) - k + 1 /\ Len(s) - (k - 1) = Len(t) - k
            /\ Len(t) - k + 1 \in Nat /\ Len(t) - k \in Nat
            /\ Len(t) - k + 1 # Len(s) + 1 /\ Len(t) - k # Len(s) + 1
        BY <1>2, <3>2
      <4> QED BY <2>2, <3>2, <4>1, <4>2
    <3> QED BY <1>2, <3>1, <3>2
  <2>4. IsLevels(more, t, g)
    BY <1>2, <2>2, <2>3 DEF IsLevels
  <2> QED BY <2>4 DEF Levels
<1>4. \A k \in 1..Len(t) : FrameOK(t[k], I)
  BY <1>1, <1>2 DEF StackOK
<1>5. \A j, k \in 1..Len(t) : j < k =>
         /\ k - 1 \in 1..Len(s) /\ t[k] = s[k - 1]
         /\ j = 1 \/ (j - 1 \in 1..Len(s) /\ t[j] = s[j - 1] /\ j - 1 < k - 1)
  <2> TAKE j, k \in 1..Len(t)
  <2>1. j < k => ~(k = 1)
    BY <1>2
  <2>2. j < k => j - 1 < k - 1
    BY <1>2
  <2> QED BY <1>2, <2>1, <2>2
<1>6. SavedNest(t, e)
  <2>1. \A k \in 1..Len(t) : Gags(t[k]) => t[k].gaggedErrors <= e
    BY <1>1, <1>2 DEF StackOK, SavedNest, Fits
  <2>2. ASSUME NEW j \in 1..Len(t), NEW k \in 1..Len(t), j < k, Gags(t[j]), Gags(t[k])
        PROVE  t[k].gaggedErrors <= t[j].gaggedErrors
    <3>1. CASE j = 1
      BY <1>2, <1>5, <2>2, <3>1 DEF Fits
    <3>2. CASE j # 1
      <4>1. /\ k - 1 \in 1..Len(s) /\ t[k] = s[k - 1] /\ j - 1 \in 1..Len(s)
            /\ t[j] = s[j - 1] /\ j - 1 < k - 1
        BY <1>5, <2>2, <3>2
      <4> QED BY <2>2, <4>1 DEF StackOK, SavedNest
    <3> QED BY <3>1, <3>2
  <2> QED BY <2>1, <2>2 DEF SavedNest
<1>7. Placed(t, I, mem)
  <2> SUFFICES ASSUME NEW k \in 1..Len(t), Made(t[k])
               PROVE  /\ t[k].index \in 1..Len(mem[HomeOf(t[k].of, I)])
                      /\ mem[HomeOf(t[k].of, I)][t[k].index] = t[k].of
    BY DEF Placed
  <2>1. CASE k = 1
    BY <1>2, <2>1 DEF Fits
  <2>2. CASE k - 1 \in 1..Len(s) /\ t[k] = s[k - 1]
    BY <2>2 DEF StackOK, Placed
  <2> QED BY <1>2, <2>1, <2>2
<1>8. PlacesNest(t, I)
  <2> SUFFICES ASSUME NEW j \in 1..Len(t), NEW k \in 1..Len(t), j < k, Made(t[j]), Made(t[k]),
                      HomeOf(t[k].of, I) = HomeOf(t[j].of, I)
               PROVE  t[k].index < t[j].index
    BY DEF PlacesNest
  <2>1. CASE j = 1
    BY <1>2, <1>5, <2>1 DEF Fits
  <2>2. CASE j # 1
    <3>1. /\ k - 1 \in 1..Len(s) /\ t[k] = s[k - 1] /\ j - 1 \in 1..Len(s)
          /\ t[j] = s[j - 1] /\ j - 1 < k - 1
      BY <1>5, <2>2
    <3> QED BY <3>1 DEF StackOK, PlacesNest
  <2> QED BY <2>1, <2>2
<1>9. ModuleLast(t, sem)
  <2> SUFFICES ASSUME NEW k \in 1..Len(t), t[k].proc = "module"
               PROVE  k = Len(t) /\ (t[k].pc # "enter" => sem[t[k].of] = PassRun(t[k].pass))
    BY DEF ModuleLast
  <2>1. CASE k = 1
    <3>1. s = <<>> /\ (f.pc # "enter" => sem[f.of] = PassRun(f.pass)) /\ t[k] = f
      BY <1>2, <2>1 DEF Fits
    <3>2. Len(t) = 1
      BY <1>2, <3>1
    <3> QED BY <2>1, <3>1, <3>2
  <2>2. CASE k # 1
    <3>1. k - 1 \in 1..Len(s) /\ t[k] = s[k - 1]
      BY <1>2, <2>2
    <3>2. k - 1 = Len(s) /\ (t[k].pc # "enter" => sem[t[k].of] = PassRun(t[k].pass))
      BY <3>1 DEF StackOK, ModuleLast
    <3> QED BY <1>2, <3>2
  <2> QED BY <2>1, <2>2
<1> QED BY <1>2, <1>3, <1>4, <1>6, <1>7, <1>8, <1>9 DEF StackOK, t

\* There is always a stack without calls.
LEMMA NoCalls ==
    ASSUME NEW I, NEW mem, NEW sem, NEW e
    PROVE  StackOK(<<>>, I, mem, sem, 0, e)
<1> DEFINE level == [n \in Nat |-> 0]
<1>1. Len(<<>>) = 0 /\ <<>> \in Seq(FrameSet) /\ \A k : k \notin 1..0
  OBVIOUS
<1>2. IsLevels(level, <<>>, 0)
  <2>1. level \in [Nat -> Nat] /\ level[0] = 0
    OBVIOUS
  <2> QED BY <1>1, <2>1 DEF IsLevels
<1>3. Levels(<<>>, 0)
  BY <1>2 DEF Levels
<1> QED BY <1>1, <1>3 DEF StackOK, SavedNest, Placed, PlacesNest, ModuleLast

\* Without calls the progress of the modules can be anything.
LEMMA AnyProgress ==
    ASSUME NEW s, NEW I, NEW mem, NEW sem, NEW g, NEW e, NEW more,
           StackOK(s, I, mem, sem, g, e), s = <<>>
    PROVE  StackOK(s, I, mem, more, g, e)
<1>1. Len(s) = 0 /\ \A k : k \notin 1..0
  OBVIOUS
<1> QED BY <1>1 DEF StackOK, ModuleLast

\* Instances are added, and errors, but nothing that frames refer to is lost.
Grown(I, J) ==
    /\ Len(I) \in Nat /\ Len(J) \in Nat /\ Len(I) <= Len(J)
    /\ \A n \in 1..Len(I) : J[n].key = I[n].key /\ (I[n].errors => J[n].errors)

LEMMA GrownFrame ==
    ASSUME NEW I, NEW J, NEW f, Grown(I, J), FrameOK(f, I)
    PROVE  FrameOK(f, J) /\ (Made(f) => HomeOf(f.of, J) = HomeOf(f.of, I))
<1>1. 1..Len(I) \subseteq 1..Len(J) /\ 0..Len(I) \subseteq 0..Len(J)
  BY DEF Grown
<1>2. Made(f) => /\ f.of \in 1..Len(J) /\ f.errinst \in 0..Len(J)
                 /\ f.errinst # 0 => J[f.errinst].errors
  <2>1. f.errinst \in Nat
    BY DEF FrameOK, FrameSet
  <2>2. \A n \in 0..Len(I) : n # 0 => n \in 1..Len(I)
    BY DEF Grown
  <2> QED BY <1>1, <2>1, <2>2 DEF FrameOK, Grown
<1>3. Made(f) => HomeOf(f.of, J) = HomeOf(f.of, I)
  BY DEF FrameOK, Grown, HomeOf
<1> QED BY <1>1, <1>2, <1>3 DEF FrameOK

LEMMA Grow ==
    ASSUME NEW s, NEW I, NEW J, NEW mem, NEW sem, NEW g, NEW e, Grown(I, J),
           StackOK(s, I, mem, sem, g, e)
    PROVE  StackOK(s, J, mem, sem, g, e)
<1>1. \A k \in 1..Len(s) : FrameOK(s[k], J) /\ (Made(s[k]) => HomeOf(s[k].of, J) = HomeOf(s[k].of, I))
  BY GrownFrame DEF StackOK
<1>2. Placed(s, J, mem)
  BY <1>1 DEF StackOK, Placed
<1>3. PlacesNest(s, J)
  <2> SUFFICES ASSUME NEW j \in 1..Len(s), NEW k \in 1..Len(s), j < k, Made(s[j]), Made(s[k]),
                      HomeOf(s[k].of, J) = HomeOf(s[j].of, J)
               PROVE  s[k].index < s[j].index
    BY DEF PlacesNest
  <2>1. HomeOf(s[k].of, I) = HomeOf(s[j].of, I)
    BY <1>1
  <2> QED BY <2>1 DEF StackOK, PlacesNest
<1> QED BY <1>1, <1>2, <1>3 DEF StackOK

\* More gagged errors than were saved.
LEMMA MoreErrors ==
    ASSUME NEW s, NEW I, NEW mem, NEW sem, NEW g, NEW e \in Nat, NEW more \in Nat, e <= more,
           StackOK(s, I, mem, sem, g, e)
    PROVE  StackOK(s, I, mem, sem, g, more)
<1>1. \A k \in 1..Len(s) : s[k].gaggedErrors \in Nat
  BY DEF StackOK, FrameOK, FrameSet
<1>2. SavedNest(s, more)
  BY <1>1 DEF StackOK, SavedNest
<1> QED BY <1>2 DEF StackOK

\* When gagging ends the count is what the frame on top saved, and those below
\* saved no more.
LEMMA Ended ==
    ASSUME NEW s, NEW I, NEW mem, NEW sem, NEW g, NEW below, NEW e, NEW f,
           StackOK(s, I, mem, sem, below, e), Fits(f, s, I, mem, sem, g, below, e), Gags(f)
    PROVE  StackOK(s, I, mem, sem, below, f.gaggedErrors)
<1>1. SavedNest(s, f.gaggedErrors)
  BY DEF StackOK, Fits, SavedNest
<1> QED BY <1>1 DEF StackOK

\* An instance appended to the members of a module moves no other.
LEMMA Appended ==
    ASSUME NEW s, NEW I, NEW mem, NEW sem, NEW g, NEW e, NEW m \in Mod, NEW n,
           StackOK(s, I, mem, sem, g, e),
           DOMAIN mem = Mod, \A x \in Mod : \E S : mem[x] \in Seq(S),
           \A x \in 1..Len(I) : HomeOf(x, I) \in Mod
    PROVE  LET more == [mem EXCEPT ![m] = Append(@, n)] IN
           /\ StackOK(s, I, more, sem, g, e)
           /\ \A k \in 1..Len(s) : Made(s[k]) /\ HomeOf(s[k].of, I) = m
                                     => s[k].index < Len(mem[m]) + 1
<1> DEFINE more == [mem EXCEPT ![m] = Append(@, n)]
<1>1. \A x \in Mod : Len(mem[x]) \in Nat /\ Len(more[x]) \in Nat /\ Len(mem[x]) <= Len(more[x])
                     /\ \A i \in 1..Len(mem[x]) : more[x][i] = mem[x][i]
  <2> TAKE x \in Mod
  <2>1. PICK S : mem[x] \in Seq(S)
    OBVIOUS
  <2>2. mem[x] \in Seq(S \cup {n})
    <3>1. \A i \in 1..Len(mem[x]) : mem[x][i] \in S
      BY <2>1, ElementOfSeq
    <3>2. mem[x] = [i \in 1..Len(mem[x]) |-> mem[x][i]] /\ Len(mem[x]) \in Nat
      BY <2>1
    <3> QED BY <2>1, <3>1, <3>2
  <2>3. CASE x = m
    <3>1. more[x] = Append(mem[x], n)
      BY <2>3
    <3>2. /\ Len(Append(mem[x], n)) = Len(mem[x]) + 1 /\ Len(mem[x]) \in Nat
          /\ \A i \in 1..Len(mem[x]) : Append(mem[x], n)[i] = mem[x][i]
      BY <2>2, AppendProperties, LenProperties
    <3> QED BY <3>1, <3>2
  <2>4. CASE x # m
    BY <2>1, <2>4, LenProperties
  <2> QED BY <2>3, <2>4
<1> HIDE DEF more
<1>2. \A k \in 1..Len(s) : Made(s[k]) => HomeOf(s[k].of, I) \in Mod
  BY DEF StackOK, FrameOK
<1>3. Placed(s, I, more)
  <2> SUFFICES ASSUME NEW k \in 1..Len(s), Made(s[k])
               PROVE  /\ s[k].index \in 1..Len(more[HomeOf(s[k].of, I)])
                      /\ more[HomeOf(s[k].of, I)][s[k].index] = s[k].of
    BY DEF Placed
  <2>1. /\ s[k].index \in 1..Len(mem[HomeOf(s[k].of, I)])
        /\ mem[HomeOf(s[k].of, I)][s[k].index] = s[k].of
    BY DEF StackOK, Placed
  <2> QED BY <1>1, <1>2, <2>1
<1>4. \A k \in 1..Len(s) : Made(s[k]) /\ HomeOf(s[k].of, I) = m => s[k].index < Len(mem[m]) + 1
  BY <1>1 DEF StackOK, Placed
<1> QED BY <1>3, <1>4 DEF StackOK, more

\* What RemoveAt makes of a sequence.
LEMMA RemoveAtProperties ==
    ASSUME NEW S, NEW s \in Seq(S), NEW i \in 1..Len(s)
    PROVE  /\ RemoveAt(s, i) \in Seq(S) /\ Len(RemoveAt(s, i)) = Len(s) - 1 /\ Len(s) \in Nat
           /\ \A k \in 1..Len(s) - 1 : RemoveAt(s, i)[k] = IF k < i THEN s[k] ELSE s[k + 1]
<1>1. Len(s) \in Nat /\ \A k \in 1..Len(s) : s[k] \in S
  BY LenProperties, ElementOfSeq
<1> DEFINE a == SubSeq(s, 1, i - 1)
           b == SubSeq(s, i + 1, Len(s))
<1>2. a \in Seq(S) /\ Len(a) = i - 1 /\ \A k \in 1..i - 1 : a[k] = s[k]
  <2>1. i - 1 \in Nat /\ i - 1 <= Len(s) /\ 1 \in 1..Len(s) + 1 /\ i - 1 \in (1 - 1)..Len(s)
    BY <1>1
  <2>2. \A k \in 1..i - 1 : s[k] \in S
    BY <1>1
  <2> QED BY <1>1, <2>1, <2>2, SubSeqProperties
<1>3. b \in Seq(S) /\ Len(b) = Len(s) - i /\ \A k \in 1..Len(s) - i : b[k] = s[k + i]
  <2>1. i + 1 \in 1..Len(s) + 1 /\ Len(s) \in i..Len(s)
    BY <1>1
  <2>2. \A k \in i + 1..Len(s) : s[k] \in S
    BY <1>1
  <2> QED BY <1>1, <2>1, <2>2, SubSeqProperties
<1> HIDE DEF a, b
<1>4. /\ a \o b \in Seq(S) /\ Len(a \o b) = Len(a) + Len(b)
      /\ \A k \in 1..Len(a) + Len(b) : (a \o b)[k] = IF k <= Len(a) THEN a[k] ELSE b[k - Len(a)]
  BY <1>2, <1>3, ConcatProperties
<1>5. Len(a) + Len(b) = Len(s) - 1
  BY <1>1, <1>2, <1>3
<1>6. \A k \in 1..Len(s) - 1 : (a \o b)[k] = IF k < i THEN s[k] ELSE s[k + 1]
  <2> TAKE k \in 1..Len(s) - 1
  <2>1. CASE k < i
    <3>1. k <= Len(a) /\ k \in 1..i - 1
      BY <1>1, <1>2, <2>1
    <3> QED BY <1>2, <1>4, <1>5, <2>1, <3>1
  <2>2. CASE ~(k < i)
    <3>1. ~(k <= Len(a)) /\ k - Len(a) \in 1..Len(s) - i /\ (k - Len(a)) + i = k + 1
      BY <1>1, <1>2, <2>2
    <3> QED BY <1>3, <1>4, <1>5, <2>2, <3>1
  <2> QED BY <2>1, <2>2
<1> QED BY <1>1, <1>4, <1>5, <1>6 DEF RemoveAt, a, b

\* Taking the member of the frame on top out leaves those of the frames below
\* where they are.
LEMMA Removed ==
    ASSUME NEW s, NEW I, NEW mem, NEW sem, NEW g, NEW below, NEW e, NEW f,
           StackOK(s, I, mem, sem, below, e), Fits(f, s, I, mem, sem, g, below, e), Made(f),
           DOMAIN mem = Mod, \A x \in Mod : \E S : mem[x] \in Seq(S),
           \A x \in 1..Len(I) : HomeOf(x, I) \in Mod
    PROVE  StackOK(s, I, [mem EXCEPT ![HomeOf(f.of, I)] = RemoveAt(@, f.index)], sem, below, e)
<1> DEFINE m == HomeOf(f.of, I)
           less == [mem EXCEPT ![m] = RemoveAt(@, f.index)]
<1>1. m \in Mod /\ f.index \in 1..Len(mem[m])
  BY DEF Fits, FrameOK
<1>2. PICK S : mem[m] \in Seq(S)
  BY <1>1
<1>3. /\ less[m] = RemoveAt(mem[m], f.index) /\ Len(less[m]) = Len(mem[m]) - 1
      /\ \A k \in 1..Len(mem[m]) - 1 : k < f.index => less[m][k] = mem[m][k]
      /\ \A x \in Mod : x # m => less[x] = mem[x]
      /\ Len(mem[m]) \in Nat
  BY <1>1, <1>2, RemoveAtProperties
<1> HIDE DEF less
<1>4. Placed(s, I, less)
  <2> SUFFICES ASSUME NEW k \in 1..Len(s), Made(s[k])
               PROVE  /\ s[k].index \in 1..Len(less[HomeOf(s[k].of, I)])
                      /\ less[HomeOf(s[k].of, I)][s[k].index] = s[k].of
    BY DEF Placed
  <2>1. /\ s[k].index \in 1..Len(mem[HomeOf(s[k].of, I)])
        /\ mem[HomeOf(s[k].of, I)][s[k].index] = s[k].of /\ HomeOf(s[k].of, I) \in Mod
    BY DEF StackOK, Placed, FrameOK
  <2>2. CASE HomeOf(s[k].of, I) # m
    BY <1>3, <2>1, <2>2
  <2>3. CASE HomeOf(s[k].of, I) = m
    <3>1. s[k].index < f.index
      BY <2>3 DEF Fits
    <3>2. s[k].index \in 1..Len(mem[m]) - 1
      BY <1>1, <1>3, <2>1, <2>3, <3>1
    <3> QED BY <1>3, <2>1, <2>3, <3>1, <3>2
  <2> QED BY <2>2, <2>3
<1> QED BY <1>4 DEF StackOK, less

(***************************************************************************)
(* The frames that the actions make.                                        *)
(***************************************************************************)

\* A new frame, waiting to be entered.
NewFrame(f, proc, of, p) ==
    /\ f \in FrameSet /\ f.proc = proc /\ f.of = of /\ f.pass = p /\ f.pc = "enter"
    /\ f.i = 1 /\ f.tinst = 0 /\ f.gag = 0 /\ f.root = TRUE

LEMMA FrameFields ==
    ASSUME NEW proc \in {"module", "symbol", "instance", "pass", "deferred", "trial", "check"},
           NEW of \in Mod \cup Symbol \cup Template \cup Nat, NEW p \in 0..3
    PROVE  NewFrame(Frame(proc, of, p), proc, of, p)
<1>1. "plain" \in Mode /\ 1 \in Nat \ {0} /\ 0 \in Nat
  BY DEF Mode
<1> QED BY <1>1 DEF Frame, FrameSet, NewFrame

Pc == {"enter", "members", "instances", "initialized", "collected", "enlist",
       "after", "next", "end"}

Going(f, pc) == [f EXCEPT !.pc = pc]
Going1(f, pc) == [f EXCEPT !.pc = pc, !.i = 1]
Going2(f) == [f EXCEPT !.i = @ + 1]

\* The same frame for all that the stack is about.
Same(f, h) ==
    /\ h \in FrameSet /\ h.proc = f.proc /\ h.of = f.of /\ h.pass = f.pass
    /\ h.tinst = f.tinst /\ h.gag = f.gag /\ h.gaggedErrors = f.gaggedErrors
    /\ h.errinst = f.errinst /\ h.index = f.index /\ h.root = f.root

LEMMA GoingFields ==
    ASSUME NEW f \in FrameSet, NEW pc \in Pc
    PROVE  /\ Same(f, Going(f, pc)) /\ Going(f, pc).pc = pc
           /\ Same(f, Going1(f, pc)) /\ Going1(f, pc).pc = pc
           /\ Same(f, Going2(f)) /\ Going2(f).pc = f.pc
<1>1. Same(f, Going(f, pc)) /\ Going(f, pc).pc = pc
  BY DEF FrameSet, Same, Going, Pc
<1>2. Same(f, Going1(f, pc)) /\ Going1(f, pc).pc = pc
  <2> DEFINE t == [f EXCEPT !.pc = pc]
  <2>1. t = Going(f, pc) /\ Same(f, t) /\ t.pc = pc
    BY <1>1 DEF Going
  <2>2. Going1(f, pc) = [t EXCEPT !.i = 1]
    BY DEF Going1
  <2> HIDE DEF t
  <2> QED BY <2>1, <2>2 DEF FrameSet, Same
<1>3. Same(f, Going2(f)) /\ Going2(f).pc = f.pc
  BY DEF FrameSet, Same, Going2
<1> QED BY <1>1, <1>2, <1>3

\* A frame that goes on fits where it was.
LEMMA Refit ==
    ASSUME NEW s, NEW I, NEW mem, NEW sem, NEW g, NEW below, NEW e, NEW f, NEW h,
           Fits(f, s, I, mem, sem, g, below, e), Same(f, h),
           f.proc = "module" => /\ f.pc # "enter"
                                /\ h.pc \in {"members", "instances"},
           f.proc = "symbol" => h.pc = "members",
           f.proc = "instance" => /\ Made(f)
                                  /\ h.pc \in {"members", "initialized", "collected",
                                               "enlist", "after"},
           f.proc = "pass" => h.pc \in {"members", "end"},
           f.proc = "deferred" => h.pc = "next",
           f.proc = "trial" => h.pc = "end"
    PROVE  Fits(h, s, I, mem, sem, g, below, e)
<1>1. (Made(h) <=> Made(f)) /\ (Gags(h) <=> Gags(f))
  BY DEF Same, Made, Gags
<1>2. FrameOK(h, I)
  <2>1. FrameOK(f, I)
    BY DEF Fits
  <2>2. h \in FrameSet /\ h.proc # "check"
    BY <2>1 DEF Same, FrameOK
  <2>3. Made(h) => /\ h.of \in 1..Len(I) /\ h.errinst \in 0..Len(I)
                   /\ h.errinst # 0 => I[h.errinst].errors
    BY <1>1, <2>1 DEF Same, FrameOK
  <2>4. /\ h.proc = "module" => h.of \in Mod /\ h.pass \in 1..3 /\ h.pc \in {"enter", "members", "instances"}
        /\ h.proc = "symbol" => h.of \in Symbol /\ h.pass = 1 /\ h.pc = "members"
        /\ h.proc = "trial" => h.pc = "end" /\ h.tinst \in 0..Len(I)
    BY <2>1 DEF Same, FrameOK
  <2>5. h.proc = "instance" => /\ h.pass = 1 /\ h.tinst \in 0..Len(I)
                               /\ h.pc \in {"enter", "members", "initialized", "collected",
                                            "enlist", "after"}
                               /\ h.pc = "enter" => h.of \in Template
    BY <2>1 DEF Same, FrameOK
  <2>6. /\ h.proc = "pass" => /\ h.of \in 1..Len(I) /\ h.pass \in {2, 3}
                              /\ h.pc \in {"enter", "members", "end"} /\ h.gag \in {0, 1}
                              /\ h.pc = "enter" => h.gag = 0
        /\ h.proc = "deferred" => h.pass \in {2, 3} /\ h.pc \in {"enter", "next"}
    BY <2>1 DEF Same, FrameOK
  <2> QED BY <2>2, <2>3, <2>4, <2>5, <2>6 DEF FrameOK
<1>3. LevelStep(h, g, below)
  BY DEF Same, Fits, LevelStep
<1>4. h.proc = "module" => s = <<>> /\ (h.pc # "enter" => sem[h.of] = PassRun(h.pass))
  BY DEF Same, Fits
<1>5. Gags(h) => /\ h.gaggedErrors <= e
                 /\ \A k \in 1..Len(s) : Gags(s[k]) => s[k].gaggedErrors <= h.gaggedErrors
  BY <1>1 DEF Same, Fits
<1>6. Made(h) => /\ h.index \in 1..Len(mem[HomeOf(h.of, I)])
                 /\ mem[HomeOf(h.of, I)][h.index] = h.of
                 /\ \A k \in 1..Len(s) :
                       Made(s[k]) /\ HomeOf(s[k].of, I) = HomeOf(h.of, I)
                         => s[k].index < h.index
  BY <1>1 DEF Same, Fits
<1>7. g \in Nat
  BY DEF Fits
<1> QED BY <1>2, <1>3, <1>4, <1>5, <1>6, <1>7 DEF Fits

\* A frame that is only called now, and changes nothing by that.
Fresh(f, I) ==
    /\ FrameOK(f, I) /\ f.pc = "enter" /\ f.gag = 0
    /\ f.proc \in {"instance", "pass", "deferred"}

LEMMA FreshFits ==
    ASSUME NEW s, NEW I, NEW mem, NEW sem, NEW g \in Nat, NEW e, NEW f, Fresh(f, I)
    PROVE  Fits(f, s, I, mem, sem, g, g, e)
<1>1. ~Made(f) /\ ~Gags(f)
  BY DEF Fresh, Made, Gags
<1>2. LevelStep(f, g, g)
  BY DEF Fresh, LevelStep
<1> QED BY <1>1, <1>2 DEF Fresh, Fits

LEMMA PassFresh ==
    ASSUME NEW I, Len(I) \in Nat, NEW n \in 1..Len(I), NEW p \in {2, 3}
    PROVE  Fresh(Pass(n, p), I)
<1>1. n \in Nat /\ p \in 0..3
  OBVIOUS
<1>2. NewFrame(Pass(n, p), "pass", n, p)
  BY <1>1, FrameFields DEF Pass
<1> QED BY <1>2 DEF NewFrame, Fresh, FrameOK, Made

LEMMA DeferredFresh ==
    ASSUME NEW I, NEW p \in {2, 3}
    PROVE  Fresh(RunDeferred(p), I)
<1>1. p \in 0..3 /\ 0 \in Nat
  OBVIOUS
<1>2. NewFrame(RunDeferred(p), "deferred", 0, p)
  BY <1>1, FrameFields DEF RunDeferred
<1> QED BY <1>2 DEF NewFrame, Fresh, FrameOK, Made

\* Two calls are one on top of the other.
LEMMA TwoCalls ==
    ASSUME NEW S, NEW s \in Seq(S), NEW f \in S, NEW h \in S
    PROVE  <<h, f>> \o s = <<h>> \o (<<f>> \o s) /\ (<<h>> \o <<f>>) \o s = <<h>> \o (<<f>> \o s)
<1> DEFINE a == <<h>>
           b == <<f>>
<1>1. a \in Seq(S) /\ b \in Seq(S)
  OBVIOUS
<1>2. <<h, f>> = a \o b
  OBVIOUS
<1> HIDE DEF a, b
<1>3. (a \o b) \o s = a \o (b \o s)
  BY <1>1, ConcatAssociative
<1> QED BY <1>2, <1>3 DEF a, b

(***************************************************************************)
(* The types of the variables, and the calls in progress.                   *)
(***************************************************************************)

InstSet(N) ==
    [key : Template, gagged : BOOLEAN, errors : BOOLEAN, semanticRun : init..semantic3,
     live : BOOLEAN, root : BOOLEAN, tinst : 0..N, collects : BOOLEAN, deferred : Seq(1..N)]

InstOK == inst \in Seq(InstSet(Len(inst)))

ListsOK ==
    /\ table \in [Template -> SUBSET (1..Len(inst))]
    /\ members \in [Mod -> Seq(1..Len(inst))]
    /\ deferred2 \in Seq(1..Len(inst)) /\ deferred3 \in Seq(1..Len(inst))

RunsOK == semanticRun \in [Mod -> init..semantic3done] /\ symbol \in [Symbol -> init..semanticdone]

CountsOK ==
    /\ gag \in Nat /\ shown \in Nat /\ gaggedErrors \in Nat /\ errors \in Nat
    /\ errors >= gaggedErrors

RetOK == ret.of \in 0..Len(inst) /\ (ret.good => ret.of # 0)

TodoSet ==
    {Check} \cup {RunDeferred(p) : p \in {2, 3}}
    \cup {ModulePass(m, p) : m \in Mod, p \in 1..3}

Types ==
    /\ program \in Programs /\ todo \in Seq(TodoSet)
    /\ InstOK /\ ListsOK /\ RunsOK /\ CountsOK /\ RetOK

Stacked == StackOK(stack, inst, members, semanticRun, gag, gaggedErrors)

TypeInv == Types /\ (status = "running" => Stacked)

\* A function on 1..n is a sequence.
LEMMA FunctionSeq ==
    ASSUME NEW S, NEW n \in Nat, NEW f \in [1..n -> S]
    PROVE  f \in Seq(S) /\ Len(f) = n
<1>1. f \in Seq(S)
  OBVIOUS
<1>2. DOMAIN f = 1..n /\ DOMAIN f = 1..Len(f) /\ Len(f) \in Nat
  BY <1>1, LenProperties
<1> QED BY <1>1, <1>2

\* The instances, and where they are declared.
LEMMA InstTypes ==
    ASSUME InstOK
    PROVE  /\ Len(inst) \in Nat /\ DOMAIN inst = 1..Len(inst)
           /\ \A n \in 1..Len(inst) : /\ inst[n] \in InstSet(Len(inst))
                                      /\ inst[n].key \in Template /\ HomeOf(n, inst) \in Mod
<1>1. Len(inst) \in Nat /\ DOMAIN inst = 1..Len(inst)
  BY LenProperties DEF InstOK
<1>2. \A n \in 1..Len(inst) : inst[n] \in InstSet(Len(inst))
  BY ElementOfSeq DEF InstOK
<1>3. \A n \in 1..Len(inst) : inst[n].key \in Template
  BY <1>2 DEF InstSet
<1> QED BY <1>1, <1>2, <1>3, ModulesAssumption DEF HomeOf

\* Some instances change, and nothing that others refer to is lost.
Changed(J) ==
    /\ J \in [1..Len(inst) -> InstSet(Len(inst))]
    /\ \A n \in 1..Len(inst) : /\ J[n].key = inst[n].key /\ J[n].errors \in BOOLEAN
                               /\ inst[n].errors => J[n].errors

LEMMA ChangedInst ==
    ASSUME Types, Changed(inst')
    PROVE  /\ InstOK' /\ Len(inst') = Len(inst) /\ Grown(inst, inst')
           /\ UNCHANGED listed => ListsOK'
           /\ UNCHANGED ret => RetOK'
<1>1. Len(inst) \in Nat
  BY InstTypes DEF Types
<1>2. inst' \in Seq(InstSet(Len(inst))) /\ Len(inst') = Len(inst)
  BY <1>1, FunctionSeq DEF Changed
<1>3. InstOK'
  BY <1>2 DEF InstOK
<1>4. Grown(inst, inst')
  BY <1>1, <1>2 DEF Grown, Changed
<1> QED BY <1>2, <1>3, <1>4 DEF Types, ListsOK, RetOK, listed

\* Nothing changes in the instances.
LEMMA SameInst ==
    ASSUME Types, UNCHANGED inst
    PROVE  /\ InstOK'
           /\ UNCHANGED listed => ListsOK'
           /\ UNCHANGED ret => RetOK'
  BY DEF Types, InstOK, ListsOK, RetOK, listed

\* One instance changes.
LEMMA OneChanged ==
    ASSUME Types, NEW n \in 1..Len(inst), NEW r \in InstSet(Len(inst)),
           r.key = inst[n].key, inst[n].errors => r.errors
    PROVE  Changed([inst EXCEPT ![n] = r])
<1>1. /\ Len(inst) \in Nat /\ DOMAIN inst = 1..Len(inst)
      /\ \A k \in 1..Len(inst) : inst[k] \in InstSet(Len(inst))
  BY InstTypes DEF Types
<1>2. inst \in [1..Len(inst) -> InstSet(Len(inst))]
  BY <1>1 DEF Types, InstOK
<1> DEFINE J == [inst EXCEPT ![n] = r]
<1>3. /\ J \in [1..Len(inst) -> InstSet(Len(inst))] /\ J[n] = r
      /\ \A k \in 1..Len(inst) : k # n => J[k] = inst[k]
  BY <1>2
<1> HIDE DEF J
<1>4. \A k \in 1..Len(inst) : J[k].errors \in BOOLEAN
  BY <1>3 DEF InstSet
<1>5. \A k \in 1..Len(inst) : J[k].key = inst[k].key /\ (inst[k].errors => J[k].errors)
  BY <1>3
<1> QED BY <1>3, <1>4, <1>5 DEF Changed, J

(***************************************************************************)
(* The ways the actions change the stack.                                   *)
(***************************************************************************)

\* The top fits on the rest of the stack.
LEMMA TopFits ==
    ASSUME TypeInv, status = "running", stack # <<>>
    PROVE  /\ FrameOK(Top, inst) /\ Tail(stack) \in Seq(FrameSet) /\ stack \in Seq(FrameSet)
           /\ \E below \in Nat :
                /\ StackOK(Tail(stack), inst, members, semanticRun, below, gaggedErrors)
                /\ Fits(Top, Tail(stack), inst, members, semanticRun, gag, below, gaggedErrors)
<1>1. \E below \in Nat :
                /\ StackOK(Tail(stack), inst, members, semanticRun, below, gaggedErrors)
                /\ Fits(Top, Tail(stack), inst, members, semanticRun, gag, below, gaggedErrors)
  BY Rest DEF TypeInv, Stacked, Top
<1>2. FrameOK(Top, inst)
  BY <1>1 DEF Fits
<1>3. Tail(stack) \in Seq(FrameSet) /\ stack \in Seq(FrameSet)
  BY <1>1 DEF StackOK, TypeInv, Stacked
<1> QED BY <1>1, <1>2, <1>3

\* The top goes on.
Moves(f, h) ==
    /\ Same(f, h)
    /\ f.proc = "module" => f.pc # "enter" /\ h.pc \in {"members", "instances"}
    /\ f.proc = "symbol" => h.pc = "members"
    /\ f.proc = "instance" =>
         /\ Made(f)
         /\ h.pc \in {"members", "initialized", "collected", "enlist", "after"}
    /\ f.proc = "pass" => h.pc \in {"members", "end"}
    /\ f.proc = "deferred" => h.pc = "next"
    /\ f.proc = "trial" => h.pc = "end"

LEMMA ContinueOK ==
    ASSUME TypeInv, status = "running", stack # <<>>, NEW h, Moves(Top, h)
    PROVE  StackOK(<<h>> \o Tail(stack), inst, members, semanticRun, gag, gaggedErrors)
<1>1. PICK below \in Nat :
        /\ StackOK(Tail(stack), inst, members, semanticRun, below, gaggedErrors)
        /\ Fits(Top, Tail(stack), inst, members, semanticRun, gag, below, gaggedErrors)
  BY TopFits
<1>2. Fits(h, Tail(stack), inst, members, semanticRun, gag, below, gaggedErrors)
  BY <1>1, Refit DEF Moves
<1> QED BY <1>1, <1>2, Push

\* The top goes on after a call.
LEMMA CallOK ==
    ASSUME TypeInv, status = "running", stack # <<>>, NEW h, Moves(Top, h),
           NEW c, Fresh(c, inst)
    PROVE  /\ StackOK(<<c, h>> \o Tail(stack), inst, members, semanticRun, gag, gaggedErrors)
           /\ <<c, h>> \o Tail(stack) = <<c>> \o (<<h>> \o Tail(stack))
<1>1. StackOK(<<h>> \o Tail(stack), inst, members, semanticRun, gag, gaggedErrors)
  BY ContinueOK
<1>2. gag \in Nat
  BY DEF TypeInv, Types, CountsOK
<1>3. StackOK(<<c>> \o (<<h>> \o Tail(stack)), inst, members, semanticRun, gag, gaggedErrors)
  BY <1>1, <1>2, FreshFits, Push
<1>4. Tail(stack) \in Seq(FrameSet) /\ c \in FrameSet /\ h \in FrameSet
  BY TopFits DEF Fresh, FrameOK, Moves, Same
<1>5. <<c, h>> \o Tail(stack) = <<c>> \o (<<h>> \o Tail(stack))
  BY <1>4, TwoCalls
<1> QED BY <1>3, <1>5

\* The top returns, and did not gag or ungag.
LEMMA ReturnOK ==
    ASSUME TypeInv, status = "running", stack # <<>>,
           Top.proc \notin {"trial", "symbol"}, ~Gags(Top)
    PROVE  StackOK(Tail(stack), inst, members, semanticRun, gag, gaggedErrors)
<1>1. PICK below \in Nat :
        /\ StackOK(Tail(stack), inst, members, semanticRun, below, gaggedErrors)
        /\ Fits(Top, Tail(stack), inst, members, semanticRun, gag, below, gaggedErrors)
  BY TopFits
<1>2. gag = below
  BY <1>1 DEF Fits, LevelStep, Gags
<1> QED BY <1>1, <1>2

\* The top goes on with its next item or instance.
LEMMA ResumeOK ==
    ASSUME TypeInv, status = "running", stack # <<>>, Top.pc \in {"members", "instances"}
    PROVE  StackOK(Resume, inst, members, semanticRun, gag, gaggedErrors)
<1>1. FrameOK(Top, inst) /\ Tail(stack) \in Seq(FrameSet)
  BY TopFits
<1>2. Next1 = Going2(Top)
  BY DEF Next1, Going2
<1>3. Top \in FrameSet /\ Top.pc \in Pc
  BY <1>1 DEF FrameOK, FrameSet, Pc
<1>4. Same(Top, Next1) /\ Next1.pc = Top.pc
  BY <1>2, <1>3, GoingFields
<1>5. Moves(Top, Next1)
  BY <1>1, <1>4 DEF Moves, FrameOK, Made
<1>6. StackOK(<<Next1>> \o Tail(stack), inst, members, semanticRun, gag, gaggedErrors)
  BY <1>5, ContinueOK
<1>7. Fresh(RunDeferred(2), inst)
  BY DeferredFresh
<1>8. StackOK(<<RunDeferred(2)>> \o (<<Next1>> \o Tail(stack)), inst, members, semanticRun, gag,
              gaggedErrors)
  BY <1>6, <1>7, FreshFits, Push DEF TypeInv, Types, CountsOK
<1>9. RunDeferred(2) \in FrameSet /\ Next1 \in FrameSet
  BY <1>4, <1>7 DEF Fresh, FrameOK, Same
<1>10. (<<RunDeferred(2)>> \o <<Next1>>) \o Tail(stack) = <<RunDeferred(2)>> \o (<<Next1>> \o Tail(stack))
  BY <1>1, <1>9, TwoCalls
<1>11. <<>> \o <<Next1>> = <<Next1>>
  BY <1>9
<1>12. CASE Top.proc = "module" /\ Top.pass = 3
  BY <1>8, <1>10, <1>12 DEF Resume
<1>13. CASE ~(Top.proc = "module" /\ Top.pass = 3)
  BY <1>6, <1>11, <1>13 DEF Resume
<1> QED BY <1>12, <1>13

\* The item that the top is at.
LEMMA ItemTypes ==
    ASSUME TypeInv, HasItem
    PROVE  /\ status = "running" /\ stack # <<>> /\ Top.pc = "members" /\ FrameOK(Top, inst)
           /\ Top.proc \in {"module", "symbol", "instance", "pass"} /\ Item \in ItemType
<1>1. status = "running" /\ stack # <<>> /\ Top.pc = "members" /\ Top.i <= Len(Items(Top))
  BY DEF HasItem, AtMembers, Running
<1>2. FrameOK(Top, inst)
  BY <1>1, TopFits
<1>3. Top.proc \in {"module", "symbol", "instance", "pass"} /\ Top.i \in Nat \ {0} /\ Top.pass \in 1..3
  BY <1>1, <1>2 DEF FrameOK, FrameSet
<1>4. Body(Top) \in [1..3 -> Seq(ItemType)]
  <2>1. program \in [Mod \cup Template \cup Symbol -> [1..3 -> Seq(ItemType)]]
    BY ProgramsAssumption DEF TypeInv, Types
  <2>2. CASE Top.proc \in {"instance", "pass"}
    <3>1. Top.of \in 1..Len(inst)
      BY <1>1, <1>2, <2>2 DEF FrameOK, Made
    <3>2. inst[Top.of].key \in Template
      BY <3>1, InstTypes DEF TypeInv, Types
    <3> QED BY <2>1, <2>2, <3>2 DEF Body
  <2>3. CASE Top.proc \in {"module", "symbol"}
    <3>1. Top.of \in Mod \cup Symbol
      BY <1>2, <2>3 DEF FrameOK
    <3> QED BY <2>1, <2>3, <3>1 DEF Body
  <2> QED BY <1>3, <2>2, <2>3
<1>5. Items(Top) \in Seq(ItemType)
  BY <1>3, <1>4 DEF Items
<1>6. Top.i \in 1..Len(Items(Top))
  BY <1>1, <1>3, <1>5, LenProperties
<1>7. Item \in ItemType
  BY <1>5, <1>6, ElementOfSeq DEF Item
<1> QED BY <1>1, <1>2, <1>3, <1>7

(***************************************************************************)
(* Each action keeps the types and the calls in order.                      *)
(***************************************************************************)

LEMMA TypesAfter ==
    ASSUME Types, UNCHANGED <<program, semanticRun, symbol, todo>>,
           InstOK', ListsOK', CountsOK', RetOK'
    PROVE  Types'
  BY DEF Types, RunsOK

LEMMA TypesSame ==
    ASSUME Types, UNCHANGED <<program, inst, listed, semanticRun, symbol, ret, todo>>, CountsOK'
    PROVE  Types'
  BY TypesAfter, SameInst

\* Reporting adds errors, gagged or not.
LEMMA Reported ==
    ASSUME CountsOK, NEW n \in {0, 1}, Report(n), UNCHANGED gag
    PROVE  CountsOK' /\ gaggedErrors <= gaggedErrors'
  BY DEF CountsOK, Report

\* The end of gagging takes away the errors since its start.
LEMMA GaggingEnded ==
    ASSUME CountsOK, NEW old \in Nat, old <= gaggedErrors, gag > 0, EndGagging(old),
           UNCHANGED shown
    PROVE  CountsOK' /\ gaggedErrors' = old /\ gag' = gag - 1
  BY DEF CountsOK, EndGagging

\* An instance fails, and with it those it was made for.
LEMMA FailedChanged ==
    ASSUME Types, NEW n
    PROVE  /\ Changed(Failed(n))
           /\ n \in 1..Len(inst) => Failed(n)[n] = [inst[n] EXCEPT !.errors = TRUE]
<1>1. /\ Len(inst) \in Nat /\ DOMAIN inst = 1..Len(inst)
      /\ \A k \in 1..Len(inst) : inst[k] \in InstSet(Len(inst))
  BY InstTypes DEF Types
<1> DEFINE trace == IF inst[n].errors \/ gag > 0 THEN {} ELSE Chain(inst[n].tinst)
           J == [k \in DOMAIN inst |->
                   IF k \in trace \cup {n} THEN [inst[k] EXCEPT !.errors = TRUE] ELSE inst[k]]
<1>2. Failed(n) = J
  BY DEF Failed
<1> HIDE DEF trace
<1>3. ASSUME NEW k \in 1..Len(inst)
      PROVE  /\ [inst[k] EXCEPT !.errors = TRUE] \in InstSet(Len(inst))
             /\ [inst[k] EXCEPT !.errors = TRUE].key = inst[k].key
             /\ [inst[k] EXCEPT !.errors = TRUE].errors
  <2> DEFINE r == inst[k]
  <2>1. r \in InstSet(Len(inst))
    BY <1>1
  <2> HIDE DEF r
  <2>2. /\ [r EXCEPT !.errors = TRUE] \in InstSet(Len(inst))
        /\ [r EXCEPT !.errors = TRUE].key = r.key /\ [r EXCEPT !.errors = TRUE].errors
    BY <2>1 DEF InstSet
  <2> QED BY <2>2 DEF r
<1>4. J \in [1..Len(inst) -> InstSet(Len(inst))]
  BY <1>1, <1>3
<1>5. \A k \in 1..Len(inst) : J[k].key = inst[k].key /\ (inst[k].errors => J[k].errors)
  BY <1>1, <1>3
<1>6. \A k \in 1..Len(inst) : J[k].errors \in BOOLEAN
  <2>1. \A k \in 1..Len(inst) : J[k] \in InstSet(Len(inst))
    BY <1>4
  <2> HIDE DEF J
  <2> QED BY <2>1 DEF InstSet
<1>7. n \in 1..Len(inst) => J[n] = [inst[n] EXCEPT !.errors = TRUE]
  BY <1>1
<1> HIDE DEF J
<1> QED BY <1>2, <1>4, <1>5, <1>6, <1>7 DEF Changed

LEMMA ItemErrorOK ==
    ASSUME TypeInv, ItemError
    PROVE  TypeInv'
<1>1. /\ status = "running" /\ stack # <<>> /\ Top.pc = "members"
      /\ StackOK(Resume, inst, members, semanticRun, gag, gaggedErrors)
  BY ItemTypes, ResumeOK DEF ItemError
<1>2. PICK n \in {0, 1} : Report(n)
  BY DEF ItemError
<1>3. CountsOK' /\ gaggedErrors <= gaggedErrors' /\ gaggedErrors \in Nat /\ gaggedErrors' \in Nat
  BY <1>2, Reported DEF ItemError, TypeInv, Types, CountsOK
<1>4. StackOK(Resume, inst, members, semanticRun, gag, gaggedErrors')
  BY <1>1, <1>3, MoreErrors
<1>5. stack' = Resume /\ UNCHANGED <<inst, members, semanticRun, gag>>
  BY DEF ItemError, listed
<1>6. Stacked'
  BY <1>4, <1>5 DEF Stacked
<1>7. Types'
  BY <1>3, TypesSame DEF ItemError, TypeInv
<1> QED BY <1>6, <1>7 DEF TypeInv

\* The frame of a symbol, which remembers the level of gagging.
Opened(f, level) == [f EXCEPT !.pc = "members", !.gag = level]

LEMMA OpenedFields ==
    ASSUME NEW f \in FrameSet, NEW level \in Nat
    PROVE  /\ Opened(f, level) \in FrameSet /\ Opened(f, level).proc = f.proc
           /\ Opened(f, level).of = f.of /\ Opened(f, level).pass = f.pass
           /\ Opened(f, level).pc = "members" /\ Opened(f, level).gag = level
  BY DEF FrameSet, Opened

LEMMA SymbolFits ==
    ASSUME NEW s, NEW I, NEW mem, NEW sem, NEW e, NEW level \in Nat, NEW x \in Symbol
    PROVE  LET f == [Frame("symbol", x, 1) EXCEPT !.pc = "members", !.gag = level] IN
           f \in FrameSet /\ Fits(f, s, I, mem, sem, 0, level, e)
<1> DEFINE h == Frame("symbol", x, 1)
           f == Opened(h, level)
<1>1. NewFrame(h, "symbol", x, 1)
  BY FrameFields
<1> HIDE DEF h
<1>2. /\ f \in FrameSet /\ f.proc = "symbol" /\ f.of = x /\ f.pass = 1 /\ f.pc = "members"
      /\ f.gag = level
  BY <1>1, OpenedFields DEF NewFrame
<1> HIDE DEF f
<1>3. FrameOK(f, I) /\ ~Made(f) /\ ~Gags(f) /\ LevelStep(f, 0, level)
  BY <1>2 DEF FrameOK, Made, Gags, LevelStep
<1>4. Fits(f, s, I, mem, sem, 0, level, e)
  BY <1>2, <1>3 DEF Fits
<1> QED BY <1>2, <1>4 DEF f, h, Opened

LEMMA ItemSymbolOK ==
    ASSUME TypeInv, ItemSymbol
    PROVE  TypeInv'
<1>1. /\ status = "running" /\ stack # <<>> /\ Top.pc = "members" /\ Item \in ItemType
      /\ StackOK(Resume, inst, members, semanticRun, gag, gaggedErrors)
  BY ItemTypes, ResumeOK DEF ItemSymbol
<1>2. Item.of \in Symbol
  BY <1>1 DEF ItemSymbol, ItemType
<1>3. gag \in Nat /\ CountsOK
  BY DEF TypeInv, Types, CountsOK
<1>4. UNCHANGED <<inst, members, semanticRun, gaggedErrors>>
  BY DEF ItemSymbol, listed
<1>5. InstOK' /\ ListsOK' /\ RetOK'
  BY SameInst DEF ItemSymbol, TypeInv
<1>6. CASE symbol[Item.of] # init
  <2>1. UNCHANGED <<symbol, gag>> /\ stack' = Resume
    BY <1>6 DEF ItemSymbol
  <2>2. Stacked'
    BY <1>1, <1>4, <2>1 DEF Stacked
  <2>3. CountsOK'
    BY <1>3, <2>1 DEF CountsOK, ItemSymbol
  <2>4. Types'
    BY <2>1, <2>3, TypesSame DEF ItemSymbol, TypeInv
  <2> QED BY <2>2, <2>4 DEF TypeInv
<1>7. CASE symbol[Item.of] = init
  <2> DEFINE f == [Frame("symbol", Item.of, 1) EXCEPT !.pc = "members", !.gag = gag]
  <2>1. /\ stack' = <<f>> \o Resume /\ gag' = 0
        /\ symbol' = [symbol EXCEPT ![Item.of] = semantic]
    BY <1>7 DEF ItemSymbol
  <2>2. Fits(f, Resume, inst, members, semanticRun, 0, gag, gaggedErrors)
    BY <1>2, <1>3, SymbolFits
  <2> HIDE DEF f
  <2>3. Stacked'
    BY <1>1, <1>4, <2>1, <2>2, Push DEF Stacked
  <2>4. CountsOK'
    BY <1>3, <2>1 DEF CountsOK, ItemSymbol
  <2>5. semantic \in init..semanticdone /\ UNCHANGED semanticRun
    BY DEF ItemSymbol, semantic, semanticdone, init
  <2>7. RunsOK'
    BY <2>1, <2>5 DEF RunsOK, TypeInv, Types
  <2>6. Types'
    BY <1>5, <2>4, <2>7 DEF Types, TypeInv, ItemSymbol
  <2> QED BY <2>3, <2>6 DEF TypeInv
<1> QED BY <1>6, <1>7

LEMMA SymbolDoneOK ==
    ASSUME TypeInv, SymbolDone
    PROVE  TypeInv'
<1>1. status = "running" /\ stack # <<>> /\ Top.proc = "symbol"
  BY DEF SymbolDone, AllDone, At, Running
<1>2. PICK below \in Nat :
        /\ StackOK(Tail(stack), inst, members, semanticRun, below, gaggedErrors)
        /\ Fits(Top, Tail(stack), inst, members, semanticRun, gag, below, gaggedErrors)
  BY <1>1, TopFits
<1>3. Top.gag = below /\ Top.of \in Symbol
  BY <1>1, <1>2 DEF Fits, LevelStep, FrameOK
<1>4. /\ stack' = Tail(stack) /\ gag' = below
      /\ UNCHANGED <<inst, members, semanticRun, gaggedErrors>>
  BY <1>3 DEF SymbolDone, Return, listed
<1>5. Stacked'
  BY <1>2, <1>4 DEF Stacked
<1>6. CountsOK'
  BY <1>4 DEF SymbolDone, CountsOK, TypeInv, Types
<1>7. RunsOK'
  BY <1>3 DEF SymbolDone, RunsOK, TypeInv, Types, semantic, semanticdone, init
<1>8. InstOK' /\ ListsOK' /\ RetOK'
  BY SameInst DEF SymbolDone, TypeInv
<1>9. Types'
  BY <1>6, <1>7, <1>8 DEF Types, TypeInv, SymbolDone
<1> QED BY <1>5, <1>9 DEF TypeInv

\* The frame of a use, and that of the trial it may be in.
UseFrame(f, mode, tinst, root, func) ==
    [f EXCEPT !.mode = mode, !.tinst = tinst, !.root = root, !.func = func]

TrialFrame(f, mode, tinst, root, saved) ==
    [f EXCEPT !.mode = mode, !.tinst = tinst, !.root = root, !.gaggedErrors = saved,
              !.pc = "end"]

LEMMA UseFrameFields ==
    ASSUME NEW f \in FrameSet, NEW mode \in Mode, NEW tinst \in Nat, NEW root \in BOOLEAN,
           NEW func \in BOOLEAN
    PROVE  /\ UseFrame(f, mode, tinst, root, func) \in FrameSet
           /\ UseFrame(f, mode, tinst, root, func).proc = f.proc
           /\ UseFrame(f, mode, tinst, root, func).of = f.of
           /\ UseFrame(f, mode, tinst, root, func).pass = f.pass
           /\ UseFrame(f, mode, tinst, root, func).pc = f.pc
           /\ UseFrame(f, mode, tinst, root, func).gag = f.gag
           /\ UseFrame(f, mode, tinst, root, func).mode = mode
           /\ UseFrame(f, mode, tinst, root, func).tinst = tinst
           /\ UseFrame(f, mode, tinst, root, func).root = root
  BY DEF FrameSet, UseFrame

LEMMA TrialFrameFields ==
    ASSUME NEW f \in FrameSet, NEW mode \in Mode, NEW tinst \in Nat, NEW root \in BOOLEAN,
           NEW saved \in Nat
    PROVE  /\ TrialFrame(f, mode, tinst, root, saved) \in FrameSet
           /\ TrialFrame(f, mode, tinst, root, saved).proc = f.proc
           /\ TrialFrame(f, mode, tinst, root, saved).of = f.of
           /\ TrialFrame(f, mode, tinst, root, saved).pass = f.pass
           /\ TrialFrame(f, mode, tinst, root, saved).pc = "end"
           /\ TrialFrame(f, mode, tinst, root, saved).mode = mode
           /\ TrialFrame(f, mode, tinst, root, saved).tinst = tinst
           /\ TrialFrame(f, mode, tinst, root, saved).root = root
           /\ TrialFrame(f, mode, tinst, root, saved).gaggedErrors = saved
<1> DEFINE t == [f EXCEPT !.mode = mode, !.tinst = tinst, !.root = root]
<1>1. /\ t \in FrameSet /\ t.proc = f.proc /\ t.of = f.of /\ t.pass = f.pass
      /\ t.mode = mode /\ t.tinst = tinst /\ t.root = root
  BY DEF FrameSet
<1>2. TrialFrame(f, mode, tinst, root, saved) = [t EXCEPT !.gaggedErrors = saved, !.pc = "end"]
  BY DEF TrialFrame
<1> HIDE DEF t
<1> QED BY <1>1, <1>2 DEF FrameSet

\* A trial gags its use, and remembers the count of gagged errors.
LEMMA TrialFits ==
    ASSUME NEW s, NEW I, NEW mem, NEW sem, NEW g \in Nat, NEW e \in Nat,
           StackOK(s, I, mem, sem, g, e),
           NEW mode \in Mode, NEW tinst \in 0..Len(I), Len(I) \in Nat, NEW root \in BOOLEAN
    PROVE  Fits(TrialFrame(Frame("trial", 0, 0), mode, tinst, root, e), s, I, mem, sem, g + 1, g, e)
<1> DEFINE h == Frame("trial", 0, 0)
           f == TrialFrame(h, mode, tinst, root, e)
<1>1. NewFrame(h, "trial", 0, 0)
  BY FrameFields
<1>2. tinst \in Nat /\ h \in FrameSet /\ h.proc = "trial"
  BY <1>1 DEF NewFrame
<1> HIDE DEF h
<1>3. /\ f \in FrameSet /\ f.proc = "trial" /\ f.pc = "end" /\ f.tinst = tinst
      /\ f.gaggedErrors = e
  BY <1>2, TrialFrameFields
<1> HIDE DEF f
<1>4. FrameOK(f, I) /\ ~Made(f) /\ LevelStep(f, g + 1, g)
  BY <1>3 DEF FrameOK, Made, LevelStep
<1>5. \A k \in 1..Len(s) : Gags(s[k]) => s[k].gaggedErrors <= f.gaggedErrors
  BY <1>3 DEF StackOK, SavedNest
<1>6. Fits(f, s, I, mem, sem, g + 1, g, e)
  BY <1>3, <1>4, <1>5 DEF Fits
<1> QED BY <1>6 DEF f, h

\* The frame of the instance that an item uses.
LEMMA UseFresh ==
    ASSUME TypeInv, HasItem, NEW k \in Template, NEW mode \in Mode
    PROVE  /\ Fresh(Instantiate(k, mode), inst)
           /\ Instantiate(k, mode).tinst = IF Detached(mode) THEN 0 ELSE Enclosing(Top)
           /\ Instantiate(k, mode).root = (~Detached(mode) /\ Top.root)
           /\ Instantiate(k, mode).proc = "instance" /\ Instantiate(k, mode).pc = "enter"
           /\ Enclosing(Top) \in 0..Len(inst) /\ Top.root \in BOOLEAN
<1> DEFINE h == Frame("instance", k, 1)
           tinst == IF Detached(mode) THEN 0 ELSE Enclosing(Top)
           root == ~Detached(mode) /\ Top.root
           func == Top.pass = 3
           f == UseFrame(h, mode, tinst, root, func)
<1>1. NewFrame(h, "instance", k, 1)
  BY FrameFields
<1>2. FrameOK(Top, inst) /\ Len(inst) \in Nat /\ Top.pc = "members"
  BY ItemTypes, InstTypes DEF TypeInv, Types
<1>3. Enclosing(Top) \in 0..Len(inst)
  BY <1>2 DEF Enclosing, FrameOK, Made
<1>4. Top.root \in BOOLEAN
  BY <1>2 DEF FrameOK, FrameSet
<1>5. tinst \in Nat /\ tinst \in 0..Len(inst) /\ func \in BOOLEAN /\ root \in BOOLEAN
  BY <1>2, <1>3, <1>4
<1> HIDE DEF h, tinst, root, func
<1>6. /\ f \in FrameSet /\ f.proc = "instance" /\ f.of = k /\ f.pass = 1 /\ f.pc = "enter"
      /\ f.gag = 0 /\ f.tinst = tinst /\ f.root = root
  BY <1>1, <1>5, UseFrameFields DEF NewFrame
<1>7. f = Instantiate(k, mode)
  BY DEF f, h, tinst, root, func, UseFrame, Instantiate
<1> HIDE DEF f
<1>8. Fresh(f, inst)
  BY <1>5, <1>6 DEF Fresh, FrameOK, Made
<1> QED BY <1>3, <1>4, <1>6, <1>7, <1>8 DEF tinst, root

LEMMA ItemUseOK ==
    ASSUME TypeInv, ItemUse
    PROVE  TypeInv'
<1>1. /\ status = "running" /\ stack # <<>> /\ Top.pc = "members" /\ Item \in ItemType
      /\ StackOK(Resume, inst, members, semanticRun, gag, gaggedErrors)
  BY ItemTypes, ResumeOK DEF ItemUse
<1>2. Item.of \in Template /\ Item.mode \in Mode /\ "plain" \in Mode
  BY <1>1 DEF ItemUse, ItemType, Mode
<1>3. gag \in Nat /\ gaggedErrors \in Nat /\ CountsOK /\ Len(inst) \in Nat
  BY InstTypes DEF TypeInv, Types, CountsOK
<1>4. UNCHANGED <<inst, members, semanticRun, gaggedErrors>> /\ HasItem
  BY DEF ItemUse, listed
<1>5. CASE Item.mode = "plain"
  <2> DEFINE f == Instantiate(Item.of, "plain")
  <2>1. stack' = <<f>> \o Resume /\ UNCHANGED gag
    BY <1>5 DEF ItemUse
  <2>2. Fresh(f, inst)
    BY <1>2, <1>4, UseFresh
  <2> HIDE DEF f
  <2>3. Stacked'
    BY <1>1, <1>3, <1>4, <2>1, <2>2, FreshFits, Push DEF Stacked
  <2>4. CountsOK'
    BY <1>3, <2>1 DEF CountsOK, ItemUse
  <2>5. Types'
    BY <2>4, TypesSame DEF ItemUse, TypeInv
  <2> QED BY <2>3, <2>5 DEF TypeInv
<1>6. CASE Item.mode # "plain"
  <2> DEFINE f == Instantiate(Item.of, Item.mode)
             t == [Frame("trial", 0, 0) EXCEPT !.mode = Item.mode, !.tinst = Enclosing(Top),
                      !.root = Top.root, !.gaggedErrors = gaggedErrors, !.pc = "end"]
  <2>1. stack' = <<f, t>> \o Resume /\ gag' = gag + 1
    BY <1>6 DEF ItemUse
  <2>2. Fresh(f, inst) /\ Enclosing(Top) \in 0..Len(inst) /\ Top.root \in BOOLEAN
    BY <1>2, <1>4, UseFresh
  <2>3. t = TrialFrame(Frame("trial", 0, 0), Item.mode, Enclosing(Top), Top.root, gaggedErrors)
    BY DEF TrialFrame
  <2>4. Fits(t, Resume, inst, members, semanticRun, gag + 1, gag, gaggedErrors)
    BY <1>1, <1>2, <1>3, <2>2, <2>3, TrialFits
  <2> HIDE DEF f, t
  <2>5. StackOK(<<t>> \o Resume, inst, members, semanticRun, gag + 1, gaggedErrors)
    BY <1>1, <2>4, Push
  <2>6. StackOK(<<f>> \o (<<t>> \o Resume), inst, members, semanticRun, gag + 1, gaggedErrors)
    BY <1>3, <2>2, <2>5, FreshFits, Push
  <2>7. <<f, t>> \o Resume = <<f>> \o (<<t>> \o Resume)
    <3>1. f \in FrameSet /\ t \in FrameSet /\ Resume \in Seq(FrameSet)
      BY <1>1, <2>2, <2>4 DEF Fresh, Fits, FrameOK, StackOK
    <3> QED BY <3>1, TwoCalls
  <2>8. Stacked'
    BY <1>4, <2>1, <2>6, <2>7 DEF Stacked
  <2>9. CountsOK'
    BY <1>3, <2>1 DEF CountsOK, ItemUse
  <2>10. Types'
    BY <2>9, TypesSame DEF ItemUse, TypeInv
  <2> QED BY <2>8, <2>10 DEF TypeInv
<1> QED BY <1>5, <1>6

\* What the alias of is(... id) changes in the instance.
Leaked(r, tinst) == [r EXCEPT !.root = TRUE, !.tinst = IF @ = 0 THEN tinst ELSE @]

LEMMA LeakedFields ==
    ASSUME NEW N \in Nat, NEW r \in InstSet(N), NEW tinst \in 0..N
    PROVE  /\ Leaked(r, tinst) \in InstSet(N) /\ Leaked(r, tinst).key = r.key
           /\ Leaked(r, tinst).errors = r.errors /\ Leaked(r, tinst).root
           /\ Leaked(r, tinst).tinst = IF r.tinst = 0 THEN tinst ELSE r.tinst
  BY DEF InstSet, Leaked

LEMMA LeakChanged ==
    ASSUME Types, NEW f, f.tinst \in 0..Len(inst), ret.good, Leak(f)
    PROVE  InstOK' /\ Len(inst') = Len(inst) /\ Grown(inst, inst')
<1>1. CASE UNCHANGED inst
  BY <1>1, InstTypes DEF Types, InstOK, Grown
<1>2. CASE ~UNCHANGED inst
  <2> DEFINE r == Leaked(inst[ret.of], f.tinst)
  <2>1. inst' = [inst EXCEPT ![ret.of] = r]
    <3>1. f.mode = "alias" /\ f.root /\ ~inst[ret.of].root
      BY <1>2 DEF Leak
    <3> QED BY <3>1 DEF Leak, Leaked
  <2>2. ret.of \in 1..Len(inst) /\ Len(inst) \in Nat /\ inst[ret.of] \in InstSet(Len(inst))
    BY InstTypes DEF Types, RetOK
  <2>3. r \in InstSet(Len(inst)) /\ r.key = inst[ret.of].key /\ r.errors = inst[ret.of].errors
    BY <2>2, LeakedFields
  <2> HIDE DEF r
  <2>4. Changed(inst')
    BY <2>1, <2>2, <2>3, OneChanged
  <2> QED BY <2>4, ChangedInst
<1> QED BY <1>1, <1>2

LEMMA TrialEndOK ==
    ASSUME TypeInv, TrialEnd
    PROVE  TypeInv'
<1>1. status = "running" /\ stack # <<>> /\ Top.proc = "trial"
  BY DEF TrialEnd, At, Running
<1>2. PICK below \in Nat :
        /\ StackOK(Tail(stack), inst, members, semanticRun, below, gaggedErrors)
        /\ Fits(Top, Tail(stack), inst, members, semanticRun, gag, below, gaggedErrors)
  BY <1>1, TopFits
<1>3. /\ gag = below + 1 /\ Top.tinst \in 0..Len(inst) /\ Gags(Top)
      /\ Top.gaggedErrors \in Nat /\ Top.gaggedErrors <= gaggedErrors
  BY <1>1, <1>2 DEF Fits, LevelStep, FrameOK, Gags, FrameSet
<1>4. /\ stack' = Tail(stack) /\ EndGagging(Top.gaggedErrors)
      /\ UNCHANGED <<program, listed, members, semanticRun, symbol, shown, ret, todo, status>>
  BY DEF TrialEnd, Return, listed
<1>5. CountsOK' /\ gaggedErrors' = Top.gaggedErrors /\ gag' = below
  <2>1. gag > 0 /\ gag - 1 = below
    BY <1>3
  <2> QED BY <1>3, <1>4, <2>1, GaggingEnded DEF TypeInv, Types
<1>6. InstOK' /\ Len(inst') = Len(inst) /\ Grown(inst, inst')
  <2>1. CASE UNCHANGED inst
    BY <2>1, InstTypes DEF TypeInv, Types, InstOK, Grown
  <2>2. CASE ~UNCHANGED inst
    <3>1. ret.good /\ Leak(Top)
      BY <2>2 DEF TrialEnd
    <3> QED BY <1>3, <3>1, LeakChanged DEF TypeInv
  <2> QED BY <2>1, <2>2
<1>7. ListsOK' /\ RetOK'
  BY <1>4, <1>6 DEF ListsOK, RetOK, listed, TypeInv, Types
<1>8. Types'
  BY <1>4, <1>5, <1>6, <1>7, TypesAfter DEF TypeInv
<1>9. StackOK(Tail(stack), inst', members, semanticRun, below, Top.gaggedErrors)
  BY <1>2, <1>3, <1>6, Ended, Grow
<1>10. Stacked'
  BY <1>4, <1>5, <1>9 DEF Stacked
<1> QED BY <1>8, <1>10 DEF TypeInv

\* What a use changes in the instance it finds.
Matched(r, gagged, root, tinst) == [r EXCEPT !.gagged = gagged, !.root = root, !.tinst = tinst]

LEMMA MatchedFields ==
    ASSUME NEW N \in Nat, NEW r \in InstSet(N), NEW gagged \in BOOLEAN, NEW root \in BOOLEAN,
           NEW tinst \in 0..N
    PROVE  /\ Matched(r, gagged, root, tinst) \in InstSet(N)
           /\ Matched(r, gagged, root, tinst).key = r.key
           /\ Matched(r, gagged, root, tinst).errors = r.errors
           /\ Matched(r, gagged, root, tinst).live = r.live
           /\ Matched(r, gagged, root, tinst).root = root
           /\ Matched(r, gagged, root, tinst).tinst = tinst
  BY DEF InstSet, Matched

\* The instance that a use finds, and what becomes of it.
MatchedBy(e) ==
    Matched(inst[e], inst[e].gagged /\ gag > 0, inst[e].root \/ Swaps(e),
            IF Swaps(e) THEN Top.tinst ELSE inst[e].tinst)

MatchStep(e) ==
    /\ e \in table[Top.of] /\ e \in 1..Len(inst) /\ inst[e].key \in Template
    /\ inst' = [inst EXCEPT ![e] = MatchedBy(e)]
    /\ MatchedBy(e) \in InstSet(Len(inst))
    /\ MatchedBy(e).key = inst[e].key /\ MatchedBy(e).errors = inst[e].errors
    /\ MatchedBy(e).live = inst[e].live
    /\ MatchedBy(e).root = (inst[e].root \/ Top.root)
    /\ MatchedBy(e).tinst = IF Swaps(e) THEN Top.tinst ELSE inst[e].tinst
    /\ ret' = [of |-> e, good |-> ~inst[e].errors]
    /\ LET n == IF inst[e].errors THEN 1 ELSE 0 IN
       errors' = errors + n /\ gaggedErrors' = gaggedErrors + n

LEMMA MatchDoes ==
    ASSUME TypeInv, Match
    PROVE  /\ status = "running" /\ stack # <<>> /\ Top.proc = "instance" /\ Top.pc = "enter"
           /\ stack' = Tail(stack) /\ \E e : MatchStep(e)
<1>1. status = "running" /\ stack # <<>> /\ Top.proc = "instance" /\ Top.pc = "enter"
  BY DEF Match, At, Running
<1>2. Top.of \in Template /\ Top.tinst \in 0..Len(inst) /\ Top.root \in BOOLEAN
  BY <1>1, TopFits DEF FrameOK, FrameSet
<1>3. PICK e \in table[Top.of] :
        /\ inst' = [inst EXCEPT ![e] = MatchedBy(e)]
        /\ ret' = [of |-> e, good |-> ~inst[e].errors]
        /\ errors' = errors + (IF inst[e].errors THEN 1 ELSE 0)
        /\ gaggedErrors' = gaggedErrors + (IF inst[e].errors THEN 1 ELSE 0)
  BY DEF Match, MatchedBy, Matched
<1>4. e \in 1..Len(inst)
  BY <1>2 DEF TypeInv, Types, ListsOK
<1>5. Len(inst) \in Nat /\ inst[e] \in InstSet(Len(inst)) /\ inst[e].key \in Template
  BY <1>4, InstTypes DEF TypeInv, Types
<1>6. /\ inst[e].gagged \in BOOLEAN /\ inst[e].root \in BOOLEAN
      /\ inst[e].tinst \in 0..Len(inst)
  <2> DEFINE r == inst[e]
  <2>1. r \in InstSet(Len(inst))
    BY <1>5
  <2> HIDE DEF r
  <2>2. r.gagged \in BOOLEAN /\ r.root \in BOOLEAN /\ r.tinst \in 0..Len(inst)
    BY <2>1 DEF InstSet
  <2> QED BY <2>2 DEF r
<1> DEFINE gagged == inst[e].gagged /\ gag > 0
           root == inst[e].root \/ Swaps(e)
           tinst == IF Swaps(e) THEN Top.tinst ELSE inst[e].tinst
<1>7. gagged \in BOOLEAN /\ root \in BOOLEAN /\ tinst \in 0..Len(inst)
  BY <1>2, <1>6 DEF Swaps
<1>8. root = (inst[e].root \/ Top.root)
  BY <1>2, <1>6 DEF Swaps
<1>9. MatchedBy(e) = Matched(inst[e], gagged, root, tinst)
  BY DEF MatchedBy
<1> HIDE DEF gagged, root, tinst
<1>10. /\ MatchedBy(e) \in InstSet(Len(inst)) /\ MatchedBy(e).key = inst[e].key
       /\ MatchedBy(e).errors = inst[e].errors /\ MatchedBy(e).live = inst[e].live
       /\ MatchedBy(e).root = root /\ MatchedBy(e).tinst = tinst
  <2> DEFINE r == inst[e]
  <2>1. r \in InstSet(Len(inst)) /\ Len(inst) \in Nat
    BY <1>5
  <2> HIDE DEF r
  <2>2. /\ Matched(r, gagged, root, tinst) \in InstSet(Len(inst))
        /\ Matched(r, gagged, root, tinst).key = r.key
        /\ Matched(r, gagged, root, tinst).errors = r.errors
        /\ Matched(r, gagged, root, tinst).live = r.live
        /\ Matched(r, gagged, root, tinst).root = root
        /\ Matched(r, gagged, root, tinst).tinst = tinst
    BY <1>7, <2>1, MatchedFields, Zenon
  <2> QED BY <1>9, <2>2, Zenon DEF r
<1>11. MatchStep(e)
  BY <1>3, <1>4, <1>5, <1>8, <1>10 DEF MatchStep, tinst
<1> QED BY <1>1, <1>11 DEF Match, Return

LEMMA MatchOK ==
    ASSUME TypeInv, Match
    PROVE  TypeInv'
<1>1. /\ status = "running" /\ stack # <<>> /\ Top.proc = "instance" /\ Top.pc = "enter"
      /\ stack' = Tail(stack)
  BY MatchDoes
<1>2. PICK e : MatchStep(e)
  BY MatchDoes
<1>3. UNCHANGED <<program, listed, members, semanticRun, symbol, gag, shown, todo, status>>
  BY DEF Match, listed
<1>4. Changed(inst')
  BY <1>2, OneChanged DEF MatchStep, TypeInv
<1>5. InstOK' /\ Len(inst') = Len(inst) /\ Grown(inst, inst') /\ ListsOK'
  BY <1>3, <1>4, ChangedInst DEF TypeInv
<1>6. RetOK'
  BY <1>2, <1>5 DEF MatchStep, RetOK
<1>7. CountsOK /\ errors \in Nat /\ gaggedErrors \in Nat
  BY DEF TypeInv, Types, CountsOK
<1>8. /\ errors' \in Nat /\ gaggedErrors' \in Nat /\ gaggedErrors <= gaggedErrors'
      /\ errors' >= gaggedErrors'
  BY <1>2, <1>7 DEF MatchStep, CountsOK
<1>9. CountsOK'
  BY <1>3, <1>7, <1>8 DEF CountsOK
<1>10. Types'
  BY <1>3, <1>5, <1>6, <1>9, TypesAfter DEF TypeInv
<1>11. StackOK(Tail(stack), inst, members, semanticRun, gag, gaggedErrors)
  BY <1>1, ReturnOK DEF Gags
<1>12. StackOK(Tail(stack), inst', members, semanticRun, gag, gaggedErrors')
  BY <1>5, <1>7, <1>8, <1>11, Grow, MoreErrors
<1>13. Stacked'
  BY <1>1, <1>3, <1>12 DEF Stacked
<1> QED BY <1>10, <1>13 DEF TypeInv

\* The frame of an instance once it is made.
MadeFrame(f, n, e, saved, index) ==
    [f EXCEPT !.pc = "members", !.of = n, !.errinst = e, !.errors = saved, !.index = index]

LEMMA MadeFrameFields ==
    ASSUME NEW f \in FrameSet, NEW n \in Nat, NEW e \in Nat, NEW saved \in Nat, NEW index \in Nat
    PROVE  /\ MadeFrame(f, n, e, saved, index) \in FrameSet
           /\ MadeFrame(f, n, e, saved, index).proc = f.proc
           /\ MadeFrame(f, n, e, saved, index).pass = f.pass
           /\ MadeFrame(f, n, e, saved, index).tinst = f.tinst
           /\ MadeFrame(f, n, e, saved, index).gag = f.gag
           /\ MadeFrame(f, n, e, saved, index).root = f.root
           /\ MadeFrame(f, n, e, saved, index).mode = f.mode
           /\ MadeFrame(f, n, e, saved, index).pc = "members"
           /\ MadeFrame(f, n, e, saved, index).of = n
           /\ MadeFrame(f, n, e, saved, index).errinst = e
           /\ MadeFrame(f, n, e, saved, index).index = index
<1> DEFINE t == [f EXCEPT !.pc = "members", !.of = n, !.errinst = e]
<1>1. /\ t \in FrameSet /\ t.proc = f.proc /\ t.pass = f.pass /\ t.tinst = f.tinst
      /\ t.gag = f.gag /\ t.root = f.root /\ t.mode = f.mode
      /\ t.pc = "members" /\ t.of = n /\ t.errinst = e
  BY DEF FrameSet
<1> DEFINE u == [t EXCEPT !.errors = saved]
<1>2. MadeFrame(f, n, e, saved, index) = [u EXCEPT !.index = index]
  BY DEF MadeFrame
<1> HIDE DEF t
<1>3. /\ u \in FrameSet /\ u.proc = f.proc /\ u.pass = f.pass /\ u.tinst = f.tinst
      /\ u.gag = f.gag /\ u.root = f.root /\ u.mode = f.mode
      /\ u.pc = "members" /\ u.of = n /\ u.errinst = e
  BY <1>1 DEF FrameSet
<1> HIDE DEF u
<1> QED BY <1>2, <1>3 DEF FrameSet

\* The record of a new instance.
NewInst(k, root, tinst) ==
    [key |-> k, gagged |-> MadeGagged, errors |-> FALSE, semanticRun |-> semantic, live |-> TRUE,
     root |-> root, tinst |-> tinst, collects |-> FALSE, deferred |-> <<>>]

\* A making of an instance, that is the n-th.
ImplementStep(n, e, m) ==
    /\ n = Len(inst) + 1 /\ Len(inst) \in Nat /\ m = Home[Top.of] /\ m \in Mod
    /\ Top.of \in Template /\ e \in table[Top.of] \cup {0} /\ e \in 0..Len(inst)
    /\ e = 0 => table[Top.of] = {}
    /\ e # 0 => inst[e].errors
    /\ stack' = <<MadeFrame(Top, n, e, errors, Len(members[m]) + 1)>> \o Tail(stack)
    /\ inst' = Append(inst, NewInst(Top.of, Top.root, Top.tinst))
    /\ table' = [table EXCEPT ![Top.of] = @ \cup {n}]
    /\ members' = [members EXCEPT ![m] = Append(@, n)]

LEMMA ImplementDoes ==
    ASSUME TypeInv, Implement
    PROVE  /\ status = "running" /\ stack # <<>> /\ Top.proc = "instance" /\ Top.pc = "enter"
           /\ Top \in FrameSet /\ Top.tinst \in 0..Len(inst) /\ Top.pass = 1
           /\ \E e : ImplementStep(Len(inst) + 1, e, Home[Top.of])
<1>1. status = "running" /\ stack # <<>> /\ Top.proc = "instance" /\ Top.pc = "enter"
  BY DEF Implement, At, Running
<1>2. /\ Top.of \in Template /\ Top.tinst \in 0..Len(inst) /\ Top \in FrameSet /\ Top.pass = 1
      /\ Len(inst) \in Nat /\ Home[Top.of] \in Mod
  BY <1>1, TopFits, InstTypes, ModulesAssumption DEF FrameOK, TypeInv, Types
<1>3. PICK e \in table[Top.of] \cup {0} :
        /\ e = 0 => table[Top.of] = {}
        /\ e # 0 => inst[e].errors
        /\ stack' = <<MadeFrame(Top, Len(inst) + 1, e, errors, Len(members[Home[Top.of]]) + 1)>>
                    \o Tail(stack)
  BY DEF Implement, Continue, MadeFrame, MustRepeat, AppendedAt
<1>4. e \in 0..Len(inst)
  BY <1>2 DEF TypeInv, Types, ListsOK
<1>5. ImplementStep(Len(inst) + 1, e, Home[Top.of])
  BY <1>2, <1>3, <1>4 DEF Implement, ImplementStep, NewInst
<1> QED BY <1>1, <1>2, <1>5

\* A sequence over a set is one over a larger set.
LEMMA WiderSeq ==
    ASSUME NEW S, NEW T, S \subseteq T, NEW s \in Seq(S)
    PROVE  s \in Seq(T)
<1>1. \A i \in 1..Len(s) : s[i] \in T
  BY ElementOfSeq
<1>2. s = [i \in 1..Len(s) |-> s[i]] /\ Len(s) \in Nat
  OBVIOUS
<1> QED BY <1>1, <1>2

LEMMA WiderInst ==
    ASSUME NEW N \in Nat, NEW r \in InstSet(N)
    PROVE  r \in InstSet(N + 1)
<1>1. r.deferred \in Seq(1..N + 1)
  <2>1. r.deferred \in Seq(1..N) /\ 1..N \subseteq 1..N + 1
    BY DEF InstSet
  <2> QED BY <2>1, WiderSeq
<1>2. r.tinst \in 0..N + 1
  BY DEF InstSet
<1> QED BY <1>1, <1>2 DEF InstSet

\* The instances after one is made.
LEMMA ImplementInst ==
    ASSUME Types, NEW e, NEW m, ImplementStep(Len(inst) + 1, e, m),
           Top.root \in BOOLEAN, Top.tinst \in 0..Len(inst)
    PROVE  /\ inst' \in Seq(InstSet(Len(inst) + 1)) /\ Len(inst') = Len(inst) + 1
           /\ Len(inst) \in Nat /\ Grown(inst, inst')
           /\ \A n \in 1..Len(inst) : inst'[n] = inst[n]
           /\ inst'[Len(inst) + 1] = NewInst(Top.of, Top.root, Top.tinst)
<1> DEFINE N == Len(inst)
           new == NewInst(Top.of, Top.root, Top.tinst)
<1>1. N \in Nat /\ \A n \in 1..N : inst[n] \in InstSet(N)
  BY InstTypes DEF Types
<1>2. new \in InstSet(N + 1)
  <2>1. /\ Top.of \in Template /\ Top.tinst \in 0..N + 1 /\ semantic \in init..semantic3
        /\ <<>> \in Seq(1..N + 1) /\ MadeGagged \in BOOLEAN
    BY <1>1 DEF ImplementStep, semantic, init, semantic3, MadeGagged
  <2> QED BY <2>1 DEF InstSet, NewInst
<1>3. inst \in Seq(InstSet(N + 1))
  <2>1. \A n \in 1..N : inst[n] \in InstSet(N + 1)
    BY <1>1, WiderInst
  <2>2. inst \in Seq(InstSet(N)) /\ inst = [n \in 1..N |-> inst[n]]
    BY DEF Types, InstOK
  <2> HIDE DEF N
  <2> QED BY <1>1, <2>1, <2>2
<1>4. inst' = Append(inst, new)
  BY DEF ImplementStep
<1> HIDE DEF new
<1>5. /\ inst' \in Seq(InstSet(N + 1)) /\ Len(inst') = N + 1
      /\ \A n \in 1..N : inst'[n] = inst[n]
      /\ inst'[N + 1] = new
  BY <1>1, <1>2, <1>3, <1>4, AppendProperties
<1>6. Grown(inst, inst')
  BY <1>1, <1>5 DEF Grown
<1> QED BY <1>1, <1>5, <1>6 DEF new

LEMMA ImplementOK ==
    ASSUME TypeInv, Implement
    PROVE  TypeInv'
<1>1. /\ status = "running" /\ stack # <<>> /\ Top.proc = "instance" /\ Top.pc = "enter"
      /\ Top \in FrameSet /\ Top.tinst \in 0..Len(inst) /\ Top.pass = 1
  BY ImplementDoes
<1> DEFINE n == Len(inst) + 1
           m == Home[Top.of]
<1>2. PICK e : ImplementStep(n, e, m)
  BY ImplementDoes
<1>3. Top.root \in BOOLEAN
  BY <1>1 DEF FrameSet
<1>4. /\ inst' \in Seq(InstSet(n)) /\ Len(inst') = n /\ Len(inst) \in Nat /\ Grown(inst, inst')
      /\ \A x \in 1..Len(inst) : inst'[x] = inst[x]
      /\ inst'[n] = NewInst(Top.of, Top.root, Top.tinst)
  BY <1>1, <1>2, <1>3, ImplementInst DEF TypeInv
<1>5. InstOK'
  BY <1>4 DEF InstOK
<1>6. n \in 1..n /\ 1..Len(inst) \subseteq 1..n /\ n \in Nat /\ 0..Len(inst) \subseteq 0..n
  BY <1>4
<1>7. m \in Mod /\ Top.of \in Template /\ e \in 0..Len(inst) /\ (e # 0 => inst[e].errors)
  BY <1>2 DEF ImplementStep
<1>8. /\ table \in [Template -> SUBSET (1..Len(inst))] /\ members \in [Mod -> Seq(1..Len(inst))]
      /\ deferred2 \in Seq(1..Len(inst)) /\ deferred3 \in Seq(1..Len(inst))
  BY DEF TypeInv, Types, ListsOK
<1> HIDE DEF n, m
<1>9. table' \in [Template -> SUBSET (1..n)]
  BY <1>2, <1>6, <1>7, <1>8 DEF ImplementStep
<1>10. members' \in [Mod -> Seq(1..n)]
  <2>1. \A x \in Mod : members[x] \in Seq(1..n)
    BY <1>6, <1>8, WiderSeq
  <2>2. Append(members[m], n) \in Seq(1..n)
    BY <1>6, <1>7, <2>1, AppendProperties
  <2>3. members' = [members EXCEPT ![m] = Append(members[m], n)] /\ DOMAIN members = Mod
        /\ members = [x \in Mod |-> members[x]]
    BY <1>2, <1>8 DEF ImplementStep
  <2> QED BY <1>7, <2>1, <2>2, <2>3
<1>11. deferred2' \in Seq(1..n) /\ deferred3' \in Seq(1..n)
  <2>1. deferred2 \in Seq(1..n) /\ deferred3 \in Seq(1..n)
    BY <1>6, <1>8, WiderSeq
  <2>2. Append(deferred2, n) \in Seq(1..n) /\ Append(deferred3, n) \in Seq(1..n)
    BY <1>6, <2>1, AppendProperties
  <2>3. deferred2' \in {deferred2, Append(deferred2, n)} /\ deferred3' \in {deferred3, Append(deferred3, n)}
    BY DEF Implement, n
  <2> QED BY <2>1, <2>2, <2>3
<1>12. ListsOK'
  BY <1>4, <1>9, <1>10, <1>11 DEF ListsOK
<1>13. UNCHANGED <<program, semanticRun, symbol, gag, errors, gaggedErrors, shown, ret, todo, status>>
  BY DEF Implement, counters
<1>14. CountsOK' /\ RetOK'
  BY <1>4, <1>6, <1>13 DEF TypeInv, Types, CountsOK, RetOK
<1>15. Types'
  BY <1>5, <1>12, <1>13, <1>14, TypesAfter DEF TypeInv
<1> DEFINE t == Tail(stack)
           i == Len(members[m]) + 1
           f == MadeFrame(Top, n, e, errors, i)
           more == [members EXCEPT ![m] = Append(@, n)]
<1>16. members' = more /\ stack' = <<f>> \o t
  BY <1>2 DEF ImplementStep
<1>17. /\ StackOK(t, inst', members, semanticRun, gag, gaggedErrors)
  <2>1. StackOK(t, inst, members, semanticRun, gag, gaggedErrors)
    BY <1>1, ReturnOK DEF Gags
  <2> QED BY <1>4, <2>1, Grow
<1>18. \A x \in 1..Len(inst') : HomeOf(x, inst') \in Mod
  <2>1. \A x \in 1..n : inst'[x] \in InstSet(n)
    BY <1>4, ElementOfSeq
  <2>2. \A x \in 1..n : inst'[x].key \in Template
    BY <2>1 DEF InstSet
  <2> QED BY <1>4, <2>2, ModulesAssumption DEF HomeOf
<1>19. /\ StackOK(t, inst', more, semanticRun, gag, gaggedErrors)
       /\ \A k \in 1..Len(t) : Made(t[k]) /\ HomeOf(t[k].of, inst') = m => t[k].index < i
  <2>1. DOMAIN members = Mod /\ \A x \in Mod : \E S : members[x] \in Seq(S)
    BY <1>8
  <2> HIDE DEF t
  <2> QED BY <1>7, <1>17, <1>18, <2>1, Appended
<1>20. /\ i \in Nat /\ members[m] \in Seq(1..Len(inst)) /\ Len(more[m]) = i /\ more[m][i] = n
       /\ i \in 1..Len(more[m])
  <2>1. members[m] \in Seq(1..n) /\ members[m] \in Seq(1..Len(inst))
    BY <1>6, <1>7, <1>8, WiderSeq
  <2>2. more[m] = Append(members[m], n)
    BY <1>7, <1>8
  <2>3. /\ Len(Append(members[m], n)) = Len(members[m]) + 1 /\ Len(members[m]) \in Nat
        /\ Append(members[m], n)[Len(members[m]) + 1] = n
    BY <1>6, <2>1, AppendProperties, LenProperties
  <2> QED BY <2>1, <2>2, <2>3
<1>21. /\ f \in FrameSet /\ f.proc = "instance" /\ f.pass = 1 /\ f.tinst = Top.tinst
       /\ f.pc = "members" /\ f.of = n /\ f.errinst = e /\ f.index = i
  <2>1. e \in Nat /\ errors \in Nat
    BY <1>4, <1>7 DEF TypeInv, Types, CountsOK
  <2>2. i \in Nat /\ n \in Nat /\ Top \in FrameSet
    BY <1>1, <1>6, <1>20
  <2> HIDE DEF i, more, t, f
  <2> DEFINE h == Top
             s == errors
  <2>3. h \in FrameSet /\ s \in Nat
    BY <2>1, <2>2
  <2> HIDE DEF h, s
  <2>4. /\ MadeFrame(h, n, e, s, i) \in FrameSet
        /\ MadeFrame(h, n, e, s, i).proc = h.proc /\ MadeFrame(h, n, e, s, i).pass = h.pass
        /\ MadeFrame(h, n, e, s, i).tinst = h.tinst /\ MadeFrame(h, n, e, s, i).pc = "members"
        /\ MadeFrame(h, n, e, s, i).of = n /\ MadeFrame(h, n, e, s, i).errinst = e
        /\ MadeFrame(h, n, e, s, i).index = i
    BY <2>1, <2>2, <2>3, MadeFrameFields
  <2> QED BY <1>1, <2>4 DEF f, h, s
<1>22. gag \in Nat /\ inst'[n].key = Top.of
  BY <1>4 DEF TypeInv, Types, CountsOK, NewInst
<1> HIDE DEF f, t, i, more
<1>23. FrameOK(f, inst') /\ Made(f) /\ ~Gags(f) /\ LevelStep(f, gag, gag)
  <2>1. e # 0 => inst'[e].errors
    BY <1>4, <1>7
  <2>2. e \in 0..Len(inst') /\ n \in 1..Len(inst') /\ Top.tinst \in 0..Len(inst')
    BY <1>1, <1>4, <1>6, <1>7
  <2> QED BY <1>21, <2>1, <2>2 DEF FrameOK, Made, Gags, LevelStep
<1>24. HomeOf(f.of, inst') = m
  BY <1>21, <1>22 DEF HomeOf, m
<1>25. Fits(f, t, inst', more, semanticRun, gag, gag, gaggedErrors)
  BY <1>19, <1>20, <1>21, <1>22, <1>23, <1>24 DEF Fits
<1>26. StackOK(<<f>> \o t, inst', more, semanticRun, gag, gaggedErrors)
  BY <1>19, <1>25, Push
<1>27. Stacked'
  BY <1>13, <1>16, <1>26 DEF Stacked
<1> QED BY <1>15, <1>27 DEF TypeInv

\* Steps that leave the lists and the counts alone.
LEMMA StepChanged ==
    ASSUME TypeInv, Changed(inst'),
           UNCHANGED <<program, listed, semanticRun, symbol, counters, shown, ret, todo>>,
           StackOK(stack', inst, members, semanticRun, gag, gaggedErrors)
    PROVE  TypeInv'
<1>1. InstOK' /\ Grown(inst, inst') /\ ListsOK' /\ RetOK'
  BY ChangedInst DEF TypeInv
<1>2. CountsOK'
  BY DEF TypeInv, Types, CountsOK, counters
<1>3. Types'
  BY <1>1, <1>2, TypesAfter DEF TypeInv
<1>4. StackOK(stack', inst', members, semanticRun, gag, gaggedErrors)
  BY <1>1, Grow
<1>5. Stacked'
  BY <1>4 DEF Stacked, listed, counters
<1> QED BY <1>3, <1>5 DEF TypeInv

LEMMA StepSame ==
    ASSUME TypeInv,
           UNCHANGED <<program, inst, listed, semanticRun, symbol, counters, shown, ret, todo>>,
           StackOK(stack', inst, members, semanticRun, gag, gaggedErrors)
    PROVE  TypeInv'
<1>1. CountsOK'
  BY DEF TypeInv, Types, CountsOK, counters
<1>2. Types'
  BY <1>1, TypesSame DEF TypeInv
<1>3. Stacked'
  BY DEF Stacked, listed, counters
<1> QED BY <1>2, <1>3 DEF TypeInv

\* Changes of one field of an instance.
LEMMA RunChanged ==
    ASSUME Types, NEW n \in 1..Len(inst), NEW run \in init..semantic3
    PROVE  /\ Changed([inst EXCEPT ![n].semanticRun = run])
           /\ Changed([inst EXCEPT ![n].collects = TRUE])
           /\ Changed([inst EXCEPT ![n] = [@ EXCEPT !.collects = FALSE, !.deferred = <<>>]])
<1> DEFINE r == inst[n]
<1>1. r \in InstSet(Len(inst)) /\ Len(inst) \in Nat
  BY InstTypes DEF Types
<1> HIDE DEF r
<1>2. /\ [r EXCEPT !.semanticRun = run] \in InstSet(Len(inst))
      /\ [r EXCEPT !.semanticRun = run].key = r.key
      /\ [r EXCEPT !.semanticRun = run].errors = r.errors
  BY <1>1 DEF InstSet
<1>3. /\ [r EXCEPT !.collects = TRUE] \in InstSet(Len(inst))
      /\ [r EXCEPT !.collects = TRUE].key = r.key
      /\ [r EXCEPT !.collects = TRUE].errors = r.errors
  BY <1>1 DEF InstSet
<1>4. /\ [r EXCEPT !.collects = FALSE, !.deferred = <<>>] \in InstSet(Len(inst))
      /\ [r EXCEPT !.collects = FALSE, !.deferred = <<>>].key = r.key
      /\ [r EXCEPT !.collects = FALSE, !.deferred = <<>>].errors = r.errors
  <2>1. <<>> \in Seq(1..Len(inst))
    OBVIOUS
  <2> QED BY <1>1, <2>1 DEF InstSet
<1>5. Changed([inst EXCEPT ![n] = [r EXCEPT !.semanticRun = run]])
  BY <1>2, OneChanged DEF r
<1>6. Changed([inst EXCEPT ![n] = [r EXCEPT !.collects = TRUE]])
  BY <1>3, OneChanged DEF r
<1>7. Changed([inst EXCEPT ![n] = [r EXCEPT !.collects = FALSE, !.deferred = <<>>]])
  BY <1>4, OneChanged DEF r
<1> QED BY <1>5, <1>6, <1>7 DEF r

\* A made instance goes on to another part of its analysis.
LEMMA MadeGoes ==
    ASSUME TypeInv, status = "running", stack # <<>>, Made(Top),
           NEW pc \in {"members", "initialized", "collected", "enlist", "after"}
    PROVE  /\ Moves(Top, Goto(pc)) /\ Moves(Top, [Top EXCEPT !.pc = pc, !.i = 1])
           /\ Top.pc = "collected" => Moves(Top, Next1)
           /\ Top.of \in 1..Len(inst) /\ Len(inst) \in Nat
           /\ inst[Top.of] \in InstSet(Len(inst)) /\ inst[Top.of].key \in Template
           /\ Top.errinst \in 0..Len(inst)
           /\ Top.errinst # 0 => inst[Top.errinst].errors
<1>1. FrameOK(Top, inst) /\ Top \in FrameSet /\ pc \in Pc
  BY TopFits DEF FrameOK, Pc
<1>2. Goto(pc) = Going(Top, pc) /\ [Top EXCEPT !.pc = pc, !.i = 1] = Going1(Top, pc)
      /\ Next1 = Going2(Top)
  BY DEF Goto, Going, Going1, Going2, Next1
<1>3. /\ Same(Top, Going(Top, pc)) /\ Going(Top, pc).pc = pc
      /\ Same(Top, Going1(Top, pc)) /\ Going1(Top, pc).pc = pc
      /\ Same(Top, Going2(Top)) /\ Going2(Top).pc = Top.pc
  BY <1>1, GoingFields
<1>4. Moves(Top, Goto(pc)) /\ Moves(Top, [Top EXCEPT !.pc = pc, !.i = 1])
  BY <1>2, <1>3 DEF Moves, Made
<1>5. Top.pc = "collected" => Moves(Top, Next1)
  BY <1>2, <1>3 DEF Moves, Made
<1>6. Top.of \in 1..Len(inst) /\ Top.errinst \in 0..Len(inst)
      /\ (Top.errinst # 0 => inst[Top.errinst].errors)
  BY <1>1 DEF FrameOK
<1>7. Len(inst) \in Nat /\ inst[Top.of] \in InstSet(Len(inst)) /\ inst[Top.of].key \in Template
  BY <1>6, InstTypes DEF TypeInv, Types
<1> QED BY <1>4, <1>5, <1>6, <1>7

LEMMA InstanceExpandedOK ==
    ASSUME TypeInv, InstanceExpanded
    PROVE  TypeInv'
<1>1. status = "running" /\ stack # <<>> /\ Made(Top)
  BY DEF InstanceExpanded, AllDone, At, Running, Made
<1>2. Top.of \in 1..Len(inst) /\ Len(inst) \in Nat
      /\ Moves(Top, Goto("after")) /\ Moves(Top, Goto("initialized"))
  BY <1>1, MadeGoes
<1>3. Changed(inst')
  <2>1. semanticdone \in init..semantic3
    BY DEF semanticdone, init, semantic3
  <2> QED BY <1>2, <2>1, RunChanged DEF InstanceExpanded, TypeInv
<1>4. StackOK(stack', inst, members, semanticRun, gag, gaggedErrors)
  <2>1. CASE errors # Top.errors
    BY <1>1, <1>2, <2>1, ContinueOK DEF InstanceExpanded, Continue
  <2>2. CASE errors = Top.errors
    <3>1. Fresh(Pass(Top.of, 2), inst)
      BY <1>2, PassFresh
    <3> QED BY <1>1, <1>2, <2>2, <3>1, CallOK DEF InstanceExpanded, Call
  <2> QED BY <2>1, <2>2
<1> QED BY <1>3, <1>4, StepChanged DEF InstanceExpanded

LEMMA InstanceInitializedOK ==
    ASSUME TypeInv, InstanceInitialized
    PROVE  TypeInv'
<1>1. status = "running" /\ stack # <<>> /\ Made(Top)
  BY DEF InstanceInitialized, At, Running, Made
<1>2. /\ Top.of \in 1..Len(inst) /\ Len(inst) \in Nat
      /\ Moves(Top, Goto("after")) /\ Moves(Top, Goto("enlist"))
      /\ Moves(Top, [Top EXCEPT !.pc = "collected", !.i = 1])
  BY <1>1, MadeGoes
<1>3. Fresh(Pass(Top.of, 3), inst)
  BY <1>2, PassFresh
<1>4. UNCHANGED <<program, listed, semanticRun, symbol, counters, shown, ret, todo>>
  BY DEF InstanceInitialized
<1>5. /\ UNCHANGED inst \/ inst' = [inst EXCEPT ![Top.of].collects = TRUE]
      /\ \/ Continue(Goto("after")) \/ Continue(Goto("enlist"))
         \/ Call([Top EXCEPT !.pc = "collected", !.i = 1], Pass(Top.of, 3))
         \/ Call(Goto("enlist"), Pass(Top.of, 3))
  BY DEF InstanceInitialized
<1>6. StackOK(stack', inst, members, semanticRun, gag, gaggedErrors)
  <2>1. CASE Continue(Goto("after")) \/ Continue(Goto("enlist"))
    BY <1>1, <1>2, <2>1, ContinueOK DEF Continue
  <2>2. CASE Call([Top EXCEPT !.pc = "collected", !.i = 1], Pass(Top.of, 3))
    BY <1>1, <1>2, <1>3, <2>2, CallOK DEF Call
  <2>3. CASE Call(Goto("enlist"), Pass(Top.of, 3))
    BY <1>1, <1>2, <1>3, <2>3, CallOK DEF Call
  <2> QED BY <1>5, <2>1, <2>2, <2>3
<1>7. CASE UNCHANGED inst
  BY <1>4, <1>6, <1>7, StepSame
<1>8. CASE inst' = [inst EXCEPT ![Top.of].collects = TRUE]
  <2>1. init \in init..semantic3
    BY DEF init, semantic3
  <2>2. Changed(inst')
    BY <1>2, <1>8, <2>1, RunChanged DEF TypeInv
  <2> QED BY <1>4, <1>6, <2>2, StepChanged
<1> QED BY <1>5, <1>7, <1>8

LEMMA InstanceCollectedOK ==
    ASSUME TypeInv, InstanceCollected
    PROVE  TypeInv'
<1>1. status = "running" /\ stack # <<>> /\ Made(Top) /\ Top.pc = "collected"
  BY DEF InstanceCollected, At, Running, Made
<1>2. /\ Top.of \in 1..Len(inst) /\ Len(inst) \in Nat /\ inst[Top.of] \in InstSet(Len(inst))
      /\ Moves(Top, Goto("after")) /\ Moves(Top, Next1)
  BY <1>1, MadeGoes
<1>3. UNCHANGED <<program, listed, semanticRun, symbol, counters, shown, ret, todo>>
  BY DEF InstanceCollected
<1>4. CASE Top.i <= Len(inst[Top.of].deferred)
  <2> DEFINE list == inst[Top.of].deferred
  <2>1. list \in Seq(1..Len(inst))
    <3> DEFINE r == inst[Top.of]
    <3>1. r \in InstSet(Len(inst))
      BY <1>2
    <3> HIDE DEF r
    <3>2. r.deferred \in Seq(1..Len(inst))
      BY <3>1 DEF InstSet
    <3> QED BY <3>2 DEF r
  <2>2. Top.i \in Nat \ {0}
    BY <1>1, TopFits DEF FrameOK, FrameSet
  <2>3. list[Top.i] \in 1..Len(inst)
    <3>1. Top.i \in 1..Len(list)
      BY <1>4, <2>1, <2>2, LenProperties
    <3> QED BY <2>1, <3>1, ElementOfSeq
  <2>4. Fresh(Pass(list[Top.i], 3), inst)
    BY <1>2, <2>3, PassFresh
  <2>5. Call(Next1, Pass(list[Top.i], 3)) /\ UNCHANGED inst
    BY <1>4 DEF InstanceCollected
  <2> HIDE DEF list
  <2>6. StackOK(stack', inst, members, semanticRun, gag, gaggedErrors)
    BY <1>1, <1>2, <2>4, <2>5, CallOK DEF Call
  <2> QED BY <1>3, <2>5, <2>6, StepSame
<1>5. CASE ~(Top.i <= Len(inst[Top.of].deferred))
  <2>1. /\ Continue(Goto("after"))
        /\ inst' = [inst EXCEPT ![Top.of] = [@ EXCEPT !.collects = FALSE, !.deferred = <<>>]]
    BY <1>5 DEF InstanceCollected
  <2>2. StackOK(stack', inst, members, semanticRun, gag, gaggedErrors)
    BY <1>1, <1>2, <2>1, ContinueOK DEF Continue
  <2>3. init \in init..semantic3
    BY DEF init, semantic3
  <2>4. Changed(inst')
    BY <1>2, <2>1, <2>3, RunChanged DEF TypeInv
  <2> QED BY <1>3, <2>2, <2>4, StepChanged
<1> QED BY <1>4, <1>5

LEMMA InstanceEnlistOK ==
    ASSUME TypeInv, InstanceEnlist
    PROVE  TypeInv'
<1>1. status = "running" /\ stack # <<>> /\ Made(Top)
  BY DEF InstanceEnlist, At, Running, Made
<1> DEFINE n == Top.of
<1>2. n \in 1..Len(inst) /\ Len(inst) \in Nat /\ Moves(Top, Goto("after"))
  BY <1>1, MadeGoes
<1>3. StackOK(stack', inst, members, semanticRun, gag, gaggedErrors)
  BY <1>1, <1>2, ContinueOK DEF InstanceEnlist, Continue
<1>4. DOMAIN inst = 1..Len(inst) /\ \A c \in 1..Len(inst) : inst[c] \in InstSet(Len(inst))
  BY InstTypes DEF TypeInv, Types
<1>5. ASSUME NEW r \in InstSet(Len(inst))
      PROVE  /\ [r EXCEPT !.deferred = Append(@, n)] \in InstSet(Len(inst))
             /\ [r EXCEPT !.deferred = Append(@, n)].key = r.key
             /\ [r EXCEPT !.deferred = Append(@, n)].errors = r.errors
  <2>1. r.deferred \in Seq(1..Len(inst))
    BY DEF InstSet
  <2>2. Append(r.deferred, n) \in Seq(1..Len(inst))
    BY <1>2, <2>1, AppendProperties
  <2> HIDE DEF n
  <2> QED BY <2>2 DEF InstSet
<1> DEFINE joins(c) == \A i \in DOMAIN inst[c].deferred : inst[c].deferred[i] # n
           to == {c \in DOMAIN inst : c \in Collectors(inst[n].tinst) /\ joins(c)}
<1>6. inst' = [c \in 1..Len(inst) |->
                 IF c \in to THEN [inst[c] EXCEPT !.deferred = Append(@, n)] ELSE inst[c]]
  BY <1>4 DEF InstanceEnlist
<1> HIDE DEF to, n
<1>7. /\ inst' \in [1..Len(inst) -> InstSet(Len(inst))]
      /\ \A c \in 1..Len(inst) : inst'[c].key = inst[c].key /\ inst'[c].errors = inst[c].errors
  BY <1>4, <1>5, <1>6
<1>8. \A c \in 1..Len(inst) : inst'[c].errors \in BOOLEAN
  <2>1. \A c \in 1..Len(inst) : inst[c].errors \in BOOLEAN
    BY <1>4 DEF InstSet
  <2> QED BY <1>7, <2>1
<1>9. Changed(inst')
  BY <1>7, <1>8 DEF Changed
<1> QED BY <1>3, <1>9, StepChanged DEF InstanceEnlist

LEMMA InstanceGoodOK ==
    ASSUME TypeInv, InstanceGood
    PROVE  TypeInv'
<1>1. /\ status = "running" /\ stack # <<>> /\ Made(Top) /\ stack' = Tail(stack)
      /\ Top.proc = "instance"
  BY DEF InstanceGood, At, Running, Made, Return
<1>2. Top.of \in 1..Len(inst) /\ Len(inst) \in Nat /\ inst[Top.of].key \in Template
  BY <1>1, MadeGoes
<1>3. UNCHANGED <<program, inst, members, deferred2, deferred3, semanticRun, symbol, counters,
                  shown, todo>>
  BY DEF InstanceGood
<1>4. InstOK'
  BY <1>3, SameInst DEF TypeInv
<1>5. ListsOK'
  <2> DEFINE k == inst[Top.of].key
  <2>1. table' = [table EXCEPT ![k] = @ \ {Top.errinst}]
    BY DEF InstanceGood
  <2>2. table \in [Template -> SUBSET (1..Len(inst))]
    BY DEF TypeInv, Types, ListsOK
  <2> HIDE DEF k
  <2>3. table' \in [Template -> SUBSET (1..Len(inst))]
    BY <2>1, <2>2
  <2> QED BY <1>3, <2>3 DEF ListsOK, TypeInv, Types
<1>6. RetOK'
  <2>1. ret' = [of |-> Top.of, good |-> ~inst[Top.of].errors]
    BY DEF InstanceGood
  <2> QED BY <1>2, <1>3, <2>1 DEF RetOK
<1>7. CountsOK'
  BY <1>3 DEF TypeInv, Types, CountsOK, counters
<1>8. Types'
  BY <1>3, <1>4, <1>5, <1>6, <1>7, TypesAfter DEF TypeInv
<1>9. StackOK(Tail(stack), inst, members, semanticRun, gag, gaggedErrors)
  BY <1>1, ReturnOK DEF Gags
<1>10. Stacked'
  BY <1>1, <1>3, <1>9 DEF Stacked, counters
<1> QED BY <1>8, <1>10 DEF TypeInv

\* An instance taken back.
LEMMA TakenBack ==
    ASSUME Types, NEW n \in 1..Len(inst)
    PROVE  /\ Changed([Failed(n) EXCEPT ![n] = [@ EXCEPT !.live = FALSE, !.semanticRun = init]])
           /\ Failed(n)[n].errors /\ DOMAIN Failed(n) = 1..Len(inst)
<1> DEFINE J == Failed(n)
           r == J[n]
           t == [r EXCEPT !.live = FALSE, !.semanticRun = init]
           K == [J EXCEPT ![n] = t]
<1>1. Changed(J) /\ J[n] = [inst[n] EXCEPT !.errors = TRUE] /\ Len(inst) \in Nat
  BY FailedChanged, InstTypes DEF Types
<1>2. inst[n] \in InstSet(Len(inst))
  BY InstTypes DEF Types
<1>3. J \in [1..Len(inst) -> InstSet(Len(inst))] /\ r \in InstSet(Len(inst))
      /\ r.key = inst[n].key
  BY <1>1 DEF Changed
<1>4. r.errors
  <2> DEFINE q == inst[n]
  <2>1. q \in InstSet(Len(inst))
    BY <1>2
  <2> HIDE DEF q
  <2>2. [q EXCEPT !.errors = TRUE].errors
    BY <2>1 DEF InstSet
  <2> QED BY <1>1, <2>2 DEF q
<1> HIDE DEF r, J
<1>5. /\ t \in InstSet(Len(inst)) /\ t.key = r.key /\ t.errors = r.errors
  <2>1. init \in init..semantic3 /\ FALSE \in BOOLEAN
    BY DEF init, semantic3
  <2> QED BY <1>3, <2>1 DEF InstSet
<1> HIDE DEF t
<1>6. /\ K \in [1..Len(inst) -> InstSet(Len(inst))] /\ K[n] = t
      /\ \A k \in 1..Len(inst) : k # n => K[k] = J[k]
  BY <1>3, <1>5
<1> HIDE DEF K
<1>7. \A k \in 1..Len(inst) : /\ K[k].key = inst[k].key /\ K[k].errors \in BOOLEAN
                              /\ inst[k].errors => K[k].errors
  <2> TAKE k \in 1..Len(inst)
  <2>1. CASE k = n
    BY <1>3, <1>4, <1>5, <1>6, <2>1
  <2>2. CASE k # n
    BY <1>1, <1>6, <2>2 DEF Changed
  <2> QED BY <2>1, <2>2
<1>8. Changed(K)
  BY <1>6, <1>7 DEF Changed
<1>9. DOMAIN J = 1..Len(inst)
  BY <1>3
<1> QED BY <1>4, <1>8, <1>9 DEF K, t, r, J

LEMMA InstanceBadOK ==
    ASSUME TypeInv, InstanceBad
    PROVE  TypeInv'
<1>1. /\ status = "running" /\ stack # <<>> /\ Made(Top) /\ stack' = Tail(stack)
      /\ Top.proc = "instance"
  BY DEF InstanceBad, At, Running, Made, Return
<1> DEFINE n == Top.of
           k == inst[n].key
<1>2. n \in 1..Len(inst) /\ Len(inst) \in Nat /\ k \in Template
  BY <1>1, MadeGoes
<1>3. UNCHANGED <<program, deferred2, deferred3, semanticRun, symbol, gag, todo>>
  BY DEF InstanceBad
<1>4. CountsOK' /\ gaggedErrors <= gaggedErrors' /\ gaggedErrors \in Nat /\ gaggedErrors' \in Nat
  <2>1. ReportFailure(n)
    BY DEF InstanceBad
  <2>2. Report(IF inst[n].errors THEN 0 ELSE 1)
    BY <2>1 DEF ReportFailure
  <2>3. CountsOK' /\ gaggedErrors <= gaggedErrors'
    BY <1>3, <2>2, Reported DEF TypeInv, Types
  <2> QED BY <2>3 DEF TypeInv, Types, CountsOK
<1>5. PICK below \in Nat :
        /\ StackOK(Tail(stack), inst, members, semanticRun, below, gaggedErrors)
        /\ Fits(Top, Tail(stack), inst, members, semanticRun, gag, below, gaggedErrors)
  BY <1>1, TopFits
<1>6. below = gag /\ Top.index \in 1..Len(members[Home[k]])
  BY <1>1, <1>5 DEF Fits, LevelStep, HomeOf
<1>7. ret' = [of |-> n, good |-> FALSE]
  BY DEF InstanceBad
<1>8. /\ table \in [Template -> SUBSET (1..Len(inst))] /\ members \in [Mod -> Seq(1..Len(inst))]
      /\ deferred2 \in Seq(1..Len(inst)) /\ deferred3 \in Seq(1..Len(inst))
  BY DEF TypeInv, Types, ListsOK
<1>9. CASE inst[n].gagged
  <2> DEFINE less == [members EXCEPT ![Home[k]] = RemoveAt(@, Top.index)]
  <2>1. /\ inst' = [Failed(n) EXCEPT ![n] = [@ EXCEPT !.live = FALSE, !.semanticRun = init]]
        /\ table' = [table EXCEPT ![k] = @ \ {n}] /\ members' = less
    BY <1>9 DEF InstanceBad
  <2>2. Changed(inst')
    BY <1>2, <2>1, TakenBack DEF TypeInv
  <2>3. InstOK' /\ Len(inst') = Len(inst) /\ Grown(inst, inst')
    BY <2>2, ChangedInst DEF TypeInv
  <2>4. table' \in [Template -> SUBSET (1..Len(inst))]
    <3> HIDE DEF k
    <3> QED BY <1>2, <1>8, <2>1
  <2>5. Home[k] \in Mod /\ members[Home[k]] \in Seq(1..Len(inst))
    BY <1>2, <1>8, ModulesAssumption
  <2>6. RemoveAt(members[Home[k]], Top.index) \in Seq(1..Len(inst))
    BY <1>6, <2>5, RemoveAtProperties
  <2>7. members' \in [Mod -> Seq(1..Len(inst))]
    <3> HIDE DEF k
    <3> QED BY <1>8, <2>1, <2>5, <2>6
  <2>8. ListsOK' /\ RetOK'
    BY <1>2, <1>3, <1>7, <1>8, <2>3, <2>4, <2>7 DEF ListsOK, RetOK
  <2>9. Types'
    BY <1>3, <1>4, <2>3, <2>8, TypesAfter DEF TypeInv
  <2>10. StackOK(Tail(stack), inst, less, semanticRun, gag, gaggedErrors)
    <3>1. HomeOf(Top.of, inst) = Home[k]
      BY DEF HomeOf
    <3>2. DOMAIN members = Mod /\ \A x \in Mod : \E S : members[x] \in Seq(S)
      BY <1>8
    <3>3. \A x \in 1..Len(inst) : HomeOf(x, inst) \in Mod
      BY InstTypes DEF TypeInv, Types
    <3>4. StackOK(Tail(stack), inst, [members EXCEPT ![HomeOf(Top.of, inst)] = RemoveAt(@, Top.index)],
                  semanticRun, below, gaggedErrors)
      BY <1>1, <1>5, <3>2, <3>3, Removed
    <3> QED BY <1>6, <3>1, <3>4
  <2> HIDE DEF less
  <2>11. StackOK(Tail(stack), inst', less, semanticRun, gag, gaggedErrors')
    BY <1>4, <2>3, <2>10, Grow, MoreErrors
  <2>12. Stacked'
    BY <1>1, <1>3, <2>1, <2>11 DEF Stacked
  <2> QED BY <2>9, <2>12 DEF TypeInv
<1>10. CASE ~inst[n].gagged
  <2>1. inst' = Failed(n) /\ UNCHANGED <<table, members>>
    BY <1>10 DEF InstanceBad
  <2>2. Changed(inst')
    BY <2>1, FailedChanged DEF TypeInv
  <2>3. InstOK' /\ Len(inst') = Len(inst) /\ Grown(inst, inst')
    BY <2>2, ChangedInst DEF TypeInv
  <2>4. ListsOK' /\ RetOK'
    BY <1>2, <1>3, <1>7, <1>8, <2>1, <2>3 DEF ListsOK, RetOK
  <2>5. Types'
    BY <1>3, <1>4, <2>3, <2>4, TypesAfter DEF TypeInv
  <2>6. StackOK(Tail(stack), inst', members, semanticRun, gag, gaggedErrors')
    BY <1>4, <1>5, <1>6, <2>3, Grow, MoreErrors
  <2>7. Stacked'
    BY <1>1, <1>3, <2>1, <2>6 DEF Stacked
  <2> QED BY <2>5, <2>7 DEF TypeInv
<1> QED BY <1>9, <1>10

\* The frame of a pass once it is entered.
PassFrame(f, root, func, errs, saved, gagging) ==
    [f EXCEPT !.pc = "members", !.root = root, !.func = func, !.errors = errs,
              !.gaggedErrors = saved, !.gag = gagging]

LEMMA PassFrameFields ==
    ASSUME NEW f \in FrameSet, NEW root \in BOOLEAN, NEW func \in BOOLEAN, NEW errs \in Nat,
           NEW saved \in Nat, NEW gagging \in Nat
    PROVE  /\ PassFrame(f, root, func, errs, saved, gagging) \in FrameSet
           /\ PassFrame(f, root, func, errs, saved, gagging).proc = f.proc
           /\ PassFrame(f, root, func, errs, saved, gagging).of = f.of
           /\ PassFrame(f, root, func, errs, saved, gagging).pass = f.pass
           /\ PassFrame(f, root, func, errs, saved, gagging).pc = "members"
           /\ PassFrame(f, root, func, errs, saved, gagging).root = root
           /\ PassFrame(f, root, func, errs, saved, gagging).gaggedErrors = saved
           /\ PassFrame(f, root, func, errs, saved, gagging).gag = gagging
<1> DEFINE t == [f EXCEPT !.pc = "members", !.root = root, !.func = func]
           u == [t EXCEPT !.errors = errs]
<1>1. PassFrame(f, root, func, errs, saved, gagging) = [u EXCEPT !.gaggedErrors = saved, !.gag = gagging]
  BY DEF PassFrame
<1>2. /\ t \in FrameSet /\ t.proc = f.proc /\ t.pass = f.pass /\ t.of = f.of
      /\ t.root = root /\ t.pc = "members"
  BY DEF FrameSet
<1> HIDE DEF t
<1>3. /\ u \in FrameSet /\ u.proc = f.proc /\ u.pass = f.pass /\ u.of = f.of
      /\ u.root = root /\ u.pc = "members"
  BY <1>2 DEF FrameSet
<1> HIDE DEF u
<1> QED BY <1>1, <1>3 DEF FrameSet

LEMMA PassEnterOK ==
    ASSUME TypeInv, PassEnter
    PROVE  TypeInv'
<1>1. status = "running" /\ stack # <<>> /\ Top.proc = "pass" /\ Top.pc = "enter"
  BY DEF PassEnter, At, Running
<1> DEFINE n == Top.of
           run == inst[n].semanticRun < PassRun(Top.pass)
           needGagging == inst[n].gagged /\ gag = 0
           g == IF needGagging THEN 1 ELSE 0
           f == PassFrame(Top, inst[n].root, Top.pass = 3, errors, gaggedErrors, g)
<1>2. PICK below \in Nat :
        /\ StackOK(Tail(stack), inst, members, semanticRun, below, gaggedErrors)
        /\ Fits(Top, Tail(stack), inst, members, semanticRun, gag, below, gaggedErrors)
  BY <1>1, TopFits
<1>3. /\ n \in 1..Len(inst) /\ Top.pass \in {2, 3} /\ Top.gag = 0 /\ Top \in FrameSet
      /\ below = gag
  BY <1>1, <1>2 DEF Fits, FrameOK, LevelStep
<1>4. /\ inst[n] \in InstSet(Len(inst)) /\ Len(inst) \in Nat /\ inst[n].root \in BOOLEAN
      /\ gag \in Nat /\ errors \in Nat /\ gaggedErrors \in Nat
  <2> DEFINE r == inst[n]
  <2>1. r \in InstSet(Len(inst)) /\ Len(inst) \in Nat
    BY <1>3, InstTypes DEF TypeInv, Types
  <2> HIDE DEF r
  <2>2. r.root \in BOOLEAN
    BY <2>1 DEF InstSet
  <2> QED BY <2>1, <2>2 DEF r, TypeInv, Types, CountsOK
<1>5. UNCHANGED <<program, listed, semanticRun, symbol, errors, gaggedErrors, shown, ret, todo>>
  BY DEF PassEnter
<1>6. Changed(inst') \/ UNCHANGED inst
  <2>1. PassRun(Top.pass) \in init..semantic3
    BY <1>3 DEF PassRun, init, semantic2, semantic3
  <2>2. inst' = [inst EXCEPT ![n].semanticRun = PassRun(Top.pass)] \/ UNCHANGED inst
    BY DEF PassEnter
  <2>3. Changed([inst EXCEPT ![n].semanticRun = PassRun(Top.pass)])
    BY <1>3, <2>1, RunChanged DEF TypeInv
  <2> QED BY <2>2, <2>3
<1>7. InstOK' /\ Grown(inst, inst') /\ ListsOK' /\ RetOK'
  <2>1. CASE Changed(inst')
    BY <1>5, <2>1, ChangedInst DEF TypeInv
  <2>2. CASE UNCHANGED inst
    BY <1>4, <1>5, <2>2, SameInst DEF TypeInv, Grown
  <2> QED BY <1>6, <2>1, <2>2
<1>8. /\ gag' \in Nat
      /\ StackOK(stack', inst, members, semanticRun, gag', gaggedErrors)
  <2>1. CASE run /\ ~inst[n].errors
    <3>1. gag' = (IF needGagging THEN 1 ELSE gag) /\ stack' = <<f>> \o Tail(stack)
      BY <2>1 DEF PassEnter, Continue, PassFrame
    <3>2. /\ f \in FrameSet /\ f.proc = "pass" /\ f.of = n /\ f.pass = Top.pass
          /\ f.pc = "members" /\ f.gaggedErrors = gaggedErrors /\ f.gag = g
      <4> DEFINE h == Top
                 r == inst[n].root
                 u == Top.pass = 3
                 e == errors
                 c == gaggedErrors
      <4>1. h \in FrameSet /\ r \in BOOLEAN /\ u \in BOOLEAN /\ e \in Nat /\ c \in Nat /\ g \in Nat
        BY <1>3, <1>4
      <4>2. f = PassFrame(h, r, u, e, c, g)
        OBVIOUS
      <4>3. h.proc = "pass" /\ h.of = n /\ h.pass = Top.pass
        BY <1>1
      <4> HIDE DEF h, r, u, e, c, g, f, n
      <4>4. /\ PassFrame(h, r, u, e, c, g) \in FrameSet
            /\ PassFrame(h, r, u, e, c, g).proc = h.proc
            /\ PassFrame(h, r, u, e, c, g).of = h.of
            /\ PassFrame(h, r, u, e, c, g).pass = h.pass
            /\ PassFrame(h, r, u, e, c, g).pc = "members"
            /\ PassFrame(h, r, u, e, c, g).gaggedErrors = c
            /\ PassFrame(h, r, u, e, c, g).gag = g
        BY <4>1, PassFrameFields
      <4> QED BY <4>2, <4>3, <4>4 DEF c
    <3> HIDE DEF f
    <3>3. FrameOK(f, inst) /\ ~Made(f)
      BY <1>3, <3>2 DEF FrameOK, Made
    <3>4. LevelStep(f, gag', gag) /\ gag' \in Nat
      BY <1>4, <3>1, <3>2 DEF LevelStep
    <3>5. \A k \in 1..Len(Tail(stack)) :
             Gags(Tail(stack)[k]) => Tail(stack)[k].gaggedErrors <= f.gaggedErrors
      BY <1>2, <3>2 DEF StackOK, SavedNest
    <3>6. Fits(f, Tail(stack), inst, members, semanticRun, gag', gag, gaggedErrors)
      BY <1>4, <3>2, <3>3, <3>4, <3>5 DEF Fits
    <3> QED BY <1>2, <1>3, <3>1, <3>4, <3>6, Push
  <2>2. CASE ~(run /\ ~inst[n].errors)
    BY <1>2, <1>3, <1>4, <2>2 DEF PassEnter, Return
  <2> QED BY <2>1, <2>2
<1>9. CountsOK'
  BY <1>5, <1>8 DEF TypeInv, Types, CountsOK
<1>10. Types'
  BY <1>5, <1>7, <1>9, TypesAfter DEF TypeInv
<1>11. StackOK(stack', inst', members, semanticRun, gag', gaggedErrors)
  BY <1>7, <1>8, Grow
<1>12. Stacked'
  BY <1>5, <1>11 DEF Stacked, listed
<1> QED BY <1>10, <1>12 DEF TypeInv

LEMMA PassFailedOK ==
    ASSUME TypeInv, PassFailed
    PROVE  TypeInv'
<1>1. status = "running" /\ stack # <<>> /\ Top.proc = "pass" /\ Top.pc = "members"
  BY DEF PassFailed, AllDone, At, Running
<1>2. FrameOK(Top, inst)
  BY <1>1, TopFits
<1>3. Moves(Top, Goto("end"))
  <2>1. Goto("end") = Going(Top, "end") /\ Top \in FrameSet /\ "end" \in Pc
    BY <1>2 DEF Goto, Going, FrameOK, Pc
  <2>2. Same(Top, Going(Top, "end")) /\ Going(Top, "end").pc = "end"
    BY <2>1, GoingFields
  <2> QED BY <1>1, <2>1, <2>2 DEF Moves
<1>4. /\ stack' = <<Goto("end")>> \o Tail(stack) /\ inst' = Failed(Top.of)
      /\ UNCHANGED <<program, listed, members, semanticRun, symbol, gag, ret, todo>>
      /\ ReportFailure(Top.of)
  BY DEF PassFailed, Continue, listed
<1>5. CountsOK' /\ gaggedErrors <= gaggedErrors' /\ gaggedErrors \in Nat /\ gaggedErrors' \in Nat
  <2>1. Report(IF inst[Top.of].errors THEN 0 ELSE 1)
    BY <1>4 DEF ReportFailure
  <2>2. CountsOK' /\ gaggedErrors <= gaggedErrors'
    BY <1>4, <2>1, Reported DEF TypeInv, Types
  <2> QED BY <2>2 DEF TypeInv, Types, CountsOK
<1>6. InstOK' /\ Grown(inst, inst') /\ ListsOK' /\ RetOK'
  <2>1. Changed(inst')
    BY <1>4, FailedChanged DEF TypeInv
  <2> QED BY <1>4, <2>1, ChangedInst DEF TypeInv
<1>7. Types'
  BY <1>4, <1>5, <1>6, TypesAfter DEF TypeInv
<1>8. StackOK(<<Goto("end")>> \o Tail(stack), inst, members, semanticRun, gag, gaggedErrors)
  BY <1>1, <1>3, ContinueOK
<1>9. StackOK(stack', inst', members, semanticRun, gag, gaggedErrors')
  BY <1>4, <1>5, <1>6, <1>8, Grow, MoreErrors
<1>10. Stacked'
  BY <1>4, <1>9 DEF Stacked
<1> QED BY <1>7, <1>10 DEF TypeInv

LEMMA PassEndOK ==
    ASSUME TypeInv, PassEnd
    PROVE  TypeInv'
<1>1. status = "running" /\ stack # <<>> /\ Top.proc = "pass"
  BY DEF PassEnd, AllDone, At, Running
<1>2. /\ stack' = Tail(stack)
      /\ UNCHANGED <<program, inst, listed, members, semanticRun, symbol, shown, ret, todo>>
  BY DEF PassEnd, Return, listed
<1>3. CASE Top.gag = 1
  <2>1. PICK below \in Nat :
          /\ StackOK(Tail(stack), inst, members, semanticRun, below, gaggedErrors)
          /\ Fits(Top, Tail(stack), inst, members, semanticRun, gag, below, gaggedErrors)
    BY <1>1, TopFits
  <2>2. /\ gag = 1 /\ below = 0 /\ Gags(Top)
        /\ Top.gaggedErrors \in Nat /\ Top.gaggedErrors <= gaggedErrors
    BY <1>1, <1>3, <2>1 DEF Fits, LevelStep, FrameOK, Gags, FrameSet
  <2>3. CountsOK' /\ gaggedErrors' = Top.gaggedErrors /\ gag' = 0
    <3>1. EndGagging(Top.gaggedErrors) /\ gag > 0 /\ gag - 1 = 0
      BY <1>3, <2>2 DEF PassEnd
    <3> QED BY <1>2, <2>2, <3>1, GaggingEnded DEF TypeInv, Types
  <2>4. Types'
    BY <1>2, <2>3, TypesSame DEF TypeInv
  <2>5. StackOK(Tail(stack), inst, members, semanticRun, 0, Top.gaggedErrors)
    BY <2>1, <2>2, Ended
  <2>6. Stacked'
    BY <1>2, <2>3, <2>5 DEF Stacked
  <2> QED BY <2>4, <2>6 DEF TypeInv
<1>4. CASE Top.gag # 1
  <2>1. UNCHANGED counters
    BY <1>4 DEF PassEnd
  <2>2. StackOK(stack', inst, members, semanticRun, gag, gaggedErrors)
    BY <1>1, <1>2, <1>4, ReturnOK DEF Gags
  <2> QED BY <1>2, <2>1, <2>2, StepSame
<1> QED BY <1>3, <1>4

\* A pass over a module is at the bottom of the stack.
LEMMA ModuleBottom ==
    ASSUME TypeInv, status = "running", stack # <<>>, Top.proc = "module", NEW more
    PROVE  /\ Tail(stack) = <<>> /\ Top.of \in Mod /\ Top.pass \in 1..3 /\ Top \in FrameSet
           /\ StackOK(Tail(stack), inst, members, more, gag, gaggedErrors)
           /\ Top.pc # "enter" => semanticRun[Top.of] = PassRun(Top.pass)
<1>1. PICK below \in Nat :
        /\ StackOK(Tail(stack), inst, members, semanticRun, below, gaggedErrors)
        /\ Fits(Top, Tail(stack), inst, members, semanticRun, gag, below, gaggedErrors)
  BY TopFits
<1>2. /\ Tail(stack) = <<>> /\ below = gag
      /\ Top.pc # "enter" => semanticRun[Top.of] = PassRun(Top.pass)
  BY <1>1 DEF Fits, LevelStep
<1>3. Top.of \in Mod /\ Top.pass \in 1..3 /\ Top \in FrameSet
  BY <1>1 DEF Fits, FrameOK
<1>4. StackOK(Tail(stack), inst, members, more, gag, gaggedErrors)
  BY <1>1, <1>2, AnyProgress
<1> QED BY <1>2, <1>3, <1>4

\* The progress of a module changes.
LEMMA StepModule ==
    ASSUME TypeInv, NEW m \in Mod, NEW run \in init..semantic3done,
           semanticRun' = [semanticRun EXCEPT ![m] = run],
           UNCHANGED <<program, inst, listed, symbol, counters, shown, ret, todo>>,
           StackOK(stack', inst, members, semanticRun', gag, gaggedErrors)
    PROVE  TypeInv'
<1>1. CountsOK' /\ InstOK' /\ ListsOK' /\ RetOK'
  BY SameInst DEF TypeInv, Types, CountsOK, counters
<1>2. RunsOK'
  BY DEF TypeInv, Types, RunsOK
<1>3. Types'
  BY <1>1, <1>2 DEF TypeInv, Types
<1>4. Stacked'
  BY DEF Stacked, listed, counters
<1> QED BY <1>3, <1>4 DEF TypeInv

LEMMA ModuleEnterOK ==
    ASSUME TypeInv, ModuleEnter
    PROVE  TypeInv'
<1>1. status = "running" /\ stack # <<>> /\ Top.proc = "module" /\ Top.pc = "enter"
  BY DEF ModuleEnter, At, Running
<1>2. /\ Tail(stack) = <<>> /\ Top.of \in Mod /\ Top.pass \in 1..3 /\ Top \in FrameSet
      /\ StackOK(Tail(stack), inst, members, semanticRun', gag, gaggedErrors)
  BY <1>1, ModuleBottom
<1> DEFINE h == Goto("members")
<1>3. Same(Top, h) /\ h.pc = "members"
  <2>1. h = Going(Top, "members") /\ "members" \in Pc
    BY DEF Goto, Going, Pc
  <2>2. Same(Top, Going(Top, "members")) /\ Going(Top, "members").pc = "members"
    BY <1>2, <2>1, GoingFields
  <2> QED BY <2>1, <2>2
<1> HIDE DEF h
<1>4. /\ semanticRun' = [semanticRun EXCEPT ![Top.of] = PassRun(Top.pass)]
      /\ stack' = <<h>> \o Tail(stack)
  BY DEF ModuleEnter, Continue, h
<1>5. PassRun(Top.pass) \in init..semantic3done
  BY <1>2 DEF PassRun, init, semantic, semantic2, semantic3, semantic3done
<1>6. semanticRun'[h.of] = PassRun(h.pass)
  BY <1>2, <1>3, <1>4 DEF Same, TypeInv, Types, RunsOK
<1>7. FrameOK(h, inst) /\ ~Made(h) /\ ~Gags(h) /\ LevelStep(h, gag, gag)
  BY <1>1, <1>2, <1>3 DEF Same, FrameOK, Made, Gags, LevelStep
<1>8. Fits(h, Tail(stack), inst, members, semanticRun', gag, gag, gaggedErrors)
  BY <1>2, <1>6, <1>7 DEF Fits, TypeInv, Types, CountsOK
<1>9. StackOK(stack', inst, members, semanticRun', gag, gaggedErrors)
  BY <1>2, <1>4, <1>8, Push
<1> QED BY <1>2, <1>4, <1>5, <1>9, StepModule DEF ModuleEnter

LEMMA ModuleInstancesOK ==
    ASSUME TypeInv, ModuleInstances
    PROVE  TypeInv'
<1>1. status = "running" /\ stack # <<>> /\ Top.proc = "module" /\ Top.pc = "members"
  BY DEF ModuleInstances, AllDone, At, Running
<1> DEFINE h == [Top EXCEPT !.pc = "instances", !.i = 1]
<1>2. Moves(Top, h)
  <2>1. h = Going1(Top, "instances") /\ "instances" \in Pc /\ Top \in FrameSet
    BY <1>1, ModuleBottom DEF Going1, Pc
  <2>2. Same(Top, Going1(Top, "instances")) /\ Going1(Top, "instances").pc = "instances"
    BY <2>1, GoingFields
  <2> HIDE DEF h
  <2> QED BY <1>1, <2>1, <2>2 DEF Moves
<1>3. stack' = <<h>> \o Tail(stack)
  BY DEF ModuleInstances, Continue
<1> HIDE DEF h
<1>4. StackOK(stack', inst, members, semanticRun, gag, gaggedErrors)
  BY <1>1, <1>2, <1>3, ContinueOK
<1> QED BY <1>4, StepSame DEF ModuleInstances

LEMMA ModuleInstanceOK ==
    ASSUME TypeInv, ModuleInstance
    PROVE  TypeInv'
<1>1. status = "running" /\ stack # <<>> /\ Top.proc = "module" /\ Top.pc = "instances"
  BY DEF ModuleInstance, At, Running
<1> DEFINE m == Top.of
           more == Top.pass > 1 /\ Top.i <= Len(members[m])
<1>2. /\ m \in Mod /\ Top.pass \in 1..3 /\ Top \in FrameSet
      /\ StackOK(Tail(stack), inst, members, semanticRun', gag, gaggedErrors)
      /\ semanticRun[m] = PassRun(Top.pass)
  BY <1>1, ModuleBottom
<1>3. UNCHANGED <<program, inst, listed, symbol, counters, shown, ret, todo>>
  BY DEF ModuleInstance
<1>4. CASE ~more
  <2>1. semanticRun' = [semanticRun EXCEPT ![m] = semanticRun[m] + 1] /\ stack' = Tail(stack)
    BY <1>4 DEF ModuleInstance, Return
  <2>2. semanticRun[m] + 1 \in init..semantic3done
    BY <1>2 DEF PassRun, init, semantic, semantic2, semantic3, semantic3done
  <2>3. StackOK(stack', inst, members, semanticRun', gag, gaggedErrors)
    BY <1>2, <2>1
  <2> QED BY <1>2, <1>3, <2>1, <2>2, <2>3, StepModule
<1>5. CASE more
  <2> DEFINE list == members[m]
             visit == Pass(list[Top.i], Top.pass)
  <2>1. stack' = <<visit>> \o Resume /\ UNCHANGED semanticRun
    BY <1>5 DEF ModuleInstance
  <2>2. list \in Seq(1..Len(inst)) /\ Len(inst) \in Nat
    BY <1>2, InstTypes DEF TypeInv, Types, ListsOK
  <2>3. Top.i \in 1..Len(list) /\ Top.pass \in {2, 3}
    <3>1. Top.i \in Nat \ {0}
      BY <1>2 DEF FrameSet
    <3> QED BY <1>2, <1>5, <2>2, <3>1, LenProperties
  <2> HIDE DEF list
  <2>4. list[Top.i] \in 1..Len(inst)
    BY <2>2, <2>3, ElementOfSeq
  <2>5. Fresh(visit, inst)
    BY <2>2, <2>3, <2>4, PassFresh
  <2>6. gag \in Nat
    BY DEF TypeInv, Types, CountsOK
  <2> HIDE DEF visit
  <2>7. StackOK(stack', inst, members, semanticRun, gag, gaggedErrors)
    BY <1>1, <2>1, <2>5, <2>6, ResumeOK, FreshFits, Push
  <2> QED BY <1>3, <2>1, <2>7, StepSame
<1> QED BY <1>4, <1>5

\* A pass over a deferred list goes on.
LEMMA DeferredGoes ==
    ASSUME TypeInv, status = "running", stack # <<>>, Top.proc = "deferred"
    PROVE  /\ Moves(Top, Goto("next")) /\ (Top.pc = "next" => Moves(Top, Next1))
           /\ Top.pass \in {2, 3} /\ Top.i \in Nat \ {0}
<1>1. FrameOK(Top, inst)
  BY TopFits
<1>2. Top \in FrameSet /\ Top.pass \in {2, 3} /\ Top.pc \in Pc
  BY <1>1 DEF FrameOK, Pc
<1>3. Goto("next") = Going(Top, "next") /\ Next1 = Going2(Top) /\ "next" \in Pc
  BY DEF Goto, Going, Going2, Next1, Pc
<1>4. /\ Same(Top, Going(Top, "next")) /\ Going(Top, "next").pc = "next"
      /\ Same(Top, Going2(Top)) /\ Going2(Top).pc = Top.pc
  BY <1>2, <1>3, GoingFields
<1>5. Moves(Top, Goto("next"))
  BY <1>3, <1>4 DEF Moves
<1>6. Top.pc = "next" => Moves(Top, Next1)
  BY <1>3, <1>4 DEF Moves
<1>7. Top.i \in Nat \ {0}
  BY <1>2 DEF FrameSet
<1> QED BY <1>2, <1>5, <1>6, <1>7

LEMMA DeferredEnterOK ==
    ASSUME TypeInv, DeferredEnter
    PROVE  TypeInv'
<1>1. status = "running" /\ stack # <<>> /\ Top.proc = "deferred"
  BY DEF DeferredEnter, At, Running
<1>2. Moves(Top, Goto("next"))
  BY <1>1, DeferredGoes
<1>3. Fresh(RunDeferred(2), inst)
  BY DeferredFresh
<1>4. CASE Top.pass = 2
  <2>1. stack' = <<Goto("next")>> \o Tail(stack)
    BY <1>4 DEF DeferredEnter, Continue
  <2>2. StackOK(stack', inst, members, semanticRun, gag, gaggedErrors)
    BY <1>1, <1>2, <2>1, ContinueOK
  <2> QED BY <2>2, StepSame DEF DeferredEnter
<1>5. CASE Top.pass # 2
  <2>1. stack' = <<RunDeferred(2), Goto("next")>> \o Tail(stack)
    BY <1>5 DEF DeferredEnter, Call
  <2>2. StackOK(stack', inst, members, semanticRun, gag, gaggedErrors)
    BY <1>1, <1>2, <1>3, <2>1, CallOK
  <2> QED BY <2>2, StepSame DEF DeferredEnter
<1> QED BY <1>4, <1>5

LEMMA DeferredNextOK ==
    ASSUME TypeInv, DeferredNext
    PROVE  TypeInv'
<1>1. status = "running" /\ stack # <<>> /\ Top.proc = "deferred" /\ Top.pc = "next"
  BY DEF DeferredNext, At, Running
<1>2. Moves(Top, Next1) /\ Top.pass \in {2, 3} /\ Top.i \in Nat \ {0}
  BY <1>1, DeferredGoes
<1> DEFINE list == IF Top.pass = 2 THEN deferred2 ELSE deferred3
           stop == Top.i > Len(list) \/ (Top.i > 1 /\ errors > 0)
<1>3. UNCHANGED <<program, inst, table, members, semanticRun, symbol, counters, shown, ret, todo>>
  BY DEF DeferredNext
<1>4. list \in Seq(1..Len(inst)) /\ Len(inst) \in Nat
  BY InstTypes DEF TypeInv, Types, ListsOK
<1>5. CASE ~stop
  <2>1. Call(Next1, Pass(list[Top.i], Top.pass)) /\ UNCHANGED <<deferred2, deferred3>>
    BY <1>5 DEF DeferredNext
  <2>2. Top.i \in 1..Len(list)
    BY <1>2, <1>4, <1>5, LenProperties
  <2> HIDE DEF list
  <2>3. list[Top.i] \in 1..Len(inst)
    BY <1>4, <2>2, ElementOfSeq
  <2>4. Fresh(Pass(list[Top.i], Top.pass), inst)
    BY <1>2, <1>4, <2>3, PassFresh
  <2>5. StackOK(stack', inst, members, semanticRun, gag, gaggedErrors)
    BY <1>1, <1>2, <2>1, <2>4, CallOK DEF Call
  <2> QED BY <1>3, <2>1, <2>5, StepSame DEF listed
<1>6. CASE stop
  <2>1. /\ stack' = Tail(stack)
        /\ deferred2' \in {<<>>, deferred2} /\ deferred3' \in {<<>>, deferred3}
    BY <1>6 DEF DeferredNext, Return
  <2>2. ListsOK'
    <3>1. <<>> \in Seq(1..Len(inst))
      OBVIOUS
    <3> QED BY <1>3, <2>1, <3>1 DEF TypeInv, Types, ListsOK
  <2>3. InstOK' /\ RetOK' /\ CountsOK'
    BY <1>3 DEF TypeInv, Types, InstOK, RetOK, CountsOK, counters
  <2>4. Types'
    BY <1>3, <2>2, <2>3, TypesAfter DEF TypeInv
  <2>5. StackOK(Tail(stack), inst, members, semanticRun, gag, gaggedErrors)
    BY <1>1, ReturnOK DEF Gags
  <2>6. Stacked'
    BY <1>3, <2>1, <2>5 DEF Stacked, counters
  <2> QED BY <2>4, <2>6 DEF TypeInv
<1> QED BY <1>5, <1>6

\* What main has still to call.
LEMMA TodoNext ==
    ASSUME Types, todo # <<>>
    PROVE  Head(todo) \in TodoSet /\ Tail(todo) \in Seq(TodoSet)
  BY PopSeq DEF Types

LEMMA CallNextOK ==
    ASSUME TypeInv, CallNext
    PROVE  TypeInv'
<1>1. /\ status = "running" /\ stack = <<>> /\ todo # <<>> /\ Head(todo).proc # "check"
      /\ stack' = <<Head(todo)>> /\ todo' = Tail(todo)
      /\ UNCHANGED <<program, inst, listed, semanticRun, symbol, counters, shown, ret>>
  BY DEF CallNext, Running
<1> DEFINE f == Head(todo)
<1>2. f \in TodoSet /\ todo' \in Seq(TodoSet)
  BY <1>1, TodoNext DEF TypeInv
<1>3. Types'
  BY <1>1, <1>2, SameInst DEF TypeInv, Types, RunsOK, CountsOK, counters
<1>4. StackOK(stack, inst, members, semanticRun, gag, gaggedErrors) /\ gag \in Nat
  BY <1>1 DEF TypeInv, Stacked, Types, CountsOK
<1>5. Fits(f, stack, inst, members, semanticRun, gag, gag, gaggedErrors)
  <2>1. CASE f = Check
    <3>1. 0 \in 0..3 /\ 0 \in Mod \cup Symbol \cup Template \cup Nat
      OBVIOUS
    <3>2. NewFrame(Frame("check", 0, 0), "check", 0, 0)
      BY <3>1, FrameFields
    <3> QED BY <1>1, <2>1, <3>2 DEF Check, NewFrame
  <2>2. ASSUME NEW p \in {2, 3}, f = RunDeferred(p)
        PROVE  Fits(f, stack, inst, members, semanticRun, gag, gag, gaggedErrors)
    BY <1>4, <2>2, DeferredFresh, FreshFits
  <2>3. ASSUME NEW m \in Mod, NEW p \in 1..3, f = ModulePass(m, p)
        PROVE  Fits(f, stack, inst, members, semanticRun, gag, gag, gaggedErrors)
    <3> HIDE DEF f
    <3>1. NewFrame(f, "module", m, p)
      <4>1. p \in 0..3
        OBVIOUS
      <4> QED BY <2>3, <4>1, FrameFields DEF ModulePass
    <3>2. FrameOK(f, inst) /\ ~Made(f) /\ ~Gags(f) /\ LevelStep(f, gag, gag)
      BY <3>1 DEF NewFrame, FrameOK, Made, Gags, LevelStep
    <3> QED BY <1>1, <1>4, <3>1, <3>2 DEF NewFrame, Fits
  <2> HIDE DEF f
  <2> QED BY <1>2, <2>1, <2>2, <2>3 DEF TodoSet
<1>6. <<f>> \o stack = <<f>>
  <2> HIDE DEF f
  <2> QED BY <1>1
<1>7. StackOK(stack', inst, members, semanticRun, gag, gaggedErrors)
  BY <1>1, <1>4, <1>5, <1>6, Push
<1>8. Stacked'
  BY <1>1, <1>7 DEF Stacked, listed, counters
<1> QED BY <1>3, <1>8 DEF TypeInv

LEMMA CheckErrorsOK ==
    ASSUME TypeInv, CheckErrors
    PROVE  TypeInv'
<1>1. /\ status = "running" /\ todo # <<>> /\ todo' = Tail(todo)
      /\ UNCHANGED <<program, inst, listed, semanticRun, symbol, counters, shown, stack, ret>>
  BY DEF CheckErrors, Running
<1>2. todo' \in Seq(TodoSet)
  BY <1>1, TodoNext DEF TypeInv
<1>3. Types'
  BY <1>1, <1>2, SameInst DEF TypeInv, Types, RunsOK, CountsOK, counters
<1>4. Stacked'
  BY <1>1 DEF TypeInv, Stacked, listed, counters
<1> QED BY <1>3, <1>4 DEF TypeInv

LEMMA RecursiveExpansionOK ==
    ASSUME TypeInv, RecursiveExpansion
    PROVE  TypeInv'
<1>1. CountsOK'
  BY DEF RecursiveExpansion, TypeInv, Types, CountsOK
<1>2. Types'
  BY <1>1, TypesSame DEF RecursiveExpansion, TypeInv
<1> QED BY <1>2 DEF RecursiveExpansion, TypeInv

LEMMA InitOK == Init => TypeInv
<1> SUFFICES ASSUME Init PROVE TypeInv
  OBVIOUS
<1>1. program \in Programs /\ inst = <<>> /\ Len(inst) = 0
  BY DEF Init
<1>2. InstOK /\ RetOK
  BY <1>1 DEF Init, InstOK, RetOK
<1>3. ListsOK
  BY <1>1 DEF Init, ListsOK
<1>4. RunsOK /\ CountsOK
  BY DEF Init, RunsOK, CountsOK, init, semantic3done, semanticdone
<1>5. todo \in Seq(TodoSet)
  <2>1. ASSUME NEW p \in 1..3
        PROVE  ForModules(p) \in Seq(TodoSet)
    <3>1. Modules \in Seq(Mod)
      BY ModulesAssumption
    <3>2. DOMAIN Modules = 1..Len(Modules) /\ Len(Modules) \in Nat /\ \A n \in 1..Len(Modules) : Modules[n] \in Mod
      BY <3>1, LenProperties, ElementOfSeq
    <3>3. \A n \in 1..Len(Modules) : ModulePass(Modules[n], p) \in TodoSet
      BY <3>2 DEF TodoSet
    <3>4. ForModules(p) \in [1..Len(Modules) -> TodoSet]
      BY <3>2, <3>3 DEF ForModules
    <3> QED BY <3>2, <3>4, FunctionSeq
  <2>2. /\ <<RunDeferred(2), Check>> \in Seq(TodoSet) /\ <<RunDeferred(3), Check>> \in Seq(TodoSet)
    <3>1. RunDeferred(2) \in TodoSet /\ RunDeferred(3) \in TodoSet /\ Check \in TodoSet
      BY DEF TodoSet
    <3> QED BY <3>1
  <2>3. 1 \in 1..3 /\ 2 \in 1..3 /\ 3 \in 1..3
    OBVIOUS
  <2>4. /\ ForModules(1) \in Seq(TodoSet) /\ ForModules(2) \in Seq(TodoSet)
        /\ ForModules(3) \in Seq(TodoSet)
    BY <2>1, <2>3
  <2>5. todo = ForModules(1) \o ForModules(2) \o <<RunDeferred(2), Check>>
               \o ForModules(3) \o <<RunDeferred(3), Check>>
    BY DEF Init
  <2> QED BY <2>2, <2>4, <2>5, ConcatProperties
<1>6. Stacked
  BY NoCalls DEF Init, Stacked
<1> QED BY <1>1, <1>2, <1>3, <1>4, <1>5, <1>6 DEF TypeInv, Types

LEMMA NextOK == TypeInv /\ [Next]_vars => TypeInv'
<1> SUFFICES ASSUME TypeInv, [Next]_vars PROVE TypeInv'
  OBVIOUS
<1>1. CASE ItemError \/ ItemSymbol \/ SymbolDone \/ ItemUse \/ TrialEnd
  BY <1>1, ItemErrorOK, ItemSymbolOK, SymbolDoneOK, ItemUseOK, TrialEndOK
<1>2. CASE Match \/ Implement \/ InstanceExpanded \/ InstanceInitialized
  BY <1>2, MatchOK, ImplementOK, InstanceExpandedOK, InstanceInitializedOK
<1>3. CASE InstanceCollected \/ InstanceEnlist \/ InstanceGood \/ InstanceBad
  BY <1>3, InstanceCollectedOK, InstanceEnlistOK, InstanceGoodOK, InstanceBadOK
<1>4. CASE PassEnter \/ PassFailed \/ PassEnd
  BY <1>4, PassEnterOK, PassFailedOK, PassEndOK
<1>5. CASE ModuleEnter \/ ModuleInstances \/ ModuleInstance \/ DeferredEnter \/ DeferredNext
  BY <1>5, ModuleEnterOK, ModuleInstancesOK, ModuleInstanceOK, DeferredEnterOK, DeferredNextOK
<1>6. CASE CallNext \/ CheckErrors \/ RecursiveExpansion
  BY <1>6, CallNextOK, CheckErrorsOK, RecursiveExpansionOK
<1>7. CASE Finished \/ UNCHANGED vars
  <2>1. UNCHANGED vars
    BY <1>7 DEF Finished
  <2>2. Types'
    BY <2>1, TypesSame DEF vars, counters, TypeInv, Types, CountsOK
  <2>3. Stacked = Stacked' /\ status' = status
    BY <2>1 DEF vars, listed, counters, Stacked
  <2> QED BY <2>2, <2>3 DEF TypeInv
<1> QED BY <1>1, <1>2, <1>3, <1>4, <1>5, <1>6, <1>7 DEF Next, Step

LEMMA Invariant == Spec => []TypeInv
BY InitOK, NextOK, PTL DEF Spec

LEMMA TypeInvOK == TypeInv => TypeOK
<1> SUFFICES ASSUME TypeInv PROVE TypeOK
  OBVIOUS
<1>1. Len(inst) \in Nat /\ Instances = 1..Len(inst)
  BY InstTypes DEF TypeInv, Types, Instances
<1>2. ASSUME NEW n \in Instances
      PROVE  /\ inst[n].key \in Template
             /\ {inst[n].gagged, inst[n].errors, inst[n].live, inst[n].root, inst[n].collects}
                  \subseteq BOOLEAN
             /\ inst[n].semanticRun \in init..semantic3
             /\ inst[n].tinst \in {0} \cup Instances
             /\ inst[n].deferred \in Seq(Instances)
  <2> DEFINE r == inst[n]
  <2>1. r \in InstSet(Len(inst))
    BY <1>1, InstTypes DEF TypeInv, Types
  <2> HIDE DEF r
  <2>2. /\ r.key \in Template /\ r.gagged \in BOOLEAN /\ r.errors \in BOOLEAN /\ r.live \in BOOLEAN
        /\ r.root \in BOOLEAN /\ r.collects \in BOOLEAN /\ r.semanticRun \in init..semantic3
        /\ r.tinst \in 0..Len(inst) /\ r.deferred \in Seq(1..Len(inst))
    BY <2>1 DEF InstSet
  <2>3. 0..Len(inst) \subseteq {0} \cup Instances
    BY <1>1
  <2> QED BY <1>1, <2>2, <2>3 DEF r
<1>3. ListsOK /\ RunsOK /\ CountsOK
  BY DEF TypeInv, Types
<1> QED BY <1>1, <1>2, <1>3 DEF TypeOK, ListsOK, RunsOK, CountsOK

\* Every variable has its type, and gagged errors are among the errors counted
\* (global.startGagging and endGagging, globals.d:400-442), however the ends of
\* trials, of ungagged symbols and of gagged passes follow each other.
THEOREM TypeCorrect == Spec => []TypeOK
BY Invariant, TypeInvOK, PTL

\* The assertions made when an instance is finished (dsymbolsem.d:5848, 5867): the
\* member that is taken out is the instance itself, and the instance that is
\* replaced had errors.
THEOREM AssertionsCorrect == Spec => []AssertionsHold
<1>1. TypeInv => AssertionsHold
  <2> SUFFICES ASSUME TypeInv, At("instance", "after") PROVE AssertionsHold
    BY DEF AssertionsHold
  <2>1. status = "running" /\ stack # <<>> /\ Made(Top)
    BY DEF At, Running, Made
  <2> DEFINE n == Top.of
             m == Home[inst[n].key]
  <2>2. Top.index \in 1..Len(members[m]) /\ members[m][Top.index] = n
    BY <2>1, TopFits DEF Fits, HomeOf
  <2>3. Top.errinst # 0 => inst[Top.errinst].errors
    BY <2>1, MadeGoes
  <2>4. DOMAIN members[m] = 1..Len(members[m])
    <3>1. n \in 1..Len(inst) /\ inst[n].key \in Template
      BY <2>1, MadeGoes
    <3>2. members[m] \in Seq(1..Len(inst))
      BY <3>1, ModulesAssumption DEF TypeInv, Types, ListsOK
    <3> QED BY <3>2, LenProperties
  <2> QED BY <2>2, <2>3, <2>4 DEF AssertionsHold
<1> QED BY <1>1, Invariant, PTL

(***************************************************************************)
(* What the instances are and where they come from changes in few places.   *)
(***************************************************************************)

\* The instances are those there were, each what it was, live as before, and
\* made for the same one.
Kept(J) ==
    /\ DOMAIN J = DOMAIN inst
    /\ \A n \in DOMAIN inst : /\ J[n].key = inst[n].key /\ J[n].live = inst[n].live
                              /\ J[n].root = inst[n].root /\ J[n].tinst = inst[n].tinst

LEMMA KeptOne ==
    ASSUME Types, NEW n \in DOMAIN inst, NEW r, r.key = inst[n].key, r.live = inst[n].live,
           r.root = inst[n].root, r.tinst = inst[n].tinst
    PROVE  Kept([inst EXCEPT ![n] = r])
<1> DEFINE J == [inst EXCEPT ![n] = r]
<1>1. DOMAIN J = DOMAIN inst
  OBVIOUS
<1>2. inst = [k \in DOMAIN inst |-> inst[k]]
  BY InstTypes DEF Types, InstOK
<1>3. \A k \in DOMAIN inst : J[k] = IF k = n THEN r ELSE inst[k]
  BY <1>2
<1> HIDE DEF J
<1>4. Kept(J)
  BY <1>1, <1>3 DEF Kept
<1> QED BY <1>4 DEF J

LEMMA KeptFields ==
    ASSUME Types, NEW n \in 1..Len(inst), NEW run
    PROVE  /\ Kept([inst EXCEPT ![n].semanticRun = run])
           /\ Kept([inst EXCEPT ![n].collects = TRUE])
           /\ Kept([inst EXCEPT ![n] = [@ EXCEPT !.collects = FALSE, !.deferred = <<>>]])
<1> DEFINE r == inst[n]
<1>1. r \in InstSet(Len(inst)) /\ n \in DOMAIN inst
  BY InstTypes DEF Types
<1> HIDE DEF r
<1> DEFINE a == [r EXCEPT !.semanticRun = run]
           b == [r EXCEPT !.collects = TRUE]
           c == [r EXCEPT !.collects = FALSE, !.deferred = <<>>]
<1>2. a.key = r.key /\ a.live = r.live /\ a.root = r.root /\ a.tinst = r.tinst
  BY <1>1 DEF InstSet
<1>3. b.key = r.key /\ b.live = r.live /\ b.root = r.root /\ b.tinst = r.tinst
  BY <1>1 DEF InstSet
<1>4. c.key = r.key /\ c.live = r.live /\ c.root = r.root /\ c.tinst = r.tinst
  BY <1>1 DEF InstSet
<1> HIDE DEF a, b, c
<1>5. Kept([inst EXCEPT ![n] = a]) /\ Kept([inst EXCEPT ![n] = b]) /\ Kept([inst EXCEPT ![n] = c])
  BY <1>1, <1>2, <1>3, <1>4, KeptOne DEF r
<1> QED BY <1>5 DEF a, b, c, r

LEMMA KeptFailed ==
    ASSUME Types, NEW n
    PROVE  Kept(Failed(n))
<1> DEFINE trace == IF inst[n].errors \/ gag > 0 THEN {} ELSE Chain(inst[n].tinst)
           J == [k \in DOMAIN inst |->
                   IF k \in trace \cup {n} THEN [inst[k] EXCEPT !.errors = TRUE] ELSE inst[k]]
<1>1. Failed(n) = J
  BY DEF Failed
<1>2. \A k \in DOMAIN inst : inst[k] \in InstSet(Len(inst))
  BY InstTypes DEF Types
<1>3. ASSUME NEW r \in InstSet(Len(inst))
      PROVE  /\ [r EXCEPT !.errors = TRUE].key = r.key /\ [r EXCEPT !.errors = TRUE].live = r.live
             /\ [r EXCEPT !.errors = TRUE].root = r.root
             /\ [r EXCEPT !.errors = TRUE].tinst = r.tinst
  BY DEF InstSet
<1> HIDE DEF trace
<1>4. Kept(J)
  BY <1>2, <1>3 DEF Kept
<1> QED BY <1>1, <1>4

\* The steps that change neither the lists nor where the instances come from.
Quiet ==
    \/ ItemError \/ ItemSymbol \/ SymbolDone \/ ItemUse
    \/ InstanceExpanded \/ InstanceInitialized \/ InstanceCollected \/ InstanceEnlist
    \/ PassEnter \/ PassFailed \/ PassEnd
    \/ ModuleEnter \/ ModuleInstances \/ ModuleInstance \/ DeferredEnter \/ DeferredNext
    \/ CallNext \/ CheckErrors \/ RecursiveExpansion

LEMMA QuietKeeps ==
    ASSUME TypeInv, Quiet
    PROVE  UNCHANGED <<members, table>> /\ Kept(inst')
<1> USE DEF listed
<1>1. UNCHANGED inst => Kept(inst')
  BY DEF Kept
<1>2. CASE ItemError \/ ItemSymbol \/ SymbolDone \/ ItemUse
  BY <1>1, <1>2 DEF ItemError, ItemSymbol, SymbolDone, ItemUse
<1>3. CASE InstanceExpanded \/ InstanceInitialized \/ InstanceCollected
  <2>1. status = "running" /\ stack # <<>> /\ Made(Top)
    BY <1>3 DEF InstanceExpanded, InstanceInitialized, InstanceCollected, AllDone, At, Running, Made
  <2>2. Top.of \in 1..Len(inst)
    BY <2>1, MadeGoes
  <2>3. CASE InstanceExpanded
    BY <2>2, <2>3, KeptFields DEF InstanceExpanded, TypeInv
  <2>4. CASE InstanceInitialized
    <3>1. UNCHANGED inst \/ inst' = [inst EXCEPT ![Top.of].collects = TRUE]
      BY <2>4 DEF InstanceInitialized
    <3>2. Kept([inst EXCEPT ![Top.of].collects = TRUE])
      BY <2>2, KeptFields DEF TypeInv
    <3>3. UNCHANGED <<members, table>>
      BY <2>4 DEF InstanceInitialized
    <3> QED BY <1>1, <3>1, <3>2, <3>3
  <2>5. CASE InstanceCollected
    <3>1. \/ UNCHANGED inst
          \/ inst' = [inst EXCEPT ![Top.of] = [@ EXCEPT !.collects = FALSE, !.deferred = <<>>]]
      BY <2>5 DEF InstanceCollected
    <3>2. Kept([inst EXCEPT ![Top.of] = [@ EXCEPT !.collects = FALSE, !.deferred = <<>>]])
      BY <2>2, KeptFields DEF TypeInv
    <3>3. UNCHANGED <<members, table>>
      BY <2>5 DEF InstanceCollected
    <3> QED BY <1>1, <3>1, <3>2, <3>3
  <2> QED BY <1>3, <2>3, <2>4, <2>5
<1>4. CASE InstanceEnlist
  <2> DEFINE n == Top.of
             joins(c) == \A i \in DOMAIN inst[c].deferred : inst[c].deferred[i] # n
             to == {c \in DOMAIN inst : c \in Collectors(inst[n].tinst) /\ joins(c)}
  <2>1. inst' = [c \in DOMAIN inst |->
                   IF c \in to THEN [inst[c] EXCEPT !.deferred = Append(@, n)] ELSE inst[c]]
    BY <1>4 DEF InstanceEnlist
  <2>2. \A c \in DOMAIN inst : inst[c] \in InstSet(Len(inst))
    BY InstTypes DEF TypeInv, Types
  <2>3. ASSUME NEW r \in InstSet(Len(inst)), NEW x
        PROVE  /\ [r EXCEPT !.deferred = x].key = r.key /\ [r EXCEPT !.deferred = x].live = r.live
               /\ [r EXCEPT !.deferred = x].root = r.root
               /\ [r EXCEPT !.deferred = x].tinst = r.tinst
    BY DEF InstSet
  <2> HIDE DEF to, n
  <2>4. Kept(inst')
    BY <2>1, <2>2, <2>3 DEF Kept
  <2> QED BY <1>4, <2>4 DEF InstanceEnlist
<1>5. CASE PassEnter \/ PassFailed \/ PassEnd
  <2>1. status = "running" /\ stack # <<>> /\ Top.proc = "pass"
    BY <1>5 DEF PassEnter, PassFailed, PassEnd, AllDone, At, Running
  <2>2. Top.of \in 1..Len(inst)
    BY <2>1, TopFits DEF FrameOK
  <2>3. CASE PassEnter
    <3>1. UNCHANGED inst \/ inst' = [inst EXCEPT ![Top.of].semanticRun = PassRun(Top.pass)]
      BY <2>3 DEF PassEnter
    <3>2. Kept([inst EXCEPT ![Top.of].semanticRun = PassRun(Top.pass)])
      BY <2>2, KeptFields DEF TypeInv
    <3>3. UNCHANGED <<members, table>>
      BY <2>3 DEF PassEnter
    <3> QED BY <1>1, <3>1, <3>2, <3>3
  <2>4. CASE PassFailed
    BY <2>4, KeptFailed DEF PassFailed, TypeInv
  <2>5. CASE PassEnd
    BY <1>1, <2>5 DEF PassEnd
  <2> QED BY <1>5, <2>3, <2>4, <2>5
<1>6. CASE ModuleEnter \/ ModuleInstances \/ ModuleInstance \/ DeferredEnter \/ DeferredNext
  BY <1>1, <1>6 DEF ModuleEnter, ModuleInstances, ModuleInstance, DeferredEnter, DeferredNext
<1>7. CASE CallNext \/ CheckErrors \/ RecursiveExpansion
  BY <1>1, <1>7 DEF CallNext, CheckErrors, RecursiveExpansion
<1> QED BY <1>2, <1>3, <1>4, <1>5, <1>6, <1>7 DEF Quiet

(***************************************************************************)
(* The members of the modules and the table.                                *)
(***************************************************************************)

\* The members of a module are different instances, live and declared there;
\* every live instance is one; and so are those in the table.
Distinct == \A m \in Mod : \A i, j \in 1..Len(members[m]) : members[m][i] = members[m][j] => i = j

Listed ==
    \A m \in Mod : \A i \in 1..Len(members[m]) :
       HomeOf(members[m][i], inst) = m /\ inst[members[m][i]].live

LiveListed ==
    \A n \in DOMAIN inst : inst[n].live =>
       \E i \in 1..Len(members[HomeOf(n, inst)]) : members[HomeOf(n, inst)][i] = n

TableLive == \A k \in Template : \A n \in table[k] : inst[n].live /\ inst[n].key = k

ListInv == Distinct /\ Listed /\ LiveListed /\ TableLive

\* Where the instances and the members are.
LEMMA ListTypes ==
    ASSUME Types
    PROVE  /\ DOMAIN inst = 1..Len(inst) /\ Len(inst) \in Nat
           /\ \A m \in Mod : /\ members[m] \in Seq(1..Len(inst)) /\ Len(members[m]) \in Nat
                             /\ \A i \in 1..Len(members[m]) : members[m][i] \in DOMAIN inst
           /\ \A n \in DOMAIN inst : inst[n].key \in Template /\ HomeOf(n, inst) \in Mod
           /\ \A k \in Template : table[k] \subseteq DOMAIN inst
<1>1. DOMAIN inst = 1..Len(inst) /\ Len(inst) \in Nat
  BY InstTypes DEF Types
<1>2. \A n \in DOMAIN inst : inst[n].key \in Template /\ HomeOf(n, inst) \in Mod
  BY <1>1, InstTypes DEF Types
<1>3. ASSUME NEW m \in Mod
      PROVE  /\ members[m] \in Seq(1..Len(inst)) /\ Len(members[m]) \in Nat
             /\ \A i \in 1..Len(members[m]) : members[m][i] \in DOMAIN inst
  <2>1. members[m] \in Seq(1..Len(inst))
    BY DEF Types, ListsOK
  <2> QED BY <1>1, <2>1, LenProperties, ElementOfSeq
<1>4. \A k \in Template : table[k] \subseteq DOMAIN inst
  BY <1>1 DEF Types, ListsOK
<1> QED BY <1>1, <1>2, <1>3, <1>4

\* If the members are the same, the table has no more than it had, and the
\* instances are live as before, the lists are in order as before.
LEMMA ListsKept ==
    ASSUME TypeInv, ListInv, UNCHANGED members, DOMAIN inst' = DOMAIN inst,
           \A k \in Template : table'[k] \subseteq table[k],
           \A n \in DOMAIN inst : inst'[n].key = inst[n].key /\ inst'[n].live = inst[n].live
    PROVE  ListInv'
<1>1. \A n \in DOMAIN inst : HomeOf(n, inst') = HomeOf(n, inst)
  BY DEF HomeOf
<1>2. /\ \A m \in Mod : \A i \in 1..Len(members[m]) : members[m][i] \in DOMAIN inst
      /\ \A k \in Template : table[k] \subseteq DOMAIN inst
  BY ListTypes DEF TypeInv
<1>3. Distinct'
  BY DEF ListInv, Distinct
<1>4. Listed'
  BY <1>1, <1>2 DEF ListInv, Listed
<1>5. LiveListed'
  <2> SUFFICES ASSUME NEW n \in DOMAIN inst, inst[n].live
               PROVE  \E i \in 1..Len(members[HomeOf(n, inst)]) : members[HomeOf(n, inst)][i] = n
    BY <1>1 DEF LiveListed
  <2> QED BY DEF ListInv, LiveListed
<1>6. TableLive'
  BY <1>2 DEF ListInv, TableLive
<1> QED BY <1>3, <1>4, <1>5, <1>6 DEF ListInv

LEMMA LeakKeeps ==
    ASSUME TypeInv, TrialEnd
    PROVE  /\ UNCHANGED <<members, table>> /\ DOMAIN inst' = DOMAIN inst
           /\ \A n \in DOMAIN inst : inst'[n].key = inst[n].key /\ inst'[n].live = inst[n].live
<1>1. UNCHANGED <<members, table>>
  BY DEF TrialEnd, listed
<1>2. UNCHANGED inst \/ (ret.good /\ Leak(Top))
  BY DEF TrialEnd
<1>3. CASE UNCHANGED inst
  BY <1>1, <1>3
<1>4. CASE ret.good /\ Leak(Top) /\ ~UNCHANGED inst
  <2> DEFINE r == inst[ret.of]
             t == Top.tinst
             q == [r EXCEPT !.root = TRUE, !.tinst = IF r.tinst = 0 THEN t ELSE r.tinst]
  <2>1. ret.of \in 1..Len(inst) /\ r \in InstSet(Len(inst)) /\ ret.of \in DOMAIN inst
    BY <1>4, InstTypes DEF TypeInv, Types, RetOK
  <2>2. inst' = [inst EXCEPT ![ret.of] = q]
    <3>1. Top.mode = "alias" /\ Top.root /\ ~inst[ret.of].root
      BY <1>4 DEF Leak
    <3> QED BY <1>4, <3>1 DEF Leak
  <2> HIDE DEF r, t
  <2>3. q.key = r.key /\ q.live = r.live
    BY <2>1 DEF InstSet
  <2> HIDE DEF q
  <2>4. inst = [k \in DOMAIN inst |-> inst[k]]
    BY InstTypes DEF TypeInv, Types, InstOK
  <2>5. DOMAIN inst' = DOMAIN inst /\ \A k \in DOMAIN inst : inst'[k] = IF k = ret.of THEN q ELSE inst[k]
    BY <2>1, <2>2, <2>4
  <2> QED BY <1>1, <2>3, <2>5 DEF r
<1> QED BY <1>2, <1>3, <1>4

LEMMA MatchKeeps ==
    ASSUME TypeInv, NEW e, MatchStep(e)
    PROVE  /\ DOMAIN inst' = DOMAIN inst
           /\ \A n \in DOMAIN inst : /\ inst'[n].key = inst[n].key /\ inst'[n].live = inst[n].live
                                     /\ inst'[n] = IF n = e THEN MatchedBy(e) ELSE inst[n]
<1>1. inst' = [inst EXCEPT ![e] = MatchedBy(e)] /\ e \in DOMAIN inst
  BY InstTypes DEF MatchStep, TypeInv, Types
<1>2. inst = [k \in DOMAIN inst |-> inst[k]]
  BY InstTypes DEF TypeInv, Types, InstOK
<1>3. DOMAIN inst' = DOMAIN inst
      /\ \A n \in DOMAIN inst : inst'[n] = IF n = e THEN MatchedBy(e) ELSE inst[n]
  BY <1>1, <1>2
<1>4. MatchedBy(e).key = inst[e].key /\ MatchedBy(e).live = inst[e].live
  BY DEF MatchStep
<1> QED BY <1>3, <1>4

\* A new instance is appended to the members of its module.
LEMMA ListsImplement ==
    ASSUME TypeInv, ListInv, Implement
    PROVE  ListInv'
<1>1. Top.tinst \in 0..Len(inst) /\ Top \in FrameSet
  BY ImplementDoes
<1> DEFINE n == Len(inst) + 1
           m == Home[Top.of]
<1>2. PICK e : ImplementStep(n, e, m)
  BY ImplementDoes
<1>3. /\ Len(inst') = n /\ Len(inst) \in Nat
      /\ \A x \in 1..Len(inst) : inst'[x] = inst[x]
      /\ inst'[n] = NewInst(Top.of, Top.root, Top.tinst) /\ DOMAIN inst' = 1..n
      /\ DOMAIN inst = 1..Len(inst)
  <2>1. Top.root \in BOOLEAN
    BY <1>1 DEF FrameSet
  <2>2. /\ inst' \in Seq(InstSet(n)) /\ Len(inst') = n /\ Len(inst) \in Nat
        /\ \A x \in 1..Len(inst) : inst'[x] = inst[x]
        /\ inst'[n] = NewInst(Top.of, Top.root, Top.tinst)
    BY <1>1, <1>2, <2>1, ImplementInst DEF TypeInv
  <2>3. DOMAIN inst' = 1..n
    BY <2>2, LenProperties
  <2> QED BY <2>2, <2>3, InstTypes DEF TypeInv, Types
<1>4. /\ m \in Mod /\ Top.of \in Template
      /\ table' = [table EXCEPT ![Top.of] = @ \cup {n}]
      /\ members' = [members EXCEPT ![m] = Append(@, n)]
  BY <1>2 DEF ImplementStep
<1>5. /\ \A x \in Mod : /\ members[x] \in Seq(1..Len(inst)) /\ Len(members[x]) \in Nat
                        /\ \A i \in 1..Len(members[x]) : members[x][i] \in 1..Len(inst)
      /\ \A x \in 1..Len(inst) : HomeOf(x, inst) \in Mod
      /\ \A k \in Template : table[k] \subseteq 1..Len(inst)
  BY <1>3, ListTypes DEF TypeInv
<1>6. /\ inst'[n].key = Top.of /\ inst'[n].live /\ HomeOf(n, inst') = m
      /\ \A x \in 1..Len(inst) : HomeOf(x, inst') = HomeOf(x, inst)
  BY <1>3 DEF NewInst, HomeOf
<1>7. n \notin 1..Len(inst) /\ \A x \in 1..n : x = n \/ x \in 1..Len(inst)
  BY <1>3
<1> HIDE DEF n, m
<1>8. /\ \A x \in Mod : x # m => members'[x] = members[x]
      /\ Len(members'[m]) = Len(members[m]) + 1
      /\ \A i \in 1..Len(members'[m]) :
            IF i = Len(members[m]) + 1 THEN members'[m][i] = n
            ELSE i \in 1..Len(members[m]) /\ members'[m][i] = members[m][i]
      /\ \A i \in 1..Len(members[m]) : i \in 1..Len(members'[m]) /\ members'[m][i] = members[m][i]
      /\ Len(members[m]) + 1 \in 1..Len(members'[m])
  <2>1. members \in [Mod -> Seq(1..Len(inst))]
    BY DEF TypeInv, Types, ListsOK
  <2>2. members'[m] = Append(members[m], n) /\ \A x \in Mod : x # m => members'[x] = members[x]
    BY <1>4, <2>1
  <2>3. members[m] \in Seq(1..n) /\ n \in 1..n /\ Len(members[m]) \in Nat
    <3>1. 1..Len(inst) \subseteq 1..n /\ n \in 1..n
      BY <1>3 DEF n
    <3> QED BY <1>4, <1>5, <3>1, WiderSeq
  <2>4. /\ Len(members'[m]) = Len(members[m]) + 1
        /\ \A i \in 1..Len(members[m]) : members'[m][i] = members[m][i]
        /\ members'[m][Len(members[m]) + 1] = n
    BY <2>2, <2>3, AppendProperties
  <2>5. \A i \in 1..Len(members[m]) + 1 : i = Len(members[m]) + 1 \/ i \in 1..Len(members[m])
    BY <2>3
  <2>6. /\ \A i \in 1..Len(members[m]) : i \in 1..Len(members[m]) + 1
        /\ Len(members[m]) + 1 \in 1..Len(members[m]) + 1
    BY <2>3
  <2> QED BY <2>2, <2>4, <2>5, <2>6
<1>9. Distinct'
  <2> SUFFICES ASSUME NEW x \in Mod, NEW i \in 1..Len(members'[x]), NEW j \in 1..Len(members'[x]),
                      members'[x][i] = members'[x][j]
               PROVE  i = j
    BY DEF Distinct
  <2>1. CASE x # m
    BY <1>8, <2>1 DEF ListInv, Distinct
  <2>2. CASE x = m
    <3>1. \A k \in 1..Len(members[m]) : members[m][k] # n
      BY <1>4, <1>5, <1>7
    <3> QED BY <1>4, <1>8, <2>2, <3>1 DEF ListInv, Distinct
  <2> QED BY <2>1, <2>2
<1>10. Listed'
  <2> SUFFICES ASSUME NEW x \in Mod, NEW i \in 1..Len(members'[x])
               PROVE  HomeOf(members'[x][i], inst') = x /\ inst'[members'[x][i]].live
    BY DEF Listed
  <2>1. CASE x # m
    BY <1>3, <1>5, <1>6, <1>8, <2>1 DEF ListInv, Listed
  <2>2. CASE x = m
    BY <1>3, <1>4, <1>5, <1>6, <1>8, <2>2 DEF ListInv, Listed
  <2> QED BY <2>1, <2>2
<1>11. LiveListed'
  <2> SUFFICES ASSUME NEW x \in 1..n, inst'[x].live
               PROVE  \E i \in 1..Len(members'[HomeOf(x, inst')]) : members'[HomeOf(x, inst')][i] = x
    BY <1>3 DEF LiveListed
  <2>1. CASE x = n
    BY <1>4, <1>6, <1>8, <2>1
  <2>2. CASE x \in 1..Len(inst)
    <3>1. inst[x].live /\ HomeOf(x, inst') = HomeOf(x, inst) /\ HomeOf(x, inst) \in Mod
      BY <1>3, <1>5, <1>6, <2>2
    <3>2. PICK i \in 1..Len(members[HomeOf(x, inst)]) : members[HomeOf(x, inst)][i] = x
      BY <1>3, <2>2, <3>1 DEF ListInv, LiveListed
    <3>3. i \in 1..Len(members'[HomeOf(x, inst)]) /\ members'[HomeOf(x, inst)][i] = x
      BY <1>8, <3>1, <3>2
    <3> QED BY <3>1, <3>3
  <2> QED BY <1>7, <2>1, <2>2
<1>12. TableLive'
  <2> SUFFICES ASSUME NEW k \in Template, NEW x \in table'[k]
               PROVE  inst'[x].live /\ inst'[x].key = k
    BY DEF TableLive
  <2>1. x \in table[k] \/ (k = Top.of /\ x = n)
    BY <1>4 DEF TypeInv, Types, ListsOK
  <2> QED BY <1>3, <1>5, <1>6, <2>1 DEF ListInv, TableLive
<1> QED BY <1>9, <1>10, <1>11, <1>12 DEF ListInv

\* An instance that is taken back is taken out of the members and of the table.
LEMMA ListsTakenBack ==
    ASSUME TypeInv, ListInv, InstanceBad, inst[Top.of].gagged
    PROVE  ListInv'
<1>1. status = "running" /\ stack # <<>> /\ Made(Top) /\ Top.proc = "instance"
  BY DEF InstanceBad, At, Running, Made
<1> DEFINE n == Top.of
           m == HomeOf(n, inst)
           l == Top.index
           was(i) == IF i < l THEN i ELSE i + 1
<1>2. n \in 1..Len(inst) /\ inst[n].key \in Template
  BY <1>1, MadeGoes
<1>3. /\ DOMAIN inst = 1..Len(inst) /\ Len(inst) \in Nat
      /\ \A x \in Mod : /\ members[x] \in Seq(1..Len(inst)) /\ Len(members[x]) \in Nat
                        /\ \A i \in 1..Len(members[x]) : members[x][i] \in DOMAIN inst
      /\ \A x \in DOMAIN inst : inst[x].key \in Template /\ HomeOf(x, inst) \in Mod
      /\ \A k \in Template : table[k] \subseteq DOMAIN inst
  BY ListTypes DEF TypeInv
<1>4. m \in Mod /\ l \in 1..Len(members[m]) /\ members[m][l] = n
  BY <1>1, <1>2, <1>3, TopFits DEF Fits
<1>5. /\ members' = [members EXCEPT ![m] = RemoveAt(@, l)]
      /\ table' = [table EXCEPT ![inst[n].key] = @ \ {n}]
      /\ inst' = [Failed(n) EXCEPT ![n] = [@ EXCEPT !.live = FALSE, !.semanticRun = init]]
  BY DEF InstanceBad, HomeOf
<1>6. /\ DOMAIN inst' = DOMAIN inst
      /\ \A x \in DOMAIN inst : /\ inst'[x].key = inst[x].key
                                /\ HomeOf(x, inst') = HomeOf(x, inst)
                                /\ x # n => inst'[x].live = inst[x].live
      /\ ~inst'[n].live
  <2>1. Kept(Failed(n)) /\ Changed(Failed(n))
    BY KeptFailed, FailedChanged DEF TypeInv
  <2> DEFINE J == Failed(n)
             r == J[n]
             q == [r EXCEPT !.live = FALSE, !.semanticRun = init]
  <2>2. J = [k \in 1..Len(inst) |-> J[k]] /\ r \in InstSet(Len(inst)) /\ DOMAIN J = DOMAIN inst
    BY <1>2, <2>1 DEF Changed, Kept
  <2>3. inst' = [J EXCEPT ![n] = q]
    BY <1>5
  <2>4. r.key = inst[n].key
    BY <1>2, <1>3, <2>1 DEF Kept
  <2> HIDE DEF r
  <2>5. q.key = r.key /\ ~q.live
    BY <2>2 DEF InstSet
  <2> HIDE DEF J, q
  <2>6. DOMAIN inst' = DOMAIN inst /\ \A x \in DOMAIN inst : inst'[x] = IF x = n THEN q ELSE J[x]
    BY <1>2, <1>3, <2>2, <2>3
  <2>7. \A x \in DOMAIN inst : J[x].key = inst[x].key /\ J[x].live = inst[x].live
    BY <2>1 DEF Kept, J
  <2>8. \A x \in DOMAIN inst : inst'[x].key = inst[x].key
    BY <2>4, <2>5, <2>6, <2>7
  <2> QED BY <1>2, <1>3, <2>5, <2>6, <2>7, <2>8 DEF HomeOf
<1> HIDE DEF n, m, l
<1>7. /\ \A x \in Mod : x # m => members'[x] = members[x]
      /\ Len(members'[m]) = Len(members[m]) - 1
      /\ \A i \in 1..Len(members[m]) - 1 :
            members'[m][i] = IF i < l THEN members[m][i] ELSE members[m][i + 1]
  <2>1. members \in [Mod -> Seq(1..Len(inst))] /\ members[m] \in Seq(1..Len(inst))
    BY <1>4 DEF TypeInv, Types, ListsOK
  <2>2. members'[m] = RemoveAt(members[m], l) /\ \A x \in Mod : x # m => members'[x] = members[x]
    BY <1>4, <1>5, <2>1
  <2> QED BY <1>4, <2>1, <2>2, RemoveAtProperties
\* Each member that stays had one place, which was not that of n.
<1>8. \A i \in 1..Len(members'[m]) :
         was(i) \in 1..Len(members[m]) /\ members'[m][i] = members[m][was(i)] /\ was(i) # l
  BY <1>3, <1>4, <1>7
<1>9. \A i, j \in 1..Len(members'[m]) : was(i) = was(j) => i = j
  <2> TAKE i, j \in 1..Len(members'[m])
  <2>1. i \in Int /\ j \in Int /\ l \in Int
    BY <1>3, <1>4
  <2> QED BY <2>1
<1>10. \A i \in 1..Len(members[m]) : i # l => \E j \in 1..Len(members'[m]) : was(j) = i
  <2> SUFFICES ASSUME NEW i \in 1..Len(members[m]), i # l
               PROVE  \E j \in 1..Len(members'[m]) : was(j) = i
    OBVIOUS
  <2>1. CASE i < l
    <3>1. i \in 1..Len(members'[m]) /\ was(i) = i
      BY <1>3, <1>4, <1>7, <2>1
    <3> QED BY <3>1
  <2>2. CASE ~(i < l)
    <3>1. i - 1 \in 1..Len(members'[m]) /\ was(i - 1) = i
      BY <1>3, <1>4, <1>7, <2>2
    <3> QED BY <3>1
  <2> QED BY <2>1, <2>2
<1> HIDE DEF was
<1>11. \A i \in 1..Len(members'[m]) : members'[m][i] # n
  BY <1>4, <1>8 DEF ListInv, Distinct
<1>12. Distinct'
  <2> SUFFICES ASSUME NEW x \in Mod, NEW i \in 1..Len(members'[x]), NEW j \in 1..Len(members'[x]),
                      members'[x][i] = members'[x][j]
               PROVE  i = j
    BY DEF Distinct
  <2>1. CASE x # m
    BY <1>7, <2>1 DEF ListInv, Distinct
  <2>2. CASE x = m
    <3>1. was(i) = was(j)
      BY <1>4, <1>8, <2>2 DEF ListInv, Distinct
    <3> QED BY <1>9, <2>2, <3>1
  <2> QED BY <2>1, <2>2
<1>13. Listed'
  <2> SUFFICES ASSUME NEW x \in Mod, NEW i \in 1..Len(members'[x])
               PROVE  HomeOf(members'[x][i], inst') = x /\ inst'[members'[x][i]].live
    BY DEF Listed
  <2>1. CASE x # m
    <3>1. members[x][i] \in DOMAIN inst /\ HomeOf(members[x][i], inst) = x /\ inst[members[x][i]].live
      BY <1>3, <1>7, <2>1 DEF ListInv, Listed
    <3>2. members[x][i] # n
      BY <2>1, <3>1 DEF m
    <3> QED BY <1>6, <1>7, <2>1, <3>1, <3>2
  <2>2. CASE x = m
    <3>1. /\ members[m][was(i)] \in DOMAIN inst /\ HomeOf(members[m][was(i)], inst) = m
          /\ inst[members[m][was(i)]].live
      BY <1>3, <1>4, <1>8, <2>2 DEF ListInv, Listed
    <3> QED BY <1>6, <1>8, <1>11, <2>2, <3>1
  <2> QED BY <2>1, <2>2
<1>14. LiveListed'
  <2> SUFFICES ASSUME NEW x \in DOMAIN inst, inst'[x].live
               PROVE  \E i \in 1..Len(members'[HomeOf(x, inst)]) : members'[HomeOf(x, inst)][i] = x
    BY <1>6 DEF LiveListed
  <2>1. x # n /\ inst[x].live /\ HomeOf(x, inst) \in Mod
    BY <1>3, <1>6
  <2>2. PICK i \in 1..Len(members[HomeOf(x, inst)]) : members[HomeOf(x, inst)][i] = x
    BY <2>1 DEF ListInv, LiveListed
  <2>3. CASE HomeOf(x, inst) # m
    BY <1>7, <2>1, <2>2, <2>3
  <2>4. CASE HomeOf(x, inst) = m
    <3>1. i # l
      BY <1>4, <2>1, <2>2, <2>4
    <3>2. PICK j \in 1..Len(members'[m]) : was(j) = i
      BY <1>10, <2>2, <2>4, <3>1
    <3> QED BY <1>8, <2>2, <2>4, <3>2
  <2> QED BY <2>3, <2>4
<1>15. TableLive'
  <2> SUFFICES ASSUME NEW k \in Template, NEW x \in table'[k]
               PROVE  inst'[x].live /\ inst'[x].key = k
    BY DEF TableLive
  <2>1. table \in [Template -> SUBSET (1..Len(inst))] /\ inst[n].key \in Template
    BY <1>2 DEF TypeInv, Types, ListsOK, n
  <2>2. x \in table[k] /\ (k = inst[n].key => x # n)
    BY <1>5, <2>1
  <2>3. inst[x].live /\ inst[x].key = k /\ x \in DOMAIN inst
    BY <1>3, <2>2 DEF ListInv, TableLive
  <2>4. x # n
    BY <2>2, <2>3
  <2> QED BY <1>6, <2>3, <2>4
<1> QED BY <1>12, <1>13, <1>14, <1>15 DEF ListInv

LEMMA ListsNext == TypeInv /\ ListInv /\ [Next]_vars => ListInv'
<1> SUFFICES ASSUME TypeInv, ListInv, [Next]_vars PROVE ListInv'
  OBVIOUS
<1>1. CASE Quiet
  BY <1>1, QuietKeeps, ListsKept DEF Kept
<1>2. CASE TrialEnd
  BY <1>2, LeakKeeps, ListsKept
<1>3. CASE Match
  <2>1. PICK e : MatchStep(e)
    BY <1>3, MatchDoes
  <2>2. UNCHANGED <<members, table>>
    BY <1>3 DEF Match, listed
  <2> QED BY <2>1, <2>2, MatchKeeps, ListsKept
<1>4. CASE Implement
  BY <1>4, ListsImplement
<1>5. CASE InstanceGood
  <2>1. UNCHANGED <<members, inst>>
    BY <1>5 DEF InstanceGood
  <2>2. \A k \in Template : table'[k] \subseteq table[k]
    <3> DEFINE x == inst[Top.of].key
    <3>1. table' = [table EXCEPT ![x] = @ \ {Top.errinst}] /\ table \in [Template -> SUBSET (1..Len(inst))]
      BY <1>5 DEF InstanceGood, TypeInv, Types, ListsOK
    <3> HIDE DEF x
    <3> QED BY <3>1
  <2> QED BY <2>1, <2>2, ListsKept
<1>6. CASE InstanceBad /\ inst[Top.of].gagged
  BY <1>6, ListsTakenBack
<1>7. CASE InstanceBad /\ ~inst[Top.of].gagged
  <2>1. UNCHANGED <<members, table>> /\ inst' = Failed(Top.of)
    BY <1>7 DEF InstanceBad
  <2>2. Kept(inst')
    BY <2>1, KeptFailed DEF TypeInv
  <2> QED BY <2>1, <2>2, ListsKept DEF Kept
<1>8. CASE Finished \/ UNCHANGED vars
  BY <1>8, ListsKept DEF Finished, vars, listed
<1> QED BY <1>1, <1>2, <1>3, <1>4, <1>5, <1>6, <1>7, <1>8 DEF Next, Step, Quiet

LEMMA ListsInit == Init => ListInv
<1> SUFFICES ASSUME Init PROVE ListInv
  OBVIOUS
<1>1. \A m \in Mod : Len(members[m]) = 0
  BY DEF Init
<1>2. DOMAIN inst = {} /\ \A k \in Template : table[k] = {}
  BY DEF Init
<1> QED BY <1>1, <1>2 DEF ListInv, Distinct, Listed, LiveListed, TableLive

\* An instance is a member of its module exactly once until it is taken back, and
\* then never again, and the table finds no instance that was taken back
\* (TemplateInstance.appendToModuleMember, dtemplate.d; addInstance and
\* removeInstance, dtemplate.d; the removal at dsymbolsem.d:5848), however many
\* instances were appended and taken out while it was being made.
THEOREM MembersCorrect == Spec => []ListedOnce
<1>1. TypeInv /\ ListInv => ListedOnce
  <2> SUFFICES ASSUME TypeInv, ListInv PROVE ListedOnce
    OBVIOUS
  <2>1. ASSUME NEW n \in Instances
        PROVE  LET list == members[Home[inst[n].key]]
               IN Cardinality({i \in DOMAIN list : list[i] = n}) = IF inst[n].live THEN 1 ELSE 0
    <3> DEFINE m == Home[inst[n].key]
               list == members[m]
               at == {i \in DOMAIN list : list[i] = n}
    <3>1. /\ n \in DOMAIN inst /\ m = HomeOf(n, inst) /\ m \in Mod /\ list \in Seq(1..Len(inst))
      BY ListTypes DEF Instances, HomeOf, TypeInv
    <3>2. DOMAIN list = 1..Len(list)
      BY <3>1, LenProperties
    <3>3. CASE inst[n].live
      <4>1. PICK i \in 1..Len(list) : list[i] = n
        BY <3>1, <3>3 DEF ListInv, LiveListed
      <4>2. at = {i}
        BY <3>1, <3>2, <4>1 DEF ListInv, Distinct
      <4> QED BY <3>3, <4>2, FS_Singleton
    <3>4. CASE ~inst[n].live
      <4>1. at = {}
        BY <3>1, <3>2, <3>4 DEF ListInv, Listed
      <4> QED BY <3>4, <4>1, FS_EmptySet
    <3> QED BY <3>3, <3>4
  <2>2. \A k \in Template : \A n \in table[k] : inst[n].live /\ inst[n].key = k
    BY DEF ListInv, TableLive
  <2> QED BY <2>1, <2>2 DEF ListedOnce
<1>2. Spec => []ListInv
  BY Invariant, ListsInit, ListsNext, PTL DEF Spec
<1> QED BY <1>1, <1>2, Invariant, PTL

(***************************************************************************)
(* The chain of tinst.  In a program without is(... id) an instance that is  *)
(* part of the output was made for instances that are: the roots are closed  *)
(* under tinst, and an instance that swaps places is no root before.         *)
(***************************************************************************)

NoAlias == \A x \in DOMAIN program : \A i \in ItemsOf(x) : i.mode # "alias"

Roots(I) == {n \in DOMAIN I : I[n].root}

\* What a frame knows of roots.
RootOK(f, I) ==
    /\ f.proc = "instance" /\ f.pc = "enter" /\ f.root /\ f.tinst # 0 => I[f.tinst].root
    /\ Made(f) /\ f.root => I[f.of].root
    /\ f.proc = "pass" /\ f.pc # "enter" /\ f.root => I[f.of].root
    /\ f.proc = "trial" => f.mode # "alias"

RootsOK(s, I) == \A k \in 1..Len(s) : RootOK(s[k], I)

RootsClosed(I) == \A n \in DOMAIN I : I[n].root /\ I[n].tinst # 0 => I[I[n].tinst].root

\* From each instance the chain leads away from it: there is a set closed under
\* tinst with what it was made for, but without itself.
ClosedIn(S, I) == \A k \in S : I[k].tinst \in S \cup {0}

Leads(n, I) ==
    \E S \in SUBSET DOMAIN I : ClosedIn(S, I) /\ n \notin S /\ I[n].tinst \in S \cup {0}

AllLead(I) == \A n \in DOMAIN I : Leads(n, I)

RootInv ==
    NoAlias => /\ RootsClosed(inst) /\ AllLead(inst)
               /\ status = "running" => RootsOK(stack, inst)

LEMMA RootPush ==
    ASSUME NEW s \in Seq(FrameSet), NEW f \in FrameSet, NEW I, RootsOK(s, I), RootOK(f, I)
    PROVE  RootsOK(<<f>> \o s, I)
<1> DEFINE t == <<f>> \o s
<1>1. /\ Len(t) = Len(s) + 1 /\ Len(s) \in Nat /\ t[1] = f
      /\ \A k \in 1..Len(s) + 1 : k = 1 \/ (k - 1 \in 1..Len(s) /\ t[k] = s[k - 1])
  BY PushSeq
<1> HIDE DEF t
<1>2. \A k \in 1..Len(t) : RootOK(t[k], I)
  BY <1>1 DEF RootsOK
<1> QED BY <1>2 DEF RootsOK, t

LEMMA RootRest ==
    ASSUME NEW s \in Seq(FrameSet), s # <<>>, NEW I, RootsOK(s, I)
    PROVE  RootsOK(Tail(s), I) /\ RootOK(Head(s), I)
<1>1. /\ Head(s) = s[1] /\ 1 \in 1..Len(s)
      /\ \A k \in 1..Len(Tail(s)) : Tail(s)[k] = s[k + 1] /\ k + 1 \in 1..Len(s)
  BY PopSeq
<1> QED BY <1>1 DEF RootsOK

\* Roots stay roots.
LEMMA RootMore ==
    ASSUME NEW s, NEW I, NEW J, NEW K, Len(K) = Len(I), \A k \in 1..Len(s) : FrameOK(s[k], K),
           \A n \in 1..Len(I) : I[n].root => J[n].root, RootsOK(s, I)
    PROVE  RootsOK(s, J)
<1> SUFFICES ASSUME NEW k \in 1..Len(s) PROVE RootOK(s[k], J)
  BY DEF RootsOK
<1> DEFINE f == s[k]
<1>1. RootOK(f, I) /\ FrameOK(f, K)
  BY DEF RootsOK
<1> HIDE DEF f
<1>2. f.proc = "instance" /\ f.tinst # 0 => f.tinst \in 1..Len(I)
  BY <1>1 DEF FrameOK
<1>3. Made(f) \/ f.proc = "pass" => f.of \in 1..Len(I)
  BY <1>1 DEF FrameOK
<1>4. RootOK(f, J)
  BY <1>1, <1>2, <1>3 DEF RootOK
<1> QED BY <1>4 DEF f

\* A call that is only made now, of a pass or of a deferred list.
LEMMA RootFresh ==
    ASSUME NEW f, NEW I, Fresh(f, I), f.proc # "instance"
    PROVE  RootOK(f, I)
  BY DEF Fresh, RootOK, Made

LEMMA RootTop ==
    ASSUME TypeInv, status = "running", stack # <<>>, RootsOK(stack, inst)
    PROVE  /\ RootsOK(Tail(stack), inst) /\ RootOK(Top, inst)
           /\ Tail(stack) \in Seq(FrameSet)
  BY TopFits, RootRest DEF Top

LEMMA RootContinue ==
    ASSUME TypeInv, status = "running", stack # <<>>, RootsOK(stack, inst), NEW h, Moves(Top, h),
           Top.proc # "trial", Top.proc = "pass" => Top.pc # "enter"
    PROVE  RootsOK(<<h>> \o Tail(stack), inst) /\ <<h>> \o Tail(stack) \in Seq(FrameSet)
<1>1. RootsOK(Tail(stack), inst) /\ RootOK(Top, inst) /\ Tail(stack) \in Seq(FrameSet)
  BY RootTop
<1>2. h \in FrameSet /\ h.proc = Top.proc /\ h.of = Top.of /\ h.root = Top.root
  BY DEF Moves, Same
<1>3. h.proc = "instance" => Made(Top) /\ Made(h)
  BY <1>2 DEF Moves, Made
<1>4. RootOK(h, inst)
  BY <1>1, <1>2, <1>3 DEF RootOK, Made
<1> QED BY <1>1, <1>2, <1>4, RootPush, PushSeq

LEMMA RootCall ==
    ASSUME TypeInv, status = "running", stack # <<>>, RootsOK(stack, inst), NEW h, Moves(Top, h),
           Top.proc # "trial", Top.proc = "pass" => Top.pc # "enter",
           NEW c, Fresh(c, inst), c.proc # "instance"
    PROVE  RootsOK(<<c, h>> \o Tail(stack), inst)
<1>1. RootsOK(<<h>> \o Tail(stack), inst) /\ <<h>> \o Tail(stack) \in Seq(FrameSet)
  BY RootContinue
<1>2. c \in FrameSet /\ RootOK(c, inst)
  BY RootFresh DEF Fresh, FrameOK
<1>3. RootsOK(<<c>> \o (<<h>> \o Tail(stack)), inst)
  BY <1>1, <1>2, RootPush
<1>4. <<c, h>> \o Tail(stack) = <<c>> \o (<<h>> \o Tail(stack))
  BY CallOK
<1> QED BY <1>3, <1>4

LEMMA RootResume ==
    ASSUME TypeInv, status = "running", stack # <<>>, RootsOK(stack, inst),
           Top.pc \in {"members", "instances"}
    PROVE  RootsOK(Resume, inst) /\ Resume \in Seq(FrameSet)
<1>1. FrameOK(Top, inst) /\ Tail(stack) \in Seq(FrameSet)
  BY TopFits
<1>2. Next1 = Going2(Top) /\ Top \in FrameSet /\ Top.pc \in Pc
  BY <1>1 DEF Next1, Going2, FrameOK, FrameSet, Pc
<1>3. Same(Top, Next1) /\ Next1.pc = Top.pc
  BY <1>2, GoingFields
<1>4. Moves(Top, Next1) /\ Top.proc # "trial" /\ Top.pc # "enter"
  BY <1>1, <1>3 DEF Moves, FrameOK, Made
<1>5. RootsOK(<<Next1>> \o Tail(stack), inst) /\ <<Next1>> \o Tail(stack) \in Seq(FrameSet)
  BY <1>4, RootContinue
<1>6. Fresh(RunDeferred(2), inst) /\ RunDeferred(2).proc # "instance"
  BY DeferredFresh DEF RunDeferred, Frame
<1>7. RunDeferred(2) \in FrameSet /\ RootOK(RunDeferred(2), inst) /\ Next1 \in FrameSet
  BY <1>3, <1>6, RootFresh DEF Fresh, FrameOK, Same
<1>8. /\ RootsOK(<<RunDeferred(2)>> \o (<<Next1>> \o Tail(stack)), inst)
      /\ <<RunDeferred(2)>> \o (<<Next1>> \o Tail(stack)) \in Seq(FrameSet)
  BY <1>5, <1>7, RootPush, PushSeq
<1>9. (<<RunDeferred(2)>> \o <<Next1>>) \o Tail(stack) = <<RunDeferred(2)>> \o (<<Next1>> \o Tail(stack))
  BY <1>1, <1>7, TwoCalls
<1>10. <<>> \o <<Next1>> = <<Next1>>
  BY <1>7
<1>11. CASE Top.proc = "module" /\ Top.pass = 3
  BY <1>8, <1>9, <1>11 DEF Resume
<1>12. CASE ~(Top.proc = "module" /\ Top.pass = 3)
  BY <1>5, <1>10, <1>12 DEF Resume
<1> QED BY <1>11, <1>12

\* The items of a program without is(... id) do not declare aliases.
LEMMA ItemNoAlias ==
    ASSUME TypeInv, HasItem, NoAlias
    PROVE  Item.mode # "alias"
<1>1. Top.pc = "members" /\ FrameOK(Top, inst) /\ stack # <<>> /\ status = "running"
      /\ Top.proc \in {"module", "symbol", "instance", "pass"}
  BY ItemTypes
<1>2. Top.i \in Nat \ {0} /\ Top.pass \in 1..3 /\ Top.i <= Len(Items(Top))
  BY <1>1 DEF FrameOK, FrameSet, HasItem
<1>3. program \in [Mod \cup Template \cup Symbol -> [1..3 -> Seq(ItemType)]]
  BY ProgramsAssumption DEF TypeInv, Types
<1>4. PICK x \in DOMAIN program : Body(Top) = program[x]
  <2>1. CASE Top.proc \in {"instance", "pass"}
    <3>1. Top.of \in 1..Len(inst)
      BY <1>1, <2>1 DEF FrameOK, Made
    <3>2. inst[Top.of].key \in Template
      BY <3>1, InstTypes DEF TypeInv, Types
    <3> QED BY <1>3, <2>1, <3>2 DEF Body
  <2>2. CASE Top.proc \in {"module", "symbol"}
    <3>1. Top.of \in Mod \cup Symbol
      BY <1>1, <2>2 DEF FrameOK
    <3> QED BY <1>3, <2>2, <3>1 DEF Body
  <2> QED BY <1>1, <2>1, <2>2
<1>5. Items(Top) = program[x][Top.pass] /\ Items(Top) \in Seq(ItemType)
  BY <1>2, <1>3, <1>4 DEF Items
<1>6. Top.i \in DOMAIN program[x][Top.pass]
  BY <1>2, <1>5, LenProperties
<1>7. Item \in ItemsOf(x)
  BY <1>2, <1>5, <1>6 DEF Item, ItemsOf
<1> QED BY <1>7 DEF NoAlias

\* The use of an item in the output is made for an instance in the output.
LEMMA RootUse ==
    ASSUME TypeInv, HasItem, NoAlias, RootsOK(stack, inst), ItemUse
    PROVE  RootsOK(stack', inst)
<1>1. /\ status = "running" /\ stack # <<>> /\ Top.pc = "members" /\ FrameOK(Top, inst)
      /\ Item \in ItemType
  BY ItemTypes
<1>2. RootsOK(Resume, inst) /\ Resume \in Seq(FrameSet) /\ RootOK(Top, inst)
  BY <1>1, RootResume, RootTop
<1>3. Item.of \in Template /\ Item.mode \in Mode /\ "plain" \in Mode /\ Item.mode # "alias"
  BY <1>1, ItemNoAlias DEF ItemUse, ItemType, Mode
<1>4. ASSUME NEW mode \in Mode
      PROVE  RootOK(Instantiate(Item.of, mode), inst) /\ Instantiate(Item.of, mode) \in FrameSet
  <2> DEFINE f == Instantiate(Item.of, mode)
  <2>1. /\ Fresh(f, inst) /\ f.tinst = (IF Detached(mode) THEN 0 ELSE Enclosing(Top))
        /\ f.root = (~Detached(mode) /\ Top.root) /\ f.proc = "instance" /\ f.pc = "enter"
    BY <1>3, UseFresh
  <2> HIDE DEF f
  <2>2. ASSUME f.root, f.tinst # 0
        PROVE  inst[f.tinst].root
    <3>1. Top.root /\ Enclosing(Top) # 0 /\ f.tinst = Enclosing(Top)
      BY <2>1, <2>2
    <3>2. Top.proc \in {"instance", "pass"} /\ Enclosing(Top) = Top.of
      BY <3>1 DEF Enclosing
    <3> QED BY <1>1, <1>2, <3>1, <3>2 DEF RootOK, Made
  <2>3. f \in FrameSet
    BY <2>1 DEF Fresh, FrameOK
  <2> QED BY <2>1, <2>2, <2>3 DEF RootOK, Made, f
<1>5. CASE Item.mode = "plain"
  <2>1. stack' = <<Instantiate(Item.of, "plain")>> \o Resume
    BY <1>5 DEF ItemUse
  <2> QED BY <1>2, <1>3, <1>4, <2>1, RootPush
<1>6. CASE Item.mode # "plain"
  <2> DEFINE f == Instantiate(Item.of, Item.mode)
             t == [Frame("trial", 0, 0) EXCEPT !.mode = Item.mode, !.tinst = Enclosing(Top),
                      !.root = Top.root, !.gaggedErrors = gaggedErrors, !.pc = "end"]
  <2>1. stack' = <<f, t>> \o Resume
    BY <1>6 DEF ItemUse
  <2>2. t \in FrameSet /\ t.proc = "trial" /\ t.mode = Item.mode
    <3> DEFINE h == Frame("trial", 0, 0)
               a == Item.mode
               n == Enclosing(Top)
               r == Top.root
               e == gaggedErrors
    <3>1. t = TrialFrame(h, a, n, r, e)
      BY DEF TrialFrame
    <3>2. NewFrame(h, "trial", 0, 0)
      BY FrameFields
    <3>3. n \in Nat /\ r \in BOOLEAN
      <4>1. n \in 0..Len(inst) /\ r \in BOOLEAN
        BY <1>3, UseFresh
      <4>2. Len(inst) \in Nat
        BY InstTypes DEF TypeInv, Types
      <4> HIDE DEF n
      <4> QED BY <4>1, <4>2
    <3>4. a \in Mode /\ e \in Nat
      BY <1>3 DEF TypeInv, Types, CountsOK
    <3>5. h \in FrameSet /\ h.proc = "trial"
      BY <3>2 DEF NewFrame
    <3> HIDE DEF h, a, n, r, e, t
    <3>6. /\ TrialFrame(h, a, n, r, e) \in FrameSet /\ TrialFrame(h, a, n, r, e).proc = h.proc
          /\ TrialFrame(h, a, n, r, e).mode = a
      BY <3>3, <3>4, <3>5, TrialFrameFields
    <3> QED BY <3>1, <3>5, <3>6 DEF a
  <2>3. RootOK(f, inst) /\ f \in FrameSet
    BY <1>3, <1>4
  <2> HIDE DEF f, t
  <2>4. RootOK(t, inst)
    BY <1>3, <2>2 DEF RootOK, Made
  <2>5. RootsOK(<<t>> \o Resume, inst) /\ <<t>> \o Resume \in Seq(FrameSet)
    BY <1>2, <2>2, <2>4, RootPush, PushSeq
  <2>6. RootsOK(<<f>> \o (<<t>> \o Resume), inst)
    BY <2>3, <2>5, RootPush
  <2>7. <<f, t>> \o Resume = <<f>> \o (<<t>> \o Resume)
    BY <1>2, <2>2, <2>3, TwoCalls
  <2> QED BY <2>1, <2>6, <2>7
<1> QED BY <1>5, <1>6

LEMMA RootItems ==
    ASSUME TypeInv, NoAlias, RootsOK(stack, inst), ItemError \/ ItemSymbol \/ SymbolDone \/ ItemUse
    PROVE  RootsOK(stack', inst)
<1>1. CASE ItemError \/ ItemSymbol
  <2>1. status = "running" /\ stack # <<>> /\ Top.pc = "members" /\ Item \in ItemType
    BY <1>1, ItemTypes DEF ItemError, ItemSymbol
  <2>2. RootsOK(Resume, inst) /\ Resume \in Seq(FrameSet)
    BY <2>1, RootResume
  <2>3. CASE stack' = Resume
    BY <2>2, <2>3
  <2>4. CASE stack' # Resume
    <3> DEFINE f == [Frame("symbol", Item.of, 1) EXCEPT !.pc = "members", !.gag = gag]
    <3>1. stack' = <<f>> \o Resume /\ Item.of \in Symbol
      BY <1>1, <2>1, <2>4 DEF ItemError, ItemSymbol, ItemType
    <3>2. f \in FrameSet
      BY <3>1, SymbolFits DEF TypeInv, Types, CountsOK
    <3>3. f.proc = "symbol"
      BY DEF Frame
    <3> HIDE DEF f
    <3>4. RootOK(f, inst)
      BY <3>3 DEF RootOK, Made
    <3> QED BY <2>2, <3>1, <3>2, <3>4, RootPush
  <2> QED BY <2>3, <2>4
<1>2. CASE SymbolDone
  <2>1. status = "running" /\ stack # <<>> /\ stack' = Tail(stack)
    BY <1>2 DEF SymbolDone, AllDone, At, Running, Return
  <2> QED BY <2>1, RootTop
<1>3. CASE ItemUse
  BY <1>3, RootUse DEF ItemUse
<1> QED BY <1>1, <1>2, <1>3

LEMMA RootInstances ==
    ASSUME TypeInv, RootsOK(stack, inst),
           InstanceExpanded \/ InstanceInitialized \/ InstanceCollected \/ InstanceEnlist
    PROVE  RootsOK(stack', inst)
<1>1. status = "running" /\ stack # <<>> /\ Made(Top)
  BY DEF InstanceExpanded, InstanceInitialized, InstanceCollected, InstanceEnlist, AllDone, At,
         Running, Made
<1>2. /\ Top.of \in 1..Len(inst) /\ Len(inst) \in Nat /\ Top.proc = "instance"
      /\ Moves(Top, Goto("after")) /\ Moves(Top, Goto("initialized")) /\ Moves(Top, Goto("enlist"))
      /\ Moves(Top, [Top EXCEPT !.pc = "collected", !.i = 1])
      /\ inst[Top.of] \in InstSet(Len(inst))
  BY <1>1, MadeGoes DEF Made
<1>3. \A h : Moves(Top, h) => RootsOK(<<h>> \o Tail(stack), inst)
  BY <1>1, <1>2, RootContinue
<1>4. ASSUME NEW n \in 1..Len(inst), NEW p \in {2, 3}, NEW h, Moves(Top, h)
      PROVE  RootsOK(<<Pass(n, p), h>> \o Tail(stack), inst)
  <2>1. Fresh(Pass(n, p), inst) /\ Pass(n, p).proc # "instance"
    BY <1>2, PassFresh DEF Pass, Frame
  <2> QED BY <1>1, <1>2, <1>4, <2>1, RootCall
<1>5. CASE InstanceExpanded
  BY <1>2, <1>3, <1>4, <1>5 DEF InstanceExpanded, Continue, Call
<1>6. CASE InstanceInitialized
  <2>1. \/ Continue(Goto("after")) \/ Continue(Goto("enlist"))
        \/ Call([Top EXCEPT !.pc = "collected", !.i = 1], Pass(Top.of, 3))
        \/ Call(Goto("enlist"), Pass(Top.of, 3))
    BY <1>6 DEF InstanceInitialized
  <2>2. CASE Continue(Goto("after")) \/ Continue(Goto("enlist"))
    BY <1>2, <1>3, <2>2 DEF Continue
  <2>3. CASE Call([Top EXCEPT !.pc = "collected", !.i = 1], Pass(Top.of, 3))
    BY <1>2, <1>4, <2>3 DEF Call
  <2>4. CASE Call(Goto("enlist"), Pass(Top.of, 3))
    BY <1>2, <1>4, <2>4 DEF Call
  <2> QED BY <2>1, <2>2, <2>3, <2>4
<1>7. CASE InstanceCollected
  <2> DEFINE list == inst[Top.of].deferred
  <2>1. CASE ~(Top.i <= Len(list))
    BY <1>2, <1>3, <1>7, <2>1 DEF InstanceCollected, Continue
  <2>2. CASE Top.i <= Len(list)
    <3>1. list \in Seq(1..Len(inst))
      <4> DEFINE r == inst[Top.of]
      <4>1. r \in InstSet(Len(inst))
        BY <1>2
      <4> HIDE DEF r
      <4>2. r.deferred \in Seq(1..Len(inst))
        BY <4>1 DEF InstSet
      <4> QED BY <4>2 DEF r
    <3>2. Top.i \in Nat \ {0}
      BY <1>1, TopFits DEF FrameOK, FrameSet
    <3>3. list[Top.i] \in 1..Len(inst)
      <4>1. Top.i \in 1..Len(list)
        BY <2>2, <3>1, <3>2, LenProperties
      <4> QED BY <3>1, <4>1, ElementOfSeq
    <3>4. stack' = <<Pass(list[Top.i], 3), Next1>> \o Tail(stack)
      BY <1>7, <2>2 DEF InstanceCollected, Call
    <3>5. Moves(Top, Next1)
      BY <1>1, <1>7, MadeGoes DEF InstanceCollected, At
    <3> HIDE DEF list
    <3> QED BY <1>4, <3>3, <3>4, <3>5
  <2> QED BY <2>1, <2>2
<1>8. CASE InstanceEnlist
  BY <1>2, <1>3, <1>8 DEF InstanceEnlist, Continue
<1> QED BY <1>5, <1>6, <1>7, <1>8

LEMMA RootPasses ==
    ASSUME TypeInv, RootsOK(stack, inst), PassEnter \/ PassFailed \/ PassEnd
    PROVE  RootsOK(stack', inst)
<1>1. status = "running" /\ stack # <<>> /\ Top.proc = "pass"
  BY DEF PassEnter, PassFailed, PassEnd, AllDone, At, Running
<1>2. /\ RootsOK(Tail(stack), inst) /\ RootOK(Top, inst) /\ Tail(stack) \in Seq(FrameSet)
      /\ FrameOK(Top, inst) /\ Top \in FrameSet
  BY <1>1, RootTop, TopFits DEF FrameOK
<1>3. CASE stack' = Tail(stack)
  BY <1>2, <1>3
<1>4. CASE PassEnter /\ stack' # Tail(stack)
  <2> DEFINE n == Top.of
             g == IF inst[n].gagged /\ gag = 0 THEN 1 ELSE 0
             r == inst[n].root
             u == Top.pass = 3
             e == errors
             c == gaggedErrors
             h == Top
             f == PassFrame(h, r, u, e, c, g)
  <2>1. stack' = <<f>> \o Tail(stack)
    BY <1>4 DEF PassEnter, Continue, PassFrame, Return
  <2>2. r \in BOOLEAN /\ u \in BOOLEAN /\ e \in Nat /\ c \in Nat /\ g \in Nat /\ h \in FrameSet
        /\ h.proc = "pass" /\ h.of = n
    <3> DEFINE q == inst[n]
    <3>1. q \in InstSet(Len(inst))
      BY <1>1, <1>2, InstTypes DEF FrameOK, TypeInv, Types
    <3> HIDE DEF q
    <3>2. q.root \in BOOLEAN
      BY <3>1 DEF InstSet
    <3> QED BY <1>1, <1>2, <3>2 DEF q, TypeInv, Types, CountsOK
  <2> HIDE DEF g, r, u, e, c, h
  <2>3. /\ f \in FrameSet /\ f.proc = h.proc /\ f.of = h.of /\ f.root = r
    BY <2>2, PassFrameFields
  <2> HIDE DEF f
  <2>4. RootOK(f, inst)
    BY <2>2, <2>3 DEF RootOK, Made, r
  <2> QED BY <1>2, <2>1, <2>3, <2>4, RootPush
<1>5. CASE PassFailed
  <2>1. Top.pc = "members" /\ stack' = <<Goto("end")>> \o Tail(stack)
    BY <1>5 DEF PassFailed, AllDone, At, Continue
  <2>2. Moves(Top, Goto("end"))
    <3>1. Goto("end") = Going(Top, "end") /\ "end" \in Pc
      BY DEF Goto, Going, Pc
    <3>2. Same(Top, Going(Top, "end")) /\ Going(Top, "end").pc = "end"
      BY <1>2, <3>1, GoingFields
    <3> QED BY <1>1, <3>1, <3>2 DEF Moves
  <2> QED BY <1>1, <2>1, <2>2, RootContinue
<1> QED BY <1>3, <1>4, <1>5 DEF PassEnd, Return

LEMMA RootModules ==
    ASSUME TypeInv, RootsOK(stack, inst), ModuleEnter \/ ModuleInstances \/ ModuleInstance
    PROVE  RootsOK(stack', inst)
<1>1. status = "running" /\ stack # <<>> /\ Top.proc = "module"
  BY DEF ModuleEnter, ModuleInstances, ModuleInstance, AllDone, At, Running
<1>2. /\ RootsOK(Tail(stack), inst) /\ RootOK(Top, inst) /\ Tail(stack) \in Seq(FrameSet)
      /\ Top.of \in Mod /\ Top.pass \in 1..3 /\ Top \in FrameSet
  BY <1>1, RootTop, ModuleBottom
<1>3. ASSUME NEW h \in FrameSet, h.proc = "module"
      PROVE  RootsOK(<<h>> \o Tail(stack), inst)
  <2>1. RootOK(h, inst)
    BY <1>3 DEF RootOK, Made
  <2> QED BY <1>2, <2>1, RootPush
<1>4. CASE ModuleEnter
  <2>1. stack' = <<Goto("members")>> \o Tail(stack)
    BY <1>4 DEF ModuleEnter, Continue
  <2>2. Goto("members") = Going(Top, "members") /\ "members" \in Pc
    BY DEF Goto, Going, Pc
  <2>3. Same(Top, Going(Top, "members"))
    BY <1>2, <2>2, GoingFields
  <2> QED BY <1>1, <1>3, <2>1, <2>2, <2>3 DEF Same
<1>5. CASE ModuleInstances
  <2> DEFINE h == [Top EXCEPT !.pc = "instances", !.i = 1]
  <2>1. stack' = <<h>> \o Tail(stack)
    BY <1>5 DEF ModuleInstances, Continue
  <2>2. h = Going1(Top, "instances") /\ "instances" \in Pc
    BY DEF Going1, Pc
  <2>3. Same(Top, Going1(Top, "instances"))
    BY <1>2, <2>2, GoingFields
  <2> HIDE DEF h
  <2> QED BY <1>1, <1>3, <2>1, <2>2, <2>3 DEF Same
<1>6. CASE ModuleInstance
  <2>1. CASE stack' = Tail(stack)
    BY <1>2, <2>1
  <2>2. CASE stack' # Tail(stack)
    <3> DEFINE list == members[Top.of]
               visit == Pass(list[Top.i], Top.pass)
    <3>1. /\ stack' = <<visit>> \o Resume /\ Top.pass > 1 /\ Top.i <= Len(list)
          /\ Top.pc = "instances"
      BY <1>6, <2>2 DEF ModuleInstance, Return, At
    <3>2. list \in Seq(1..Len(inst)) /\ Len(inst) \in Nat
      BY <1>2, InstTypes DEF TypeInv, Types, ListsOK
    <3>3. Top.i \in 1..Len(list) /\ Top.pass \in {2, 3}
      <4>1. Top.i \in Nat \ {0}
        BY <1>2 DEF FrameSet
      <4> QED BY <1>2, <3>1, <3>2, <4>1, LenProperties
    <3> HIDE DEF list
    <3>4. list[Top.i] \in 1..Len(inst)
      BY <3>2, <3>3, ElementOfSeq
    <3>5. Fresh(visit, inst) /\ visit.proc # "instance"
      BY <3>2, <3>3, <3>4, PassFresh DEF Pass, Frame
    <3> HIDE DEF visit
    <3>6. visit \in FrameSet /\ RootOK(visit, inst)
      BY <3>5, RootFresh DEF Fresh, FrameOK
    <3> QED BY <1>1, <3>1, <3>6, RootResume, RootPush
  <2> QED BY <2>1, <2>2
<1> QED BY <1>4, <1>5, <1>6

LEMMA RootDeferred ==
    ASSUME TypeInv, RootsOK(stack, inst), DeferredEnter \/ DeferredNext
    PROVE  RootsOK(stack', inst)
<1>1. status = "running" /\ stack # <<>> /\ Top.proc = "deferred"
  BY DEF DeferredEnter, DeferredNext, At, Running
<1>2. /\ Moves(Top, Goto("next")) /\ (Top.pc = "next" => Moves(Top, Next1))
      /\ Top.pass \in {2, 3} /\ Top.i \in Nat \ {0}
  BY <1>1, DeferredGoes
<1>3. CASE DeferredEnter
  <2>1. \/ stack' = <<Goto("next")>> \o Tail(stack)
        \/ stack' = <<RunDeferred(2), Goto("next")>> \o Tail(stack)
    BY <1>3 DEF DeferredEnter, Continue, Call
  <2>2. Fresh(RunDeferred(2), inst) /\ RunDeferred(2).proc # "instance"
    BY DeferredFresh DEF RunDeferred, Frame
  <2> QED BY <1>1, <1>2, <2>1, <2>2, RootContinue, RootCall
<1>4. CASE DeferredNext
  <2>1. CASE stack' = Tail(stack)
    BY <1>1, <2>1, RootTop
  <2>2. CASE stack' # Tail(stack)
    <3> DEFINE list == IF Top.pass = 2 THEN deferred2 ELSE deferred3
    <3>1. /\ stack' = <<Pass(list[Top.i], Top.pass), Next1>> \o Tail(stack)
          /\ ~(Top.i > Len(list)) /\ Top.pc = "next"
      BY <1>4, <2>2 DEF DeferredNext, Call, Return, At
    <3>2. list \in Seq(1..Len(inst)) /\ Len(inst) \in Nat
      BY InstTypes DEF TypeInv, Types, ListsOK
    <3>3. Top.i \in 1..Len(list)
      BY <1>2, <3>1, <3>2, LenProperties
    <3> HIDE DEF list
    <3>4. list[Top.i] \in 1..Len(inst)
      BY <3>2, <3>3, ElementOfSeq
    <3>5. Fresh(Pass(list[Top.i], Top.pass), inst) /\ Pass(list[Top.i], Top.pass).proc # "instance"
      BY <1>2, <3>2, <3>4, PassFresh DEF Pass, Frame
    <3> QED BY <1>1, <1>2, <3>1, <3>5, RootCall
  <2> QED BY <2>1, <2>2
<1> QED BY <1>3, <1>4

LEMMA RootDriver ==
    ASSUME TypeInv, RootsOK(stack, inst), status = "running", CallNext \/ CheckErrors
    PROVE  RootsOK(stack', inst)
<1>1. CASE CheckErrors
  BY <1>1 DEF CheckErrors
<1>2. CASE CallNext
  <2>1. todo # <<>> /\ stack' = <<Head(todo)>>
    BY <1>2 DEF CallNext
  <2> DEFINE f == Head(todo)
  <2>2. f \in TodoSet
    BY <2>1, TodoNext DEF TypeInv
  <2>3. f.proc \in {"check", "deferred", "module"}
    BY <2>2 DEF TodoSet, Check, RunDeferred, ModulePass, Frame
  <2>4. RootOK(f, inst)
    BY <2>3 DEF RootOK, Made
  <2> HIDE DEF f
  <2>5. stack'[1] = f /\ Len(stack') = 1 /\ \A k \in 1..1 : k = 1
    BY <2>1 DEF f
  <2> QED BY <2>4, <2>5 DEF RootsOK
<1> QED BY <1>1, <1>2

\* The chains and the roots are as before, and the frames know what they knew.
LEMMA RootQuiet ==
    ASSUME TypeInv, RootInv, TypeInv', UNCHANGED program, DOMAIN inst' = DOMAIN inst,
           \A n \in DOMAIN inst : inst'[n].root = inst[n].root /\ inst'[n].tinst = inst[n].tinst,
           NoAlias /\ status' = "running" /\ RootsOK(stack, inst) /\ status = "running"
             => RootsOK(stack', inst),
           status' = "running" => status = "running"
    PROVE  RootInv'
<1>1. NoAlias' <=> NoAlias
  BY DEF NoAlias, ItemsOf
<1> SUFFICES ASSUME NoAlias
             PROVE  (RootsClosed(inst) /\ AllLead(inst) /\ (status = "running" => RootsOK(stack, inst)))'
  BY <1>1 DEF RootInv
<1>2. RootsClosed(inst) /\ AllLead(inst) /\ (status = "running" => RootsOK(stack, inst))
  BY DEF RootInv
<1>3. /\ DOMAIN inst' = DOMAIN inst
      /\ \A n \in DOMAIN inst : inst'[n].root = inst[n].root /\ inst'[n].tinst = inst[n].tinst
  OBVIOUS
<1>4. /\ Len(inst) \in Nat /\ DOMAIN inst = 1..Len(inst)
      /\ Len(inst') \in Nat /\ DOMAIN inst' = 1..Len(inst')
      /\ \A n \in DOMAIN inst : inst[n].tinst \in 0..Len(inst)
  <2>1. \A n \in DOMAIN inst : inst[n] \in InstSet(Len(inst))
    BY InstTypes DEF TypeInv, Types
  <2>2. Len(inst') \in Nat /\ DOMAIN inst' = 1..Len(inst')
    <3>1. inst' \in Seq(InstSet(Len(inst')))
      BY DEF TypeInv, Types, InstOK
    <3> QED BY <3>1, LenProperties
  <2> QED BY <2>1, <2>2, InstTypes DEF TypeInv, Types, InstSet
<1>5. Len(inst') = Len(inst)
  BY <1>3, <1>4
<1>6. RootsClosed(inst')
  BY <1>2, <1>3, <1>4 DEF RootsClosed
<1>7. AllLead(inst')
  <2> SUFFICES ASSUME NEW n \in DOMAIN inst PROVE Leads(n, inst')
    BY <1>3 DEF AllLead
  <2>1. PICK S \in SUBSET DOMAIN inst : ClosedIn(S, inst) /\ n \notin S /\ inst[n].tinst \in S \cup {0}
    BY <1>2 DEF AllLead, Leads
  <2>2. ClosedIn(S, inst') /\ inst'[n].tinst \in S \cup {0}
    BY <1>3, <2>1 DEF ClosedIn
  <2> QED BY <1>3, <2>1, <2>2 DEF Leads
<1>8. ASSUME status' = "running"
      PROVE  RootsOK(stack', inst')
  <2>1. RootsOK(stack', inst)
    BY <1>2, <1>8
  <2>2. \A k \in 1..Len(stack') : FrameOK(stack'[k], inst')
    BY <1>8 DEF TypeInv, Stacked, StackOK
  <2> QED BY <1>3, <1>4, <1>5, <2>1, <2>2, RootMore
<1> QED BY <1>6, <1>7, <1>8

LEMMA RootQuietSteps ==
    ASSUME TypeInv, RootInv, TypeInv', Quiet
    PROVE  RootInv'
<1>1. UNCHANGED <<members, table>> /\ Kept(inst')
  BY QuietKeeps
<1>2. UNCHANGED program /\ (status' = "running" => status = "running")
  BY DEF Quiet, ItemError, ItemSymbol, SymbolDone, ItemUse, InstanceExpanded, InstanceInitialized,
         InstanceCollected, InstanceEnlist, PassEnter, PassFailed, PassEnd, ModuleEnter,
         ModuleInstances, ModuleInstance, DeferredEnter, DeferredNext, CallNext, CheckErrors,
         RecursiveExpansion
<1>3. ASSUME NoAlias, status' = "running", RootsOK(stack, inst), status = "running"
      PROVE  RootsOK(stack', inst)
  <2>1. CASE ItemError \/ ItemSymbol \/ SymbolDone \/ ItemUse
    BY <1>3, <2>1, RootItems
  <2>2. CASE InstanceExpanded \/ InstanceInitialized \/ InstanceCollected \/ InstanceEnlist
    BY <1>3, <2>2, RootInstances
  <2>3. CASE PassEnter \/ PassFailed \/ PassEnd
    BY <1>3, <2>3, RootPasses
  <2>4. CASE ModuleEnter \/ ModuleInstances \/ ModuleInstance
    BY <1>3, <2>4, RootModules
  <2>5. CASE DeferredEnter \/ DeferredNext
    BY <1>3, <2>5, RootDeferred
  <2>6. CASE CallNext \/ CheckErrors
    BY <1>3, <2>6, RootDriver
  <2>7. ~RecursiveExpansion
    BY <1>3 DEF RecursiveExpansion
  <2> QED BY <2>1, <2>2, <2>3, <2>4, <2>5, <2>6, <2>7 DEF Quiet
<1> QED BY <1>1, <1>2, <1>3, RootQuiet DEF Kept

\* An instance that is finished or a trial that ends: a return, and no instance
\* becomes a root.
LEMMA RootReturns ==
    ASSUME TypeInv, RootInv, TypeInv', TrialEnd \/ InstanceGood \/ InstanceBad
    PROVE  RootInv'
<1>1. /\ status = "running" /\ stack # <<>> /\ stack' = Tail(stack)
      /\ UNCHANGED <<program, status>>
  BY DEF TrialEnd, InstanceGood, InstanceBad, At, Running, Return
<1>2. RootsOK(stack, inst) => RootsOK(stack', inst)
  BY <1>1, RootTop
<1> SUFFICES ASSUME NoAlias
             PROVE  /\ DOMAIN inst' = DOMAIN inst
                    /\ \A n \in DOMAIN inst : /\ inst'[n].root = inst[n].root
                                              /\ inst'[n].tinst = inst[n].tinst
  <2>1. CASE NoAlias
    BY <1>1, <1>2, <2>1, RootQuiet
  <2>2. CASE ~NoAlias
    BY <1>1, <2>2 DEF RootInv, NoAlias, ItemsOf
  <2> QED BY <2>1, <2>2
<1>3. CASE TrialEnd
  <2>1. Top.proc = "trial" /\ RootOK(Top, inst)
    BY <1>1, <1>3, RootTop DEF TrialEnd, At, RootInv
  <2>2. Top.mode # "alias"
    BY <2>1 DEF RootOK
  <2> QED BY <1>3, <2>2 DEF TrialEnd, Leak
<1>4. CASE InstanceGood
  BY <1>4 DEF InstanceGood
<1>5. CASE InstanceBad
  <2> DEFINE n == Top.of
             F == Failed(n)
             r == [F[n] EXCEPT !.live = FALSE, !.semanticRun = init]
  <2>1. Kept(F)
    BY KeptFailed DEF TypeInv
  <2>2. CASE ~inst[n].gagged
    BY <1>5, <2>1, <2>2 DEF InstanceBad, Kept
  <2>3. CASE inst[n].gagged
    <3>1. inst' = [F EXCEPT ![n] = r]
      BY <1>5, <2>3 DEF InstanceBad
    <3>2. F = [k \in DOMAIN inst |-> F[k]]
      BY DEF Failed
    <3>3. n \in DOMAIN inst /\ inst[n] \in InstSet(Len(inst))
      <4>1. Made(Top)
        BY <1>5 DEF InstanceBad, At, Made
      <4>2. n \in 1..Len(inst)
        BY <1>1, <4>1, MadeGoes
      <4> QED BY <4>2, InstTypes DEF TypeInv, Types
    <3>4. F[n] = [inst[n] EXCEPT !.errors = TRUE]
      BY <3>3 DEF Failed
    <3>5. r.root = inst[n].root /\ r.tinst = inst[n].tinst
      <4> DEFINE q == inst[n]
      <4>1. q \in InstSet(Len(inst))
        BY <3>3
      <4> HIDE DEF q
      <4> DEFINE p == [q EXCEPT !.errors = TRUE]
      <4>2. p \in InstSet(Len(inst)) /\ p.root = q.root /\ p.tinst = q.tinst
        BY <4>1 DEF InstSet
      <4> HIDE DEF p
      <4>3. /\ [p EXCEPT !.live = FALSE, !.semanticRun = init].root = p.root
            /\ [p EXCEPT !.live = FALSE, !.semanticRun = init].tinst = p.tinst
        BY <4>2 DEF InstSet
      <4>4. F[n] = p
        BY <3>4 DEF p, q
      <4> QED BY <4>2, <4>3, <4>4 DEF q
    <3> HIDE DEF F, r
    <3>6. DOMAIN inst' = DOMAIN inst /\ \A k \in DOMAIN inst : inst'[k] = IF k = n THEN r ELSE F[k]
      BY <3>1, <3>2, <3>3
    <3> QED BY <2>1, <3>5, <3>6 DEF Kept
  <2> QED BY <2>2, <2>3
<1> QED BY <1>3, <1>4, <1>5

\* The types of the roots and the chains.
LEMMA RootTypes ==
    ASSUME TypeInv
    PROVE  /\ Len(inst) \in Nat /\ DOMAIN inst = 1..Len(inst)
           /\ \A n \in DOMAIN inst : /\ inst[n].tinst \in {0} \cup DOMAIN inst
                                     /\ inst[n].root \in BOOLEAN
<1>1. /\ Len(inst) \in Nat /\ DOMAIN inst = 1..Len(inst)
      /\ \A n \in DOMAIN inst : inst[n] \in InstSet(Len(inst))
  BY InstTypes DEF TypeInv, Types
<1>2. ASSUME NEW r \in InstSet(Len(inst)) PROVE r.tinst \in 0..Len(inst) /\ r.root \in BOOLEAN
  BY DEF InstSet
<1> QED BY <1>1, <1>2

\* An instance that is no root gets the place of a use in the output: its chain
\* goes through roots from then on, and so it is on none of theirs.
LEMMA SwapLeads ==
    ASSUME NEW I, NEW J, NEW e \in DOMAIN I, NEW t, DOMAIN J = DOMAIN I, J[e].tinst = t,
           ~I[e].root, t \in DOMAIN I => I[t].root, t \in {0} \cup DOMAIN I,
           \A n \in DOMAIN I : I[n].tinst \in {0} \cup DOMAIN I,
           \A n \in DOMAIN I : n # e => J[n].tinst = I[n].tinst,
           RootsClosed(I), AllLead(I)
    PROVE  AllLead(J)
<1> DEFINE R == Roots(I)
<1>1. R \subseteq DOMAIN I /\ e \notin R /\ t \in R \cup {0}
  BY DEF Roots
<1>2. ClosedIn(R, I) /\ ClosedIn(R, J)
  BY <1>1 DEF RootsClosed, ClosedIn, Roots
<1> HIDE DEF R
<1> SUFFICES ASSUME NEW n \in DOMAIN I PROVE Leads(n, J)
  BY DEF AllLead
<1>3. CASE n = e
  BY <1>1, <1>2, <1>3 DEF Leads
<1>4. CASE n # e
  <2>1. PICK S \in SUBSET DOMAIN I : ClosedIn(S, I) /\ n \notin S /\ I[n].tinst \in S \cup {0}
    BY DEF AllLead, Leads
  <2>2. CASE n \in R
    <3>1. J[n].tinst \in (S \cap R) \cup {0}
      BY <1>2, <1>4, <2>1, <2>2 DEF ClosedIn
    <3>2. ClosedIn(S \cap R, J)
      <4> SUFFICES ASSUME NEW k \in S \cap R PROVE J[k].tinst \in (S \cap R) \cup {0}
        BY DEF ClosedIn
      <4>1. k # e /\ J[k].tinst = I[k].tinst
        BY <1>1, <2>1
      <4> QED BY <1>2, <2>1, <4>1 DEF ClosedIn
    <3> QED BY <2>1, <3>1, <3>2 DEF Leads
  <2>3. CASE n \notin R
    <3>1. ClosedIn(S \cup R, J)
      <4> SUFFICES ASSUME NEW k \in S \cup R PROVE J[k].tinst \in (S \cup R) \cup {0}
        BY DEF ClosedIn
      <4>1. CASE k = e
        BY <1>1, <4>1
      <4>2. CASE k # e
        <5>1. k \in DOMAIN I /\ J[k].tinst = I[k].tinst
          BY <1>1, <2>1, <4>2
        <5> QED BY <1>2, <2>1, <5>1 DEF ClosedIn
      <4> QED BY <4>1, <4>2
    <3>2. J[n].tinst \in (S \cup R) \cup {0} /\ n \notin S \cup R
      BY <1>4, <2>1, <2>3
    <3>3. S \cup R \in SUBSET DOMAIN J
      BY <1>1, <2>1
    <3> QED BY <3>1, <3>2, <3>3 DEF Leads
  <2> QED BY <2>2, <2>3
<1> QED BY <1>3, <1>4

LEMMA RootMatch ==
    ASSUME TypeInv, RootInv, TypeInv', Match
    PROVE  RootInv'
<1>1. /\ status = "running" /\ stack # <<>> /\ Top.proc = "instance" /\ Top.pc = "enter"
      /\ stack' = Tail(stack)
  BY MatchDoes
<1>2. PICK e : MatchStep(e)
  BY MatchDoes
<1>3. UNCHANGED <<program, status>>
  BY DEF Match
<1> DEFINE t == Top.tinst
<1>4. /\ DOMAIN inst' = DOMAIN inst /\ e \in DOMAIN inst
      /\ \A n \in DOMAIN inst : n # e => inst'[n] = inst[n]
      /\ inst'[e].root = (inst[e].root \/ Top.root)
      /\ inst'[e].tinst = (IF Swaps(e) THEN t ELSE inst[e].tinst)
  BY <1>2, MatchKeeps, RootTypes DEF MatchStep
<1>5. /\ t \in {0} \cup DOMAIN inst /\ Top.root \in BOOLEAN
      /\ \A n \in DOMAIN inst : /\ inst[n].tinst \in {0} \cup DOMAIN inst
                                /\ inst[n].root \in BOOLEAN
      /\ DOMAIN inst = 1..Len(inst) /\ Len(inst) \in Nat
  BY <1>1, TopFits, RootTypes DEF FrameOK, FrameSet
<1> HIDE DEF t
<1>6. NoAlias' <=> NoAlias
  BY <1>3 DEF NoAlias, ItemsOf
<1> SUFFICES ASSUME NoAlias
             PROVE  (RootsClosed(inst) /\ AllLead(inst) /\ (status = "running" => RootsOK(stack, inst)))'
  BY <1>6 DEF RootInv
<1>7. RootsClosed(inst) /\ AllLead(inst) /\ RootsOK(stack, inst)
  BY <1>1 DEF RootInv
<1>8. RootsOK(Tail(stack), inst) /\ RootOK(Top, inst)
  BY <1>1, <1>7, RootTop
<1>9. Top.root /\ t # 0 => inst[t].root
  BY <1>1, <1>8 DEF RootOK, t
<1>10. \A n \in DOMAIN inst : inst[n].root => inst'[n].root
  BY <1>4
<1>11. RootsClosed(inst')
  <2> SUFFICES ASSUME NEW n \in DOMAIN inst, inst'[n].root, inst'[n].tinst # 0
               PROVE  inst'[inst'[n].tinst].root
    BY <1>4 DEF RootsClosed
  <2>1. CASE n = e /\ Swaps(e)
    BY <1>4, <1>5, <1>9, <1>10, <2>1 DEF Swaps
  <2>2. CASE ~(n = e /\ Swaps(e))
    <3>1. inst'[n].tinst = inst[n].tinst /\ inst[n].root
      BY <1>4, <1>5, <2>2 DEF Swaps
    <3> QED BY <1>5, <1>7, <1>10, <3>1 DEF RootsClosed
  <2> QED BY <2>1, <2>2
<1>12. AllLead(inst')
  <2>1. CASE Swaps(e)
    <3>1. ~inst[e].root /\ inst'[e].tinst = t /\ (t \in DOMAIN inst => inst[t].root)
      BY <1>4, <1>5, <1>9, <2>1 DEF Swaps
    <3> QED BY <1>4, <1>5, <1>7, <3>1, SwapLeads
  <2>2. CASE ~Swaps(e)
    <3>1. \A n \in DOMAIN inst : inst'[n].tinst = inst[n].tinst
      BY <1>4, <2>2
    <3> SUFFICES ASSUME NEW n \in DOMAIN inst PROVE Leads(n, inst')
      BY <1>4 DEF AllLead
    <3>2. PICK S \in SUBSET DOMAIN inst :
            ClosedIn(S, inst) /\ n \notin S /\ inst[n].tinst \in S \cup {0}
      BY <1>7 DEF AllLead, Leads
    <3>3. ClosedIn(S, inst')
      BY <3>1, <3>2 DEF ClosedIn
    <3> QED BY <1>4, <3>1, <3>2, <3>3 DEF Leads
  <2> QED BY <2>1, <2>2
<1>13. RootsOK(stack', inst')
  <2>1. \A k \in 1..Len(stack') : FrameOK(stack'[k], inst')
    BY <1>1, <1>3 DEF TypeInv, Stacked, StackOK
  <2>2. Len(inst') = Len(inst)
    <3>1. inst' \in Seq(InstSet(Len(inst')))
      BY DEF TypeInv, Types, InstOK
    <3>2. DOMAIN inst' = 1..Len(inst') /\ Len(inst') \in Nat
      BY <3>1, LenProperties
    <3> QED BY <1>4, <1>5, <3>2
  <2> QED BY <1>1, <1>5, <1>8, <1>10, <2>1, <2>2, RootMore
<1> QED BY <1>11, <1>12, <1>13

\* A new instance is made for one there was.
LEMMA RootImplement ==
    ASSUME TypeInv, RootInv, TypeInv', Implement
    PROVE  RootInv'
<1>1. /\ status = "running" /\ stack # <<>> /\ Top.proc = "instance" /\ Top.pc = "enter"
      /\ Top \in FrameSet /\ Top.tinst \in 0..Len(inst)
  BY ImplementDoes
<1> DEFINE N == Len(inst)
           m == Home[Top.of]
           t == Top.tinst
           r == Top.root
<1>2. PICK e : ImplementStep(N + 1, e, m)
  BY ImplementDoes
<1>3. UNCHANGED <<program, status>>
  BY DEF Implement
<1>4. r \in BOOLEAN
  BY <1>1 DEF FrameSet
<1>5. /\ inst' \in Seq(InstSet(N + 1)) /\ Len(inst') = N + 1
      /\ \A n \in 1..N : inst'[n] = inst[n]
      /\ inst'[N + 1] = NewInst(Top.of, r, t)
  BY <1>1, <1>2, <1>4, ImplementInst DEF TypeInv
<1>6. inst'[N + 1].root = r /\ inst'[N + 1].tinst = t
  BY <1>5 DEF NewInst
<1>7. /\ N \in Nat /\ DOMAIN inst = 1..N
      /\ \A n \in 1..N : inst[n].tinst \in {0} \cup 1..N
  BY RootTypes
<1>8. DOMAIN inst' = 1..N + 1 /\ t \in {0} \cup 1..N
  BY <1>1, <1>5, <1>7, LenProperties
<1> HIDE DEF N, t, r
<1>9. NoAlias' <=> NoAlias
  BY <1>3 DEF NoAlias, ItemsOf
<1> SUFFICES ASSUME NoAlias
             PROVE  (RootsClosed(inst) /\ AllLead(inst) /\ (status = "running" => RootsOK(stack, inst)))'
  BY <1>9 DEF RootInv
<1>10. RootsClosed(inst) /\ AllLead(inst) /\ RootsOK(stack, inst)
  BY <1>1 DEF RootInv
<1>11. RootsOK(Tail(stack), inst) /\ RootOK(Top, inst) /\ Tail(stack) \in Seq(FrameSet)
  BY <1>1, <1>10, RootTop
<1>12. r /\ t # 0 => inst[t].root
  BY <1>1, <1>11 DEF RootOK, t, r
<1>13. RootsClosed(inst')
  <2> SUFFICES ASSUME NEW n \in 1..N + 1, inst'[n].root, inst'[n].tinst # 0
               PROVE  inst'[inst'[n].tinst].root
    BY <1>8 DEF RootsClosed
  <2>1. CASE n = N + 1
    BY <1>5, <1>6, <1>8, <1>12, <2>1
  <2>2. CASE n # N + 1
    <3>1. n \in 1..N /\ inst'[n] = inst[n]
      BY <1>5, <1>7, <2>2
    <3>2. inst[n].tinst \in 1..N /\ inst[inst[n].tinst].root
      BY <1>7, <1>10, <3>1 DEF RootsClosed
    <3> QED BY <1>5, <3>1, <3>2
  <2> QED BY <2>1, <2>2
<1>14. AllLead(inst')
  <2> SUFFICES ASSUME NEW n \in 1..N + 1 PROVE Leads(n, inst')
    BY <1>8 DEF AllLead
  <2>1. \A S \in SUBSET (1..N) : ClosedIn(S, inst) => ClosedIn(S, inst')
    BY <1>5 DEF ClosedIn
  <2>2. 1..N \subseteq DOMAIN inst' /\ N + 1 \notin 1..N
    BY <1>7, <1>8
  <2>3. CASE n = N + 1
    <3>1. ClosedIn(1..N, inst)
      BY <1>7 DEF ClosedIn
    <3>2. ClosedIn(1..N, inst')
      BY <2>1, <3>1
    <3>3. inst'[n].tinst \in (1..N) \cup {0}
      BY <1>6, <1>8, <2>3
    <3> QED BY <2>2, <2>3, <3>2, <3>3 DEF Leads
  <2>4. CASE n # N + 1
    <3>1. n \in 1..N /\ inst'[n] = inst[n]
      BY <1>5, <1>7, <2>4
    <3>2. PICK S \in SUBSET (1..N) : ClosedIn(S, inst) /\ n \notin S /\ inst[n].tinst \in S \cup {0}
      BY <1>7, <1>10, <3>1 DEF AllLead, Leads
    <3> QED BY <2>1, <2>2, <3>1, <3>2 DEF Leads
  <2> QED BY <2>3, <2>4
<1>15. RootsOK(stack', inst')
  <2> DEFINE n == N + 1
             x == errors
             i == Len(members[m]) + 1
             h == Top
             f == MadeFrame(h, n, e, x, i)
  <2>1. stack' = <<f>> \o Tail(stack)
    BY <1>2 DEF ImplementStep, N
  <2>2. h \in FrameSet /\ n \in Nat /\ e \in Nat /\ x \in Nat /\ i \in Nat /\ h.proc = "instance"
    <3>1. e \in 0..N /\ m \in Mod
      BY <1>2 DEF ImplementStep, N
    <3>2. Len(members[m]) \in Nat
      BY <3>1, ListTypes DEF TypeInv
    <3> QED BY <1>1, <1>7, <3>1, <3>2 DEF TypeInv, Types, CountsOK
  <2> HIDE DEF n, x, i, h
  <2>3. /\ f \in FrameSet /\ f.proc = h.proc /\ f.root = h.root
        /\ f.pc = "members" /\ f.of = n
    <3>1. h \in FrameSet /\ n \in Nat /\ e \in Nat /\ x \in Nat /\ i \in Nat
      BY <2>2
    <3>2. /\ MadeFrame(h, n, e, x, i) \in FrameSet /\ MadeFrame(h, n, e, x, i).proc = h.proc
          /\ MadeFrame(h, n, e, x, i).root = h.root /\ MadeFrame(h, n, e, x, i).pc = "members"
          /\ MadeFrame(h, n, e, x, i).of = n
      BY <3>1, MadeFrameFields
    <3> QED BY <3>2
  <2>4. RootOK(f, inst')
    <3>1. f.root = r /\ f.proc = "instance" /\ f.of = N + 1
      BY <2>2, <2>3 DEF n, h, r
    <3> HIDE DEF f
    <3> QED BY <1>6, <2>3, <3>1 DEF RootOK, Made
  <2> HIDE DEF f
  <2>5. RootsOK(Tail(stack), inst')
    <3> SUFFICES ASSUME NEW k \in 1..Len(Tail(stack)) PROVE RootOK(Tail(stack)[k], inst')
      BY DEF RootsOK
    <3> DEFINE g == Tail(stack)[k]
    <3>1. RootOK(g, inst)
      BY <1>11 DEF RootsOK
    <3>2. FrameOK(g, inst)
      <4>1. \A j \in 1..Len(stack) : FrameOK(stack[j], inst)
        BY <1>1 DEF TypeInv, Stacked, StackOK
      <4>2. g = stack[k + 1] /\ k + 1 \in 1..Len(stack)
        BY <1>1, TopFits, PopSeq
      <4> QED BY <4>1, <4>2
    <3> HIDE DEF g
    <3>3. g.proc = "instance" /\ g.tinst # 0 => g.tinst \in 1..N
      BY <1>7, <3>2 DEF FrameOK, N
    <3>4. Made(g) \/ g.proc = "pass" => g.of \in 1..N
      BY <3>2 DEF FrameOK, N
    <3>5. RootOK(g, inst')
      BY <1>5, <3>1, <3>3, <3>4 DEF RootOK
    <3> QED BY <3>5 DEF g
  <2> QED BY <1>11, <2>1, <2>3, <2>4, <2>5, RootPush
<1> QED BY <1>13, <1>14, <1>15

LEMMA RootNext == TypeInv /\ RootInv /\ TypeInv' /\ [Next]_vars => RootInv'
<1> SUFFICES ASSUME TypeInv, RootInv, TypeInv', [Next]_vars PROVE RootInv'
  OBVIOUS
<1>1. CASE Quiet
  BY <1>1, RootQuietSteps
<1>2. CASE TrialEnd \/ InstanceGood \/ InstanceBad
  BY <1>2, RootReturns
<1>3. CASE Match
  BY <1>3, RootMatch
<1>4. CASE Implement
  BY <1>4, RootImplement
<1>5. CASE Finished \/ UNCHANGED vars
  BY <1>5 DEF Finished, vars, RootInv, NoAlias, ItemsOf, RootsClosed, AllLead, Leads, ClosedIn,
              RootsOK, RootOK
<1> QED BY <1>1, <1>2, <1>3, <1>4, <1>5 DEF Next, Step, Quiet

LEMMA RootInit == Init => RootInv
<1> SUFFICES ASSUME Init PROVE RootInv
  OBVIOUS
<1>1. DOMAIN inst = {} /\ Len(stack) = 0
  BY DEF Init
<1> QED BY <1>1 DEF RootInv, RootsClosed, AllLead, RootsOK

\* The chain from an instance to those it was made for ends, so that the loops
\* that follow tinst do (printInstantiationTrace, dtemplate.d:6072; the search for
\* the outermost instance, dsymbolsem.d:5780), whatever places were swapped on the
\* way (dsymbolsem.d:5476-5500), in a program without is(... id).
THEOREM ChainsCorrect == Spec => []ChainsEnd
<1>1. TypeInv /\ RootInv => ChainsEnd
  <2> SUFFICES ASSUME TypeInv, RootInv, NoAlias, NEW n \in DOMAIN inst
               PROVE  n \notin Chain(inst[n].tinst)
    BY DEF ChainsEnd, ChainsAlwaysEnd, NoAlias, Instances
  <2>1. PICK S \in SUBSET DOMAIN inst : ClosedIn(S, inst) /\ n \notin S /\ inst[n].tinst \in S \cup {0}
    BY DEF RootInv, AllLead, Leads
  <2>2. ClosedUnderTinst(S)
    BY <2>1 DEF ClosedIn, ClosedUnderTinst
  <2> QED BY <2>1, <2>2 DEF Chain
<1>2. Spec => []RootInv
  BY Invariant, RootInit, RootNext, PTL DEF Spec
<1> QED BY <1>1, <1>2, Invariant, PTL
=============================================================================
