------------------------ MODULE TemplateInstancesMC ------------------------
(***************************************************************************)
(* The programs that TLC compiles: two modules that use two templates, a    *)
(* declaration outside that uses one of them, and a third template.         *)
(***************************************************************************)
EXTENDS TemplateInstances, TLC

\* Items are written down with their pass.
In(p, kind, of, mode) == [pass |-> p, item |-> [kind |-> kind, of |-> of, mode |-> mode]]
Use(k, mode, p) == In(p, "use", k, mode)
Error(p) == In(p, "error", "", "plain")
Circular(s, p) == In(p, "circular", s, "plain")
Refer(s) == In(1, "symbol", s, "plain")

\* A body of such items, pass by pass.
ByPass(list) ==
    [p \in 1..3 |-> LET of == SelectSeq(list, LAMBDA x : x.pass = p)
                    IN [i \in DOMAIN of |-> of[i].item]]

Compile(m, n, t, u, v, s) ==
    ("m" :> ByPass(m)) @@ ("n" :> ByPass(n)) @@ ("T" :> ByPass(t)) @@ ("U" :> ByPass(u))
    @@ ("V" :> ByPass(v)) @@ ("S" :> ByPass(s))

\* Bodies of at most n items out of S; bodies of two items.
UpTo(n, S) == UNION {[1..k -> S] : k \in 0..n}
Then(S, T) == {<<s, t>> : s \in S, t \in T}

HomeTU == [k \in Template |-> IF k = "T" THEN "n" ELSE "m"]
ModulesMN == <<"m", "n">>

Uses(K, M, P) == {Use(k, x, p) : k \in K, x \in M, p \in P}

\* Templates used on trial and in earnest, in declarations and in functions,
\* with errors in each pass, and with a way back through the declaration.
Trials ==
  LET any == Uses({"U"}, {"plain", "is"}, {1, 3}) \cup {Error(1), Error(3), Refer("S")}
      bodyT == UpTo(1, any)
               \cup Then(Uses({"U"}, {"plain"}, {1, 3}) \cup {Refer("S")}, {Error(1), Error(3)})
      bodyU == UpTo(1, {Error(1), Error(2), Error(3), Circular("S", 3), Use("T", "plain", 1)})
               \cup {<<Error(3), Use("U", "plain", 1)>>}
      bodyS == UpTo(1, Uses({"T"}, {"is", "plain"}, {1}))
      bodyM == UpTo(1, Uses({"T", "U"}, Mode, {1}))
      bodyN == {<<>>, <<Use("T", "plain", 1)>>, <<Use("U", "plain", 3)>>}
  IN {Compile(m \o <<Refer("S")>>, n, t, u, <<>>, s) :
        t \in bodyT, u \in bodyU, s \in bodyS, m \in bodyM, n \in bodyN}

\* A template tried first and used afterwards, and one that it uses.
Nested ==
  LET bodyT == {<<Use("U", "plain", p)>> : p \in {1, 3}} \cup {<<Error(p)>> : p \in 1..3}
      bodyU == UpTo(1, {Error(p) : p \in 1..3})
      bodyM == Then(Uses({"T", "U"}, {"is"}, {1}), Uses({"T", "U"}, {"plain"}, {1, 3}))
  IN {Compile(m, <<>>, t, u, <<>>, <<>>) :
        t \in bodyT, u \in bodyU, m \in bodyM}

\* Templates that use each other: T in a declaration, U in one pass or the other
\* with a third template after it.
Mutual ==
  LET bodyU == {<<Use("T", "plain", p), Use("V", "plain", p)>> : p \in 1..3}
      bodyM == Then(Uses({"T"}, Mode, {1}), Uses({"U"}, Mode, {1, 3}))
  IN {Compile(m, <<>>, <<Use("U", "plain", 1)>>, u, <<>>, <<>>) : u \in bodyU, m \in bodyM}

AllTrials == Trials \cup Mutual
=============================================================================
