------------------------- MODULE DeferredSemanticMC -------------------------
(***************************************************************************)
(* The programs that TLC compiles.                                          *)
(***************************************************************************)
EXTENDS DeferredSemantic, TLC

Uses(kinds, of) == [kind : kinds, of : of]
LocalImport == [kind |-> "import", of |-> Imported]

\* Bodies of at most n members out of S.
UpTo(n, S) == UNION {[1..k -> S] : k \in 0..n}

\* The declarations of a module in every order.
Orders(S) == {f \in [1..Cardinality(S) -> S] : \A a \in S : \E i \in DOMAIN f : f[i] = a}

InOneModule(order) == (Main :> order) @@ (Imported :> <<>>)

\* Aggregates without members; those that a program does not list it does not
\* have.
Empty(S) == [a \in S |-> <<>>]

\* Structs in one module, with at most n members in total, two in each.
StructPrograms ==
    {[items |-> InOneModule(<<"S1", "S2", "S3">>), members |-> m @@ Empty(Class),
      base |-> [c \in Class |-> NoBase]] :
        m \in {m \in [Struct -> UpTo(2, Uses({"field", "sized", "constant"}, Struct))] :
                 Len(m["S1"]) + Len(m["S2"]) + Len(m["S3"]) <= 3}}

\* Two classes and a struct in one module, one member each at most, the
\* classes in order, the struct before or after them; the second struct is empty.
ClassPrograms ==
    LET used == {"C1", "C2", "S1"}
        bodies == UpTo(1, Uses({"sized", "constant"}, used) \cup Uses({"field"}, {"S1"}))
    IN {[items |-> InOneModule(o \o <<"S2">>), members |-> m @@ Empty({"S2", "S3"}), base |-> b] :
        o \in {<<"S1", "C1", "C2">>, <<"C1", "C2", "S1">>},
        m \in [used -> bodies],
        b \in {b \in [Class -> Class \cup {NoBase}] : b["C1"] # "C1"}}

\* A root module with two classes and an import, first or last, of a module
\* with two structs, two of the four with a member; the first class may import
\* the module, too, and may derive from the second.
ModulePrograms ==
    LET body == UpTo(1, Uses({"constant"}, Class) \cup Uses({"field"}, {"S1", "S2"}))
        some == {m \in [{"S1", "S2", "C1", "C2"} -> body] :
                    Cardinality({a \in DOMAIN m : m[a] # <<>>}) <= 2}
        bodies == {m @@ Empty({"S3"}) : m \in some}
        members == bodies \cup {[m EXCEPT !["C1"] = <<LocalImport>> \o @] : m \in bodies}
    IN {[items |-> (Main :> o) @@ (Imported :> <<"S1", "S2">>), members |-> m,
         base |-> ("C1" :> b) @@ ("C2" :> NoBase)] :
        o \in {o \in Orders({"C1", "C2", Import}) : o[2] # Import},
        m \in members, b \in {"C2", NoBase}}

AllPrograms == StructPrograms \cup ClassPrograms \cup ModulePrograms
=============================================================================
