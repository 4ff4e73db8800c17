---------------------------- MODULE ModuleSearch ----------------------------
(***************************************************************************)
(* Name lookup through the import graph: Module.search with its one-entry   *)
(* cache and its insearch flag (dmodule.d), ScopeDsymbol.search over the     *)
(* imported scopes (dsymbol.d), and the unqualified and qualified lookups    *)
(* that start it (dscope.d, expressionsem.d).                               *)
(*                                                                          *)
(* Modules may import each other in cycles.  A search that comes back to a  *)
(* module it is in finds nothing there, and every module on the way caches   *)
(* what it returned, so the order of lookups can matter.  The calls in       *)
(* progress are a stack of frames, as the search of a module is interrupted  *)
(* by those of its imports.                                                  *)
(*                                                                          *)
(* A symbol is represented by the module that declares it, an overload set   *)
(* by the set of those modules, null by the empty set.  The scopes inside a  *)
(* module, selective and renamed imports, packages and mixins are left out.  *)
(***************************************************************************)
EXTENDS Integers, Sequences, FiniteSets

CONSTANTS Module,       \* the modules
          Ident,        \* the identifiers
          Programs      \* their declarations and imports, with bounds on the
                        \* lookups and on what is declared and imported later

NoIdent == "no identifier"

Kind == {"none", "variable", "function", "private"}
Flag == {"IgnorePrivateImports", "IgnoreErrors", "SearchLocalsOnly",
         "SearchImportsOnly", "SearchUnqualifiedModule", "IgnoreSymbolVisibility"}

Import == [mod : Module, public : BOOLEAN]

ASSUME ModuleAssumption == Module # {} /\ IsFiniteSet(Module) /\ NoIdent \notin Ident

ASSUME ProgramsAssumption ==
    \A p \in Programs : /\ p.decl \in [Module -> [Ident -> Kind]]
                        /\ p.imports \in [Module -> Seq(Import)]
                        /\ p.bound.lookups \in Nat /\ p.bound.changes \in Nat
                        /\ p.bound.idents \subseteq Ident /\ p.bound.places \subseteq Module

VARIABLES decl,         \* decl[m][x]: what the symbol table of m has for x
          imports,      \* importedScopes and prots of each module
          pending,      \* imports in the symbol table of m, not in imports yet
          cache,        \* searchCacheIdent, searchCacheFlags, searchCacheSymbol
          insearch,     \* Module.insearch
          stack,        \* the calls of Module.search in progress
          ret,          \* the symbol the last call returned
          errors,       \* global.errors
          lookup,       \* the lookup going on, or the last one
          lookups,      \* how many there were
          bound,        \* how many lookups, of what, and changes, of which
                        \* modules, there will be
          changed,      \* the modules that got a declaration or an import later
          stale         \* those whose cached search went through their imports
                        \* before one was added; history, no step depends on it

vars == <<decl, imports, pending, cache, insearch, stack, ret, errors, lookup, lookups, bound,
          changed, stale>>


NoCache == [ident |-> NoIdent, flags |-> {}, symbol |-> {}]

\* public = FALSE is a private import, the default.
Frame(m, x, flags) ==
    [mod |-> m, ident |-> x, flags |-> flags, pc |-> "enter", i |-> 1,
     symbol |-> {}, errors |-> 0]

Top == Head(stack)
At(pc) == stack # <<>> /\ Top.pc = pc

Idle == stack = <<>> /\ lookup.try = 0

Init ==
    /\ \E p \in Programs :
          decl = p.decl /\ imports = p.imports /\ bound = p.bound
    /\ pending = [m \in Module |-> {}]
    /\ cache = [m \in Module |-> NoCache]
    /\ insearch = [m \in Module |-> FALSE]
    /\ stack = <<>> /\ ret = {} /\ errors = 0
    /\ lookup = [mod |-> CHOOSE m \in Module : TRUE, ident |-> NoIdent,
                 tries |-> <<>>, try |-> 0, errors |-> 0, changes |-> 0]
    /\ lookups = 0 /\ changed = <<>> /\ stale = {}

-----------------------------------------------------------------------------
(***************************************************************************)
(* Module.search and ScopeDsymbol.search.                                   *)
(***************************************************************************)

\* Only an unqualified search obeys SearchLocalsOnly.
Effective(flags) ==
    IF "SearchUnqualifiedModule" \in flags THEN flags ELSE flags \ {"SearchLocalsOnly"}

\* MUTANT: the flags of the cached search are not compared.
CachedAnyFlags(m, x, flags) == cache[m].ident = x

Cached(m, x, flags) == cache[m].ident = x /\ cache[m].flags = flags

InSearch(m) == insearch[m]

\* The search on top of the stack, f, goes on at pc with this symbol.
GoOn(f, pc, symbol) == <<[f EXCEPT !.pc = pc, !.symbol = symbol]>> \o Tail(stack)

\* Found already: nothing in a module that is being searched, else the cache.
SearchAtOnce ==
    LET flags == Effective(Top.flags) IN
    /\ At("enter")
    /\ \/ InSearch(Top.mod) /\ ret' = {}
       \/ /\ ~InSearch(Top.mod) /\ Cached(Top.mod, Top.ident, flags)
          /\ ret' = cache[Top.mod].symbol
    /\ stack' = Tail(stack)
    /\ UNCHANGED <<decl, imports, pending, cache, insearch, errors, lookup, lookups, bound,
                   changed, stale>>

\* The module's own symbol hides those it imports.
SearchEnter ==
    LET flags == Effective(Top.flags)
        here == "SearchImportsOnly" \notin flags /\ decl[Top.mod][Top.ident] # "none"
    IN /\ At("enter")
       /\ ~InSearch(Top.mod) /\ ~Cached(Top.mod, Top.ident, flags)
       /\ insearch' = [insearch EXCEPT ![Top.mod] = TRUE]
       /\ LET begun == [Top EXCEPT !.flags = flags, !.errors = errors] IN
            \/ here /\ stack' = GoOn(begun, "leave", {Top.mod})
            \/ ~here /\ stack' = GoOn(begun, "scan", {})
       /\ UNCHANGED <<decl, imports, pending, cache, ret, errors, lookup, lookups, bound,
                      changed, stale>>

Skipped(entry, flags) ==
    \/ "IgnorePrivateImports" \in flags /\ ~entry.public
    \/ "SearchLocalsOnly" \in flags

\* MUTANT: every flag is passed on.
InheritedAll(flags) == flags \cup {"IgnorePrivateImports"}

\* What a search of an imported module is asked to do.
Inherited(flags) ==
    (flags \cap {"IgnoreErrors", "IgnoreSymbolVisibility"}) \cup {"IgnorePrivateImports"}

SearchImport ==
    LET entry == imports[Top.mod][Top.i]
        next == [Top EXCEPT !.i = @ + 1]
        called == Frame(entry.mod, Top.ident, Inherited(Top.flags))
    IN /\ At("scan") /\ Top.i <= Len(imports[Top.mod])
       /\ \/ /\ Skipped(entry, Top.flags)
             /\ stack' = GoOn(next, "scan", Top.symbol)
          \/ /\ ~Skipped(entry, Top.flags)
             /\ stack' = <<called>> \o GoOn(next, "merge", Top.symbol)
       /\ UNCHANGED <<decl, imports, pending, cache, insearch, ret, errors, lookup,
                      lookups, bound, changed, stale>>

Overloadable(S, x) == \A m \in S : decl[m][x] = "function"

\* A private symbol is visible in its own module only.
Visible(S, x, flags) ==
    "IgnoreSymbolVisibility" \in flags \/ \A m \in S : decl[m][x] # "private"

\* What the import contributes: the first symbol, one more overload, or a
\* conflict that ends the scan.
SearchMerge ==
    LET x == Top.ident
        new == ret # {} /\ Visible(ret, x, Top.flags) /\ ret # Top.symbol
        agree == Top.symbol = {} \/ Overloadable(ret \cup Top.symbol, x)
        conflict == new /\ ~agree
    IN /\ At("merge")
       /\ stack' = GoOn(Top, IF conflict THEN "found" ELSE "scan",
                              IF new /\ agree THEN Top.symbol \cup ret ELSE Top.symbol)
       /\ errors' = errors + IF conflict /\ "IgnoreErrors" \notin Top.flags THEN 1 ELSE 0
       /\ UNCHANGED <<decl, imports, pending, cache, insearch, ret, lookup, lookups, bound,
                      changed, stale>>

\* All imports were scanned, or two of them conflict.  A private symbol got
\* through by IgnoreSymbolVisibility only, that is an error.
SearchFound ==
    LET private == \E m \in Top.symbol : decl[m][Top.ident] = "private" IN
    /\ \/ At("found")
       \/ At("scan") /\ Top.i > Len(imports[Top.mod])
    /\ stack' = GoOn(Top, "leave", Top.symbol)
    /\ errors' = errors + IF private /\ "IgnoreErrors" \notin Top.flags THEN 1 ELSE 0
    /\ UNCHANGED <<decl, imports, pending, cache, insearch, ret, lookup, lookups, bound,
                   changed, stale>>

\* MUTANT: the result is cached even if finding it was an error.
Always(f) == TRUE

\* A search that reported an error must report it again the next time.
MayCache(f) == errors = f.errors

\* The one result that the module keeps.
Cache(f) ==
    /\ cache' = IF MayCache(f)
                THEN [cache EXCEPT ![f.mod] = [ident |-> f.ident, flags |-> f.flags,
                                               symbol |-> f.symbol]]
                ELSE cache
    /\ stale' = IF MayCache(f) THEN stale \ {f.mod} ELSE stale

\* MUTANT: the flag stays set when the symbol is the module's own.
SearchLeaveOwn ==
    /\ At("leave")
    /\ insearch' = [insearch EXCEPT ![Top.mod] = Top.symbol = {Top.mod}]
    /\ Cache(Top)
    /\ ret' = Top.symbol
    /\ stack' = Tail(stack)
    /\ UNCHANGED <<decl, imports, pending, errors, lookup, lookups, bound, changed>>

SearchLeave ==
    /\ At("leave")
    /\ insearch' = [insearch EXCEPT ![Top.mod] = FALSE]
    /\ Cache(Top)
    /\ ret' = Top.symbol
    /\ stack' = Tail(stack)
    /\ UNCHANGED <<decl, imports, pending, errors, lookup, lookups, bound, changed>>

-----------------------------------------------------------------------------
(***************************************************************************)
(* Lookups.  An unqualified one tries the module, then its imports, then    *)
(* both again with visibility ignored; the last two are deprecated.         *)
(***************************************************************************)

Unqualified(more) ==
    [t \in 1..4 |-> more \cup {"SearchUnqualifiedModule"} \cup
       <<{"SearchLocalsOnly"}, {"SearchImportsOnly"},
         {"SearchLocalsOnly", "IgnoreSymbolVisibility"},
         {"SearchImportsOnly", "IgnoreSymbolVisibility"}>>[t]]

\* m.x in module k sees the private imports of its own module only.
Qualified(m, k) ==
    <<{"SearchLocalsOnly"} \cup IF m = k THEN {} ELSE {"IgnorePrivateImports"}>>

Start(m, x, tries) ==
    /\ Idle /\ lookups < bound.lookups
    /\ lookups' = lookups + 1
    /\ lookup' = [mod |-> m, ident |-> x, tries |-> tries, try |-> 1, errors |-> errors,
                  changes |-> Len(changed)]
    /\ stack' = <<Frame(m, x, tries[1])>>
    /\ UNCHANGED <<decl, imports, pending, insearch, ret, errors, bound, changed>>

\* Scope.search, at module scope.
LookupUnqualified(m, x) == Start(m, x, Unqualified({})) /\ UNCHANGED <<cache, stale>>

\* DotIdExp on a module.
LookupQualified(m, k, x) == Start(m, x, Qualified(m, k)) /\ UNCHANGED <<cache, stale>>

\* An identifier was not found: another one of similar spelling is looked up
\* for the message, silently and with all caches cleared (search_correct).
Suggest(x) ==
    /\ ret = {} /\ lookup.ident \notin {NoIdent, x} /\ Len(lookup.tries) > 1
    /\ Start(lookup.mod, x, Unqualified({"IgnoreErrors"}))
    /\ cache' = [m \in Module |-> [cache[m] EXCEPT !.ident = NoIdent]]
    /\ stale' = {}

\* The search returned: that is the answer, or there is another try.
LookupNext ==
    LET t == lookup.try + 1
        again == ret = {} /\ t <= Len(lookup.tries)
    IN /\ stack = <<>> /\ lookup.try # 0
       /\ lookup' = [lookup EXCEPT !.try = IF again THEN t ELSE 0]
       /\ stack' = IF again THEN <<Frame(lookup.mod, lookup.ident, lookup.tries[t])>>
                            ELSE <<>>
       /\ UNCHANGED <<decl, imports, pending, cache, insearch, ret, errors, lookups, bound,
                      changed, stale>>

-----------------------------------------------------------------------------
(***************************************************************************)
(* Declarations and imports that appear between lookups, out of a mixin or  *)
(* a static if.  An import comes in two steps: with the other members of    *)
(* its block it goes into the symbol table, and only when its own semantic  *)
(* runs, after that of the members before it, is it searched.               *)
(***************************************************************************)

Change(m) ==
    /\ Idle /\ Len(changed) < bound.changes /\ m \in bound.places
    /\ changed' = Append(changed, m)
    /\ UNCHANGED <<insearch, stack, ret, errors, lookup, lookups, bound>>

\* MUTANT: the module's cache survives.
KeepCache(m) == UNCHANGED <<cache, stale>>

Invalidate(m) ==
    /\ cache' = [cache EXCEPT ![m].ident = NoIdent]
    /\ stale' = stale \ {m}

\* Module.symtabInsert.
SymtabInsert(m, x, kind) ==
    /\ Change(m)
    /\ decl[m][x] = "none"
    /\ decl' = [decl EXCEPT ![m][x] = kind]
    /\ Invalidate(m)
    /\ UNCHANGED <<imports, pending>>

\* Import.addMember puts the Import into the symbol table.
ImportMember(m, new) ==
    /\ Change(m)
    /\ new.mod # m /\ new \notin pending[m]
    /\ pending' = [pending EXCEPT ![m] = @ \cup {new}]
    /\ Invalidate(m)
    /\ UNCHANGED <<decl, imports>>

\* An import of a module that is imported already can only make it public.
Imported(list, new) ==
    LET old == {i \in DOMAIN list : list[i].mod = new.mod}
    IN IF old = {} THEN Append(list, new)
       ELSE [i \in DOMAIN list |->
               IF i \in old THEN [list[i] EXCEPT !.public = @ \/ new.public] ELSE list[i]]

\* A search that went through the imports of m is cached.
ImportsCached(m) == cache[m].ident # NoIdent /\ "SearchLocalsOnly" \notin cache[m].flags

\* importScope, from the semantic of the Import.  It leaves the cache alone.
ImportScope(m, new) ==
    /\ Change(m)
    /\ new \in pending[m]
    /\ pending' = [pending EXCEPT ![m] = @ \ {new}]
    /\ imports' = [imports EXCEPT ![m] = Imported(@, new)]
    /\ stale' = IF ImportsCached(m) THEN stale \cup {m} ELSE stale
    /\ UNCHANGED <<decl, cache>>

\* The steps of the lookup going on.
Search ==
    \/ SearchAtOnce \/ SearchEnter \/ SearchImport \/ SearchMerge
    \/ SearchFound \/ SearchLeave \/ LookupNext

\* Nothing more is asked.
Finished == Idle /\ lookups = bound.lookups /\ UNCHANGED vars

Next ==
    \/ Search
    \/ \E m \in Module, x \in bound.idents : LookupUnqualified(m, x)
    \/ \E m, k \in Module, x \in bound.idents : LookupQualified(m, k, x)
    \/ \E x \in bound.idents : Suggest(x)
    \/ \E m \in Module, x \in bound.idents, kind \in {"variable", "function"} :
          SymtabInsert(m, x, kind)
    \/ \E m \in Module, new \in Import : ImportMember(m, new) \/ ImportScope(m, new)
    \/ Finished

Spec == Init /\ [][Next]_vars

-----------------------------------------------------------------------------
(***************************************************************************)
(* Properties.                                                              *)
(***************************************************************************)

\* Every variable stays in its range, and insearch is set exactly for the
\* modules with a search in progress, one each: none runs around a cycle.
TypeOK ==
    /\ decl \in [Module -> [Ident -> Kind]]
    /\ imports \in [Module -> Seq(Import)]
    /\ pending \in [Module -> SUBSET Import]
    /\ cache \in [Module -> [ident : Ident \cup {NoIdent}, flags : SUBSET Flag,
                             symbol : SUBSET Module]]
    /\ insearch \in [Module -> BOOLEAN]
    /\ \A m \in Module :
         Cardinality({n \in DOMAIN stack : stack[n].mod = m /\ stack[n].pc # "enter"})
           = IF insearch[m] THEN 1 ELSE 0
    /\ ret \in SUBSET Module
    /\ errors \in Nat /\ lookups \in 0..bound.lookups /\ changed \in Seq(Module)
    /\ stale \subseteq {changed[n] : n \in DOMAIN changed}

\* The modules that a set of modules leads to: those of the set, and the ones
\* that a module which has no x of its own imports publicly.
ClosedUnderImport(S, x) ==
    \A n \in S : decl[n][x] = "none" =>
        \A i \in DOMAIN imports[n] : imports[n][i].public => imports[n][i].mod \in S

LeadsTo(S, x) ==
    {k \in Module : \A R \in SUBSET Module : S \subseteq R /\ ClosedUnderImport(R, x) => k \in R}

\* The imports that a search of m with these flags goes through.
Scanned(m, flags) ==
    {imports[m][i].mod : i \in {i \in DOMAIN imports[m] : ~Skipped(imports[m][i], flags)}}

\* What a search is for, defined without cache and flag: the symbol of the
\* module itself, or else the visible ones of the modules its imports lead to.
Meant(m, x, flags) ==
    IF "SearchImportsOnly" \notin flags /\ decl[m][x] # "none" THEN {m}
    ELSE {k \in LeadsTo(Scanned(m, flags), x) : decl[k][x] # "none" /\ Visible({k}, x, flags)}

\* No module imports itself, however indirectly.
Acyclic ==
    \E rank \in [Module -> 1..Cardinality(Module)] :
        \A m \in Module : \A i \in DOMAIN imports[m] :
            rank[imports[m][i].mod] < rank[m]

\* What is in the cache was found legally: no private import and no private
\* symbol leaks from one search into another, whatever the cycles.
CacheSound ==
    changed = <<>> => \A m \in Module : cache[m].ident # NoIdent =>
        cache[m].symbol \subseteq Meant(m, cache[m].ident, cache[m].flags)

\* The symbols the lookup is for: those of the first try that has any.
Wanted ==
    LET meant(t) == Meant(lookup.mod, lookup.ident, Effective(lookup.tries[t]))
        hits == {t \in DOMAIN lookup.tries : meant(t) # {}}
    IN IF hits = {} THEN {} ELSE meant(CHOOSE t \in hits : \A u \in hits : t <= u)

Answered ==
    Idle /\ lookup.ident # NoIdent /\ lookup.changes = Len(changed)

\* Several symbols that are not overloads of each other.
Conflict(S, x) == Cardinality(S) > 1 /\ ~Overloadable(S, x)

\* The answer is the symbol meant, or the whole overload set; a conflict is
\* reported by every lookup that meets it, cached or not.
AnswerRight ==
    Answered =>
        IF Conflict(Wanted, lookup.ident)
        THEN errors > lookup.errors \/ "IgnoreErrors" \in lookup.tries[1]
        ELSE ret = Wanted

\* When no module imports itself, however indirectly, every lookup is
\* answered right whatever was looked up before, the error for an ambiguity
\* included, and also after declarations and imports were added to the module
\* it starts from.  An import is seen although it is added to a module whose
\* cache is kept: the first try of an unqualified lookup replaces what is
\* cached.  A qualified one may meet a result older than the import.
OwnChangesSeen ==
    /\ Answered /\ (\A n \in DOMAIN changed : changed[n] = lookup.mod) /\ Acyclic
    /\ Len(lookup.tries) > 1 \/ lookup.mod \notin stale
    => AnswerRight

\* In cycles of imports, too, a first lookup finds what is meant although the
\* search is cut off wherever it closes a cycle.
FirstAnswerRight == lookups = 1 /\ changed = <<>> => AnswerRight

\* The cache is only what its declaration says, "cached value of search": an
\* earlier lookup does not change the answer of a later one.
EarlierLookupsDoNotMatter == changed = <<>> => AnswerRight
=============================================================================
