------------------------------ MODULE Gagging ------------------------------
(***************************************************************************)
(* Diagnostic counters of the compiler: `struct Global` of globals.d, the  *)
(* reporting functions of errors.d, `struct Ungag` of dsymbol.d, and the   *)
(* places of semantic analysis that open and close gagged scopes.          *)
(*                                                                         *)
(* Speculative analysis (is-expressions, __traits(compiles), overload and  *)
(* constraint evaluation) runs between startGagging and endGagging; inside *)
(* it, symbols that are not speculative are analysed ungagged; many places *)
(* compare global.errors with a value saved earlier (a "probe").  The      *)
(* three kinds nest as calls do, so the open ones form the stack `frames`. *)
(***************************************************************************)
EXTENDS Integers, Sequences

CONSTANTS ErrorLimit,     \* -verrors=N: global.params.errorLimit, 0 is unlimited
          Warnings,       \* -w, -wi: global.params.warnings
          UseDeprecated,  \* -de, -d: global.params.useDeprecated
          GagModulus,     \* global.gag is a uint: 2^32 in the compiler
          CtfeLimitHit,   \* may CTFE exceed CTFE_RECURSION_LIMIT?
          MaxErrors,      \* bound on the errors counted
          MaxWarnings,    \* bound on the warnings counted
          MaxDepth        \* bound on the nesting of scopes

Diagnostic == {"error", "inform", "off"}

ASSUME ErrorLimitAssumption == ErrorLimit \in Nat
ASSUME DiagnosticAssumption == Warnings \in Diagnostic /\ UseDeprecated \in Diagnostic
ASSUME CtfeAssumption       == CtfeLimitHit \in BOOLEAN
ASSUME BoundAssumption      == /\ MaxErrors \in Nat
                               /\ MaxWarnings \in Nat
                               /\ MaxDepth \in Nat
                               /\ GagModulus \in Nat
                               /\ GagModulus > MaxDepth + 1

VARIABLES
    errors, warnings, gag, gaggedErrors, gaggedWarnings, \* struct Global
    frames,    \* the open scopes, innermost last
    answer,    \* what the last endGagging or probe told its caller
    shown,     \* error messages printed so far
    rerun,     \* did the last trySemantic that succeeded analyse its copy again?
    status     \* "running", or how the process exited

counters == <<errors, warnings, gag, gaggedErrors, gaggedWarnings>>
vars     == <<counters, frames, answer, shown, rerun, status>>

\* "gag": startGagging..endGagging.  "try": the same, in Type.trySemantic.
\* "ungag": an Ungag object or its open-coded form.  "probe": a saved errors.
GagKind   == {"gag", "try"}
FrameKind == GagKind \cup {"ungag", "probe"}

\* The counters at entry.  A gag scope saves gaggedErrors in its caller's local,
\* an Ungag saves gag, a probe saves errors; the rest is history the properties
\* read.  warned: a warning was gagged with this scope the innermost gag scope.
Frame == [kind : FrameKind, errors : Nat, gaggedErrors : Nat,
          gag : 0..GagModulus-1, warned : BOOLEAN]

Status == {"running", "failed", "succeeded"}

TypeOK == /\ errors \in Nat /\ warnings \in Nat
          /\ gag \in 0..GagModulus-1
          /\ gaggedErrors \in Nat /\ gaggedWarnings \in Nat
          /\ frames \in Seq(Frame)
          /\ Len(frames) <= MaxDepth
          /\ answer \in BOOLEAN /\ rerun \in BOOLEAN
          /\ shown \in Nat
          /\ status \in Status

Init == /\ errors = 0 /\ warnings = 0 /\ gag = 0
        /\ gaggedErrors = 0 /\ gaggedWarnings = 0
        /\ frames = <<>>
        /\ answer = FALSE /\ rerun = FALSE
        /\ shown = 0
        /\ status = "running"

Running == status = "running"
Depth   == Len(frames)
Top     == frames[Depth]
Pop     == SubSeq(frames, 1, Depth - 1)

\* uint ++ and --
GagInc == IF gag = GagModulus - 1 THEN 0 ELSE gag + 1
GagDecNoWrap == gag - 1                                             \* mutant
GagDec == IF gag = 0 THEN GagModulus - 1 ELSE gag - 1

Entered(k) == [kind |-> k, errors |-> errors, gaggedErrors |-> gaggedErrors,
               gag |-> gag, warned |-> FALSE]

----------------------------------------------------------------------------
(* Scopes *)

\* global.startGagging
StartGagging(k) ==
    /\ Running /\ k \in GagKind /\ Depth < MaxDepth
    /\ frames' = Append(frames, Entered(k))
    /\ gag' = GagInc
    /\ gaggedWarnings' = 0
    /\ UNCHANGED <<errors, warnings, gaggedErrors, answer, shown, rerun, status>>

\* mutant: the answer is read off global.errors
EndGaggingByTotal(k) ==
    /\ Running /\ Depth > 0 /\ Top.kind = k
    /\ answer' = (errors # Top.errors)
    /\ gag' = GagDec
    /\ errors' = errors - (gaggedErrors - Top.gaggedErrors)
    /\ gaggedErrors' = Top.gaggedErrors
    /\ frames' = Pop
    /\ UNCHANGED <<warnings, gaggedWarnings, shown, status>>

\* mutant: all errors of the scope are taken back, the ungagged ones too
EndGaggingRewinding(k) ==
    /\ Running /\ Depth > 0 /\ Top.kind = k
    /\ answer' = (gaggedErrors # Top.gaggedErrors)
    /\ gag' = GagDec
    /\ errors' = Top.errors
    /\ gaggedErrors' = Top.gaggedErrors
    /\ frames' = Pop
    /\ UNCHANGED <<warnings, gaggedWarnings, shown, status>>

\* global.endGagging(oldGagged), called with what the innermost scope saved
EndGaggingOf(k) ==
    /\ Running /\ Depth > 0 /\ Top.kind = k
    /\ answer' = (gaggedErrors # Top.gaggedErrors)
    /\ gag' = GagDec
    /\ errors' = errors - (gaggedErrors - Top.gaggedErrors)
    /\ gaggedErrors' = Top.gaggedErrors
    /\ frames' = Pop
    /\ UNCHANGED <<warnings, gaggedWarnings, shown, status>>

EndGagging == EndGaggingOf("gag") /\ UNCHANGED rerun

\* The end of Type.trySemantic: on success, and if a warning was gagged, the
\* copy of the type is analysed again (by further steps) to show it.
EndTrySemantic ==
    /\ EndGaggingOf("try")
    /\ \/ answer' /\ UNCHANGED rerun
       \/ ~answer' /\ rerun' = (gaggedWarnings > 0)

\* Ungag: remember gag, and lift it if the symbol is not speculative.
StartUngag(lift) ==
    /\ Running /\ Depth < MaxDepth
    /\ frames' = Append(frames, Entered("ungag"))
    /\ gag' = IF lift THEN 0 ELSE gag
    /\ UNCHANGED <<errors, warnings, gaggedErrors, gaggedWarnings, answer, shown, rerun, status>>

\* mutant: the lifted gag is not put back
EndUngagKeeping ==
    /\ Running /\ Depth > 0 /\ Top.kind = "ungag"
    /\ frames' = Pop
    /\ UNCHANGED <<counters, answer, shown, rerun, status>>

EndUngag ==
    /\ Running /\ Depth > 0 /\ Top.kind = "ungag"
    /\ gag' = Top.gag
    /\ frames' = Pop
    /\ UNCHANGED <<errors, warnings, gaggedErrors, gaggedWarnings, answer, shown, rerun, status>>

\* uint errorsave = global.errors; ...; if (global.errors != errorsave)
StartProbe ==
    /\ Running /\ Depth < MaxDepth
    /\ frames' = Append(frames, Entered("probe"))
    /\ UNCHANGED <<counters, answer, shown, rerun, status>>

EndProbe ==
    /\ Running /\ Depth > 0 /\ Top.kind = "probe"
    /\ answer' = (errors # Top.errors)
    /\ frames' = Pop
    /\ UNCHANGED <<counters, shown, rerun, status>>

----------------------------------------------------------------------------
(* Reports *)

\* mutant: the limit is off by one
verrorLate(g) ==
    /\ errors < MaxErrors
    /\ errors' = errors + 1
    /\ \/ /\ g = 0
          /\ shown' = shown + 1
          /\ status' = IF ErrorLimit # 0 /\ errors' > ErrorLimit THEN "failed" ELSE status
          /\ UNCHANGED gaggedErrors
       \/ /\ g # 0
          /\ gaggedErrors' = gaggedErrors + 1
          /\ UNCHANGED <<shown, status>>

\* verror with global.gag = g: an ungagged error is printed, and the compiler
\* gives up at the error limit.
verror(g) ==
    /\ errors < MaxErrors
    /\ errors' = errors + 1
    /\ \/ /\ g = 0
          /\ shown' = shown + 1
          /\ status' = IF ErrorLimit # 0 /\ errors' >= ErrorLimit THEN "failed" ELSE status
          /\ UNCHANGED gaggedErrors
       \/ /\ g # 0
          /\ gaggedErrors' = gaggedErrors + 1
          /\ UNCHANGED <<shown, status>>

Error == /\ Running
         /\ verror(gag)
         /\ UNCHANGED <<warnings, gag, gaggedWarnings, frames, answer, rerun>>

\* An error counted and not printed
increaseErrorCount ==
    /\ Running /\ errors < MaxErrors
    /\ gaggedErrors' = IF gag # 0 THEN gaggedErrors + 1 ELSE gaggedErrors
    /\ errors' = errors + 1
    /\ UNCHANGED <<warnings, gag, gaggedWarnings, frames, answer, shown, rerun, status>>

\* mutant: the errors of the instance are added to one count only
ReuseHidingOnly ==
    /\ Running /\ errors < MaxErrors
    /\ gaggedErrors' = gaggedErrors + 1
    /\ UNCHANGED <<errors, warnings, gag, gaggedWarnings, frames, answer, shown, rerun, status>>

\* An instance of the template exists already and has errors: they are counted
\* again, as gagged ones, whatever gag is.
ReuseFailedInstance ==
    /\ Running /\ errors < MaxErrors
    /\ errors' = errors + 1
    /\ gaggedErrors' = gaggedErrors + 1
    /\ UNCHANGED <<warnings, gag, gaggedWarnings, frames, answer, shown, rerun, status>>

\* A gagged warning or deprecation; the innermost gag scope remembers it.
GagWarning ==
    LET open == {i \in 1..Depth : frames[i].kind \in GagKind}
    IN /\ gag # 0 /\ gaggedWarnings < MaxWarnings
       /\ gaggedWarnings' = gaggedWarnings + 1
       /\ frames' = [i \in 1..Depth |->
                        IF i \in open /\ \A j \in open : j <= i
                        THEN [frames[i] EXCEPT !.warned = TRUE] ELSE frames[i]]
       /\ UNCHANGED <<errors, warnings, gag, gaggedErrors, answer, shown, rerun, status>>

vwarning ==
    /\ Running /\ Warnings # "off"
    /\ \/ /\ gag = 0 /\ Warnings = "error" /\ warnings < MaxWarnings
          /\ warnings' = warnings + 1
          /\ UNCHANGED <<errors, gag, gaggedErrors, gaggedWarnings,
                         frames, answer, shown, rerun, status>>
       \/ GagWarning

vdeprecation ==
    /\ Running
    /\ \/ /\ UseDeprecated = "error"
          /\ verror(gag)
          /\ UNCHANGED <<warnings, gag, gaggedWarnings, frames, answer, rerun>>
       \/ UseDeprecated = "inform" /\ GagWarning

\* "Must not be suppressed": gag is cleared, the error reported, and the
\* interpreter returns to its caller with gag still clear.
CtfeRecursionLimit ==
    /\ CtfeLimitHit /\ Running
    /\ gag' = 0
    /\ verror(0)
    /\ UNCHANGED <<warnings, gaggedWarnings, frames, answer, rerun>>

\* Recursive template expansion or semantic: gag cleared, error, fatal()
RecursiveExpansion ==
    /\ Running /\ errors < MaxErrors
    /\ gag' = 0
    /\ errors' = errors + 1 /\ shown' = shown + 1
    /\ status' = "failed"
    /\ UNCHANGED <<warnings, gaggedErrors, gaggedWarnings, frames, answer, rerun>>

\* The end of main: `if (global.errors || global.warnings) fatal();`
Finish ==
    /\ Running /\ Depth = 0
    /\ status' = IF errors # 0 \/ warnings # 0 THEN "failed" ELSE "succeeded"
    /\ UNCHANGED <<counters, frames, answer, shown, rerun>>

Next == \/ \E k \in GagKind : StartGagging(k)
        \/ EndGagging \/ EndTrySemantic
        \/ \E lift \in BOOLEAN : StartUngag(lift)
        \/ EndUngag
        \/ StartProbe \/ EndProbe
        \/ Error \/ increaseErrorCount \/ ReuseFailedInstance
        \/ vwarning \/ vdeprecation
        \/ CtfeRecursionLimit \/ RecursiveExpansion
        \/ Finish

Spec == Init /\ [][Next]_vars

----------------------------------------------------------------------------
(* Properties *)

\* The counters as the k-th open scope found them; those of now for the last.
GaggedAt(k)   == IF k <= Depth THEN frames[k].gaggedErrors ELSE gaggedErrors
UngaggedAt(k) == IF k <= Depth THEN frames[k].errors - frames[k].gaggedErrors
                               ELSE errors - gaggedErrors

\* What a scope saved is never more than what the scopes inside it saved, and no
\* more than the counters are now: the unsigned subtractions of endGagging
\* (globals.d:320) never wrap, whatever was reported, reused, gagged or ungagged
\* in between, and errors never falls below gaggedErrors.
SavedCountsNest ==
    /\ \A k \in 1..Depth : GaggedAt(k) <= GaggedAt(k + 1) /\ UngaggedAt(k) <= UngaggedAt(k + 1)
    /\ \A k \in 1..Depth+1 : 0 <= GaggedAt(k) /\ 0 <= UngaggedAt(k)

\* "limit the number of error messages (0 means unlimited)" (cli.d:594): although
\* the limit is compared with a count that includes gagged and unprinted errors
\* and that endGagging winds back, no more messages than the limit are printed.
ErrorLimitRespected == ErrorLimit # 0 => shown <= ErrorLimit

\* The compiler does not exit with success if it printed an error message or, with
\* -w, a warning: winding the counters back never hides a printed diagnostic.
SuccessMeansClean == status = "succeeded" => shown = 0 /\ warnings = 0

\* "End gagging, restoring the old gagged state" (globals.d:310): a gag scope
\* leaves gag as it found it, whatever ungagged analysis ran inside it.
EndGaggingRestoresGag ==
    [][\A k \in GagKind : EndGaggingOf(k) => gag' = Top.gag]_vars

\* mtype.d:930: "If `typeSemantic` succeeded, there may have been deprecations that
\* were gagged due the the `startGagging` above.  Run again to display those
\* deprecations": a successful trySemantic that gagged a warning runs again.
GaggedWarningsShown ==
    [][EndTrySemantic /\ ~answer' /\ Top.warned => rerun']_vars

\* The open scopes, the whole compilation being the first, each with the errors
\* counted since it was opened and before the next one was.
Scopes ==
    [k \in 1..Depth+1 |->
       [kind    |-> IF k = 1 THEN "main" ELSE frames[k-1].kind,
        hidden  |-> IF k = 1 THEN GaggedAt(1) ELSE GaggedAt(k) - GaggedAt(k-1),
        visible |-> IF k = 1 THEN UngaggedAt(1) ELSE UngaggedAt(k) - UngaggedAt(k-1)]]

\* Every scope answers for its own errors only: the counters implement the
\* nested scopes of ScopedDiagnostics.
DiagnosticScopes == INSTANCE ScopedDiagnostics WITH scopes <- Scopes

\* The counters of globals.d behave as nested scopes, each answering for itself.
ImplementsScopes == DiagnosticScopes!Spec
=============================================================================
