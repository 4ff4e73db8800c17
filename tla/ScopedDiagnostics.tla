------------------------- MODULE ScopedDiagnostics -------------------------
(***************************************************************************)
(* What the diagnostics of the compiler promise to semantic analysis,      *)
(* independently of how `struct Global` (globals.d) keeps its counters.    *)
(*                                                                         *)
(* Analysis runs in nested scopes.  Every error counted belongs to the     *)
(* innermost open scope, either hidden (counted while gagged) or visible.  *)
(*   - Closing a "gag" scope tells whether it has hidden errors of its     *)
(*     own, forgets them, and hands its visible ones to the parent scope.  *)
(*   - Closing a "probe" (the `errorsave != global.errors` idiom) tells    *)
(*     whether it counted any error at all, and hands them all on.         *)
(*   - Closing an "ungag" scope hands everything on.                       *)
(* A scope never sees, hides or answers for an error of another one, and a *)
(* compilation in which any error is left over does not succeed.           *)
(***************************************************************************)
EXTENDS Integers, Sequences

VARIABLES scopes, answer, status

vars == <<scopes, answer, status>>

Kind   == {"main", "gag", "try", "ungag", "probe"}
Scope  == [kind : Kind, hidden : Nat, visible : Nat]
Status == {"running", "failed", "succeeded"}

New(k) == [kind |-> k, hidden |-> 0, visible |-> 0]
Top    == scopes[Len(scopes)]
Parent == scopes[Len(scopes) - 1]

TypeOK == /\ scopes \in Seq(Scope)
          /\ answer \in BOOLEAN
          /\ status \in Status

Init == /\ scopes = <<New("main")>>
        /\ answer = FALSE
        /\ status = "running"

Running == status = "running"

Open(k) == /\ Running
           /\ scopes' = Append(scopes, New(k))
           /\ UNCHANGED <<answer, status>>

\* An error is counted in the innermost scope; a visible one may end the
\* compilation (error limit, fatal error).
ReportHidden ==
    /\ Running
    /\ scopes' = [scopes EXCEPT ![Len(scopes)].hidden = @ + 1]
    /\ UNCHANGED <<answer, status>>

ReportVisible ==
    /\ Running
    /\ scopes' = [scopes EXCEPT ![Len(scopes)].visible = @ + 1]
    /\ status' \in {"running", "failed"}
    /\ UNCHANGED answer

\* Drop the innermost scope; its parent receives h hidden and v visible errors.
Close(h, v) ==
    /\ Running
    /\ Len(scopes) > 1
    /\ scopes' = [SubSeq(scopes, 1, Len(scopes) - 1) EXCEPT
                      ![Len(scopes) - 1].hidden  = @ + h,
                      ![Len(scopes) - 1].visible = @ + v]
    /\ UNCHANGED status

CloseGag == /\ Top.kind \in {"gag", "try"}
            /\ Close(0, Top.visible)
            /\ answer' = (Top.hidden > 0)

CloseProbe == /\ Top.kind = "probe"
              /\ Close(Top.hidden, Top.visible)
              /\ answer' = (Top.hidden + Top.visible > 0)

CloseUngag == /\ Top.kind = "ungag"
              /\ Close(Top.hidden, Top.visible)
              /\ UNCHANGED answer

\* The compilation ends: never successfully with an error left over.
Finish == /\ Running
          /\ Len(scopes) = 1
          /\ status' \in {"failed", "succeeded"}
          /\ (Top.hidden + Top.visible > 0) => status' = "failed"
          /\ UNCHANGED <<scopes, answer>>

Next == \/ \E k \in Kind \ {"main"} : Open(k)
        \/ ReportHidden \/ ReportVisible
        \/ CloseGag \/ CloseProbe \/ CloseUngag
        \/ Finish

Spec == Init /\ [][Next]_vars
=============================================================================
