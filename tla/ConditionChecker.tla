-------------------------- MODULE ConditionChecker --------------------------
(***************************************************************************)
(* The reference ConditionFunc (examples/zts/ordering/conditionchecker.go).*)
(* A guard `when` is [level, status, expr, runtimeInput]; its value is     *)
(* "holds", "fails" or "unknown" (ErrUnresolvedCondition).  observed is    *)
(* the status MarkStatus last recorded for the guard's owner ("none" if    *)
(* it recorded none), overrides and evaluator map expressions to values.   *)
(***************************************************************************)

Unmarked == "none"
Truths == {"holds", "fails", "unknown"}

StatusGate(w, observed) ==
  IF \/ w.status \in {"", "All"}
     \/ w.status = (IF observed = Unmarked THEN "Success" ELSE observed)
  THEN "holds" ELSE "fails"

\* An override wins over the evaluator; without either the expression is
\* unknown.
ExprGate(w, overrides, evaluator) ==
  CASE w.expr = "" -> "holds"
    [] w.expr # "" /\ w.expr \in DOMAIN overrides -> overrides[w.expr]
    [] w.expr # "" /\ w.expr \notin DOMAIN overrides /\ w.expr \in DOMAIN evaluator -> evaluator[w.expr]
    [] OTHER -> "unknown"

Eval(w, observed, overrides, evaluator) ==
  LET gates == {StatusGate(w, observed), ExprGate(w, overrides, evaluator)}
  IN  IF w.runtimeInput THEN "unknown"
      ELSE IF "fails" \in gates THEN "fails"
      ELSE IF "unknown" \in gates THEN "unknown" ELSE "holds"
=============================================================================
