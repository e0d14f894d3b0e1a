------------------------- MODULE OrderingGateProofs -------------------------
(***************************************************************************)
(* Lemmas about the verdict on a gate, for the proofs of the components    *)
(* that decide by it.                                                      *)
(***************************************************************************)
EXTENDS GateOrder, TLAPS

\* More recorded runs never turn an allowed step into a denied one: under
\* AND fewer needs are missing, under OR the join stays satisfied.
LEMMA AllowedMonotone ==
  ASSUME NEW g, NEW R, NEW S, NEW failOpen, R \subseteq S, Allowed(g, R, {}, failOpen)
  PROVE  Allowed(g, S, {}, failOpen)
<1>1. Satisfied(g, R) => Satisfied(g, S)
  BY DEF Satisfied
<1>2. RunViolations(g, S, {}) \subseteq RunViolations(g, R, {})
  BY <1>1 DEF RunViolations
<1>. QED
  BY <1>2 DEF Allowed

\* Only what the step needs matters of what was recorded.
LEMMA AllowedOnNeeds ==
  ASSUME NEW g, NEW R, NEW failOpen, Allowed(g, R, {}, failOpen)
  PROVE  Allowed(g, g.needs \cap R, {}, failOpen)
<1>1. g.needs \cap (g.needs \cap R) = g.needs \cap R
  OBVIOUS
<1>2. g.needs \ ((g.needs \cap R) \cup {}) = g.needs \ (R \cup {})
  OBVIOUS
<1>. QED
  BY <1>1, <1>2 DEF Allowed, RunViolations, Satisfied

\* A step is admitted by every record of what admits it, and of more.
LEMMA AdmittedByRecords ==
  ASSUME NEW gates, NEW failOpen, NEW f, NEW S, NEW ran,
         Admits(gates, f, S, failOpen), gates[f].outcome = "evaluated",
         gates[f].needs \cap RecordsOf(gates, S) \subseteq ran
  PROVE  Allowed(gates[f], ran, {}, failOpen)
  BY AllowedMonotone DEF Admits
=============================================================================
