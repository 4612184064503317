------------------------------ MODULE Baseline ------------------------------
(***************************************************************************)
(* The comparison of two lists of findings (report/baseline.py).  Of a     *)
(* finding only the name of its case and its verdict count.                *)
(***************************************************************************)
EXTENDS Naturals, Sequences

NamesOf(findings) == {findings[k].name : k \in DOMAIN findings}

HasDuplicate(findings) ==
    \E j, k \in DOMAIN findings : j # k /\ findings[j].name = findings[k].name

\* Plausible errors: the verdict of the first finding for that of each, and cases
\* that are gone not counted.
FirstVerdict(findings, name) == findings[1].verdict
NoneMissing(base, actual) == {}

\* In a list without duplicates.
VerdictOf(findings, name) ==
    findings[CHOOSE k \in DOMAIN findings : findings[k].name = name].verdict

Missing(base, actual) == NamesOf(base) \ NamesOf(actual)
New(base, actual)     == NamesOf(actual) \ NamesOf(base)
Changed(base, actual) ==
    {n \in NamesOf(base) \cap NamesOf(actual) : VerdictOf(base, n) # VerdictOf(actual, n)}

CompareReports(base, actual) ==
    {<<"missing_case", n>> : n \in Missing(base, actual)}
      \cup {<<"new_case", n>> : n \in New(base, actual)}
      \cup {<<"verdict_changed", n>> : n \in Changed(base, actual)}
=============================================================================
