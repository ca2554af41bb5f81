----------------------------- MODULE MCRuleFile -----------------------------
(***************************************************************************)
(* RuleFile with two rules and one content of every kind that reload tells *)
(* apart.                                                                  *)
(***************************************************************************)
EXTENDS RuleFile, FiniteSets

CONSTANTS r1, r2

Of(form, rule) == [form |-> form, rule |-> rule]

\* A canonical line, with its type, takes twice as much as any other, and a file
\* may have three.
Bytes(content) == Cardinality(content) + Cardinality({l \in content : l.form = "canonical"})

MCOversized == {content \in SUBSET Line : Bytes(content) > 3}

MCSaves ==
    { {},                                                       \* empty
      {Of("canonical", r1)},                                    \* sanitized
      {Of("spelled", r2), Of("invalid", r1)},                   \* partly valid
      {Of("spelled", r1), Of("spelled", r2)},                   \* sanitized, oversized
      {Of("canonical", r2), Of("spelled", r1), Of("comment", r1)},  \* oversized
      {Of("comment", r1)},                                      \* blank
      {Of("invalid", r1), Of("comment", r1)},                   \* all invalid
      Absent }
=============================================================================
