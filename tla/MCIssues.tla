------------------------------ MODULE MCIssues ------------------------------
(* The instance of Issues for TLC: three kinds in two categories, two of    *)
(* them with one title, and three places, two of which differ in their      *)
(* spelling only and two in their parameter only.                           *)
EXTENDS Issues

Draft(kind, place, severity, confidence, engine, proof) ==
    [kind |-> kind, place |-> place, severity |-> severity, confidence |-> confidence,
     engine |-> engine, proof |-> proof]

CategoryOf(kind) == IF kind = 3 THEN 2 ELSE 1
FoldedPlace(place) == IF place = 2 THEN 1 ELSE place
TitleOf(kind) == IF kind = 3 THEN 2 ELSE 1
EndpointOf(place) == IF place = 2 THEN 2 ELSE 1
MethodOf(place) == 1

\* One proof is only metadata of a scanner, and two differ in their metadata only.
ConciseOf(proof) ==
    CASE proof = "p3" -> "" [] proof = "p5" -> "p2" [] OTHER -> proof

\* One fingerprint in several words, spellings, strengths and from several engines, its
\* kinds elsewhere, and another category at the same place.
SomeDrafts ==
    {Draft(1, 1, "MEDIUM", "HIGH", "custom", "p1"),
     Draft(1, 1, "HIGH", "LOW", "custom", "p2"),
     Draft(1, 2, "HIGH", "LOW", "zap", "p5"),
     Draft(2, 1, "LOW", "MEDIUM", "nuclei", "p3"),
     Draft(1, 3, "LOW", "HIGH", "zap", "p4"),
     Draft(2, 3, "MEDIUM", "HIGH", "zap", "p1"),
     Draft(3, 1, "INFO", "LOW", "specification", "p1")}
=============================================================================
