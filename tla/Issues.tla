------------------------------- MODULE Issues -------------------------------
(***************************************************************************)
(* From the drafts of the engines to the issues of a report:               *)
(* FindingDraft.fingerprint (app/domain.py), correlate_findings            *)
(* (app/correlation/service.py), calculate_risk (app/risk/scoring.py), the *)
(* finding rows of a scan (app/services/orchestrator.py) and the two       *)
(* payloads of ReportGenerator (app/reporting/generator.py).               *)
(*                                                                         *)
(* A draft's wording is its kind, and method, endpoint and parameter are   *)
(* its place; the reports order kinds by their title and places by their   *)
(* endpoint and method only.  A scan that is delivered again correlates    *)
(* the new drafts only, and adds its rows to those of the earlier delivery.*)
(***************************************************************************)
EXTENDS Integers, Sequences, FiniteSets, SequencesExt, FiniteSetsExt

CONSTANTS
    Drafts,       \* what engines may report
    Category(_),  \* the category of a kind
    Folded(_),    \* a place in the normal form of the fingerprint
    Title(_),     \* the title of a kind, by its rank in the alphabet
    Endpoint(_),  \* the endpoint of a place, likewise
    Method(_),    \* the method of a place, likewise
    Concise(_),   \* _pentest_evidence: what the handoff keeps of a proof
    Nothing,      \* what it keeps of a proof it has no use for
    MaxDrafts,    \* bound: drafts of a scan, over all its deliveries
    MaxBatches    \* bound: deliveries of a scan that reach correlation

SeverityRank == [INFO |-> 0, LOW |-> 1, MEDIUM |-> 2, HIGH |-> 3, CRITICAL |-> 4]
ConfidenceRank == [LOW |-> 0, MEDIUM |-> 1, HIGH |-> 2]

Severities == DOMAIN SeverityRank
Confidences == DOMAIN ConfidenceRank

ASSUME DraftsAssumption ==
    \A d \in Drafts :
        /\ DOMAIN d = {"kind", "place", "severity", "confidence", "engine", "proof"}
        /\ Title(d.kind) \in Nat
        /\ Endpoint(d.place) \in Nat /\ Method(d.place) \in Nat
        /\ d.severity \in Severities
        /\ d.confidence \in Confidences

ASSUME BoundsAssumption == MaxDrafts \in Nat /\ MaxBatches \in Nat \ {0}

\* Python orders tuples by the first column in which they differ.
Less(a, b) == \E c \in DOMAIN a : a[c] < b[c] /\ \A d \in 1 .. c - 1 : a[d] = b[d]

\* The elements of I, one after the other in the order of the pairs in before.
InOrder(I, before) ==
    [k \in 1 .. Cardinality(I) |->
        CHOOSE i \in I : Cardinality({j \in I : <<j, i>> \in before}) = k - 1]

\* What seq has at the indices in I.
Only(seq, I) ==
    LET at == InOrder(I, {p \in I \X I : p[1] < p[2]})
    IN [k \in 1 .. Cardinality(I) |-> seq[at[k]]]

\* sorted() by a key: equal elements stay in their order.
Sorted(seq, key) ==
    LET I == DOMAIN seq
        at == InOrder(I, {p \in I \X I : \/ Less(key[p[1]], key[p[2]])
                                         \/ key[p[1]] = key[p[2]] /\ p[1] < p[2]})
    IN [k \in I |-> seq[at[k]]]

\* dict.fromkeys: the first occurrence of every element.
Distinct(seq) == Only(seq, {i \in DOMAIN seq : \A j \in 1 .. i - 1 : seq[j] # seq[i]})

-----------------------------------------------------------------------------
(* Correlation.                                                             *)

Fingerprint(d) == <<Folded(d.place), Category(d.kind)>>

\* The drafts of one fingerprint are a group.
Groups(raw) ==
    LET prints == Distinct([i \in DOMAIN raw |-> Fingerprint(raw[i])])
    IN [g \in DOMAIN prints |->
           Only(raw, {i \in DOMAIN raw : Fingerprint(raw[i]) = prints[g]})]

Strength(d) == 3 * SeverityRank[d.severity] + ConfidenceRank[d.confidence]

\* Mutant: the first draft of the group speaks for it.
RepresentativeFirst(group) == Head(group)

\* max() returns the first of the strongest drafts.
Representative(group) ==
    group[Min({i \in DOMAIN group : \A d \in ToSet(group) : Strength(d) <= Strength(group[i])})]

\* Tenths of a point.
SeverityBase == [INFO |-> 0, LOW |-> 30, MEDIUM |-> 55, HIGH |-> 80, CRITICAL |-> 100]
ConfidencePercent == [LOW |-> 55, MEDIUM |-> 80, HIGH |-> 100]

\* Mutant: the percentage is not one.
RiskUnscaled(severity, confidence) == SeverityBase[severity] * ConfidencePercent[confidence]

\* calculate_risk, rounded to a tenth.
Risk(severity, confidence) ==
    (SeverityBase[severity] * ConfidencePercent[confidence] + 50) \div 100

\* The finding row of a group.
Finding(group) ==
    LET best == Representative(group)
        engines == {d.engine : d \in ToSet(group)}
        confidence == IF Cardinality(engines) >= 2 THEN "HIGH" ELSE best.confidence
    IN [kind |-> best.kind, place |-> best.place, severity |-> best.severity,
        confidence |-> confidence, risk |-> Risk(best.severity, confidence),
        engines |-> engines,
        evidence |-> [i \in DOMAIN group |-> group[i].proof]]

correlate_findings(raw) ==
    LET groups == Groups(raw)
        output == [g \in DOMAIN groups |-> Finding(groups[g])]
    IN Sorted(output, [g \in DOMAIN output |-> <<- SeverityRank[output[g].severity]>>])

-----------------------------------------------------------------------------
(* The reports.                                                             *)

\* payload: the worst findings first.
TechnicalFindings(findings) ==
    Sorted(findings, [i \in DOMAIN findings |->
                         <<- SeverityRank[findings[i].severity], - findings[i].risk,
                           Title(findings[i].kind), Endpoint(findings[i].place)>>])

\* _best
Better(Rank, value, candidate) ==
    IF Rank[candidate] > Rank[value] THEN candidate ELSE value

NewIssue(f) ==
    [kind |-> f.kind, severity |-> f.severity, confidence |-> f.confidence,
     risk |-> f.risk, engines |-> f.engines, locations |-> << >>]

\* Mutant: the group keeps what its first finding said.
MergeFirst(issue, f) == [issue EXCEPT !.engines = @ \union f.engines]

\* Mutant: the confidence stays that of the worst finding.
MergeConfidenceKept(issue, f) ==
    [issue EXCEPT !.severity = Better(SeverityRank, @, f.severity),
                  !.risk = IF f.risk > @ THEN f.risk ELSE @,
                  !.engines = @ \union f.engines]

\* A further finding of the same kind: each column is raised on its own.
Merge(issue, f) ==
    [issue EXCEPT !.severity = Better(SeverityRank, @, f.severity),
                  !.confidence = Better(ConfidenceRank, @, f.confidence),
                  !.risk = IF f.risk > @ THEN f.risk ELSE @,
                  !.engines = @ \union f.engines]

\* The evidence of a finding as the handoff words it.
Shown(f) == [i \in DOMAIN f.evidence |-> Concise(f.evidence[i])]

\* At most three different examples, and none that is empty.
Examples(concise) ==
    LET all == Distinct(Only(concise, {i \in DOMAIN concise : concise[i] # Nothing}))
    IN SubSeq(all, 1, IF Len(all) < 3 THEN Len(all) ELSE 3)

\* Mutant: every finding adds a location.
LocateAlways(locations, f) ==
    Append(locations, [place |-> f.place, evidence |-> Examples(Shown(f))])

\* The location of a finding in its issue.
Locate(locations, f) ==
    LET known == {i \in DOMAIN locations : locations[i].place = f.place}
    IN IF known = {}
       THEN Append(locations, [place |-> f.place, evidence |-> Examples(Shown(f))])
       ELSE [locations EXCEPT ![Min(known)].evidence = Examples(@ \o Shown(f))]

\* One turn of the loop of pentest_payload.
Add(groups, f) ==
    LET known == {i \in DOMAIN groups : groups[i].kind = f.kind}
        i == IF known = {} THEN Len(groups) + 1 ELSE Min(known)
        merged == IF known = {} THEN NewIssue(f) ELSE Merge(groups[i], f)
        located == [merged EXCEPT !.locations = Locate(@, f)]
    IN IF known = {} THEN Append(groups, located) ELSE [groups EXCEPT ![i] = located]

\* The groups after the first n findings are grouped[n].
Grouped(findings) ==
    LET grouped[n \in 0 .. Len(findings)] ==
            IF n = 0 THEN << >> ELSE Add(grouped[n - 1], findings[n])
    IN grouped[Len(findings)]

ByPlace(locations) ==
    Sorted(locations, [i \in DOMAIN locations |-> <<Endpoint(locations[i].place),
                                                    Method(locations[i].place)>>])

\* The order of the issues gives them their identifiers.
pentest_payload(findings) ==
    LET groups == Grouped(findings)
        sorted == Sorted(groups, [i \in DOMAIN groups |->
                                     <<- SeverityRank[groups[i].severity],
                                       - groups[i].risk, Title(groups[i].kind)>>])
    IN [i \in DOMAIN sorted |-> [sorted[i] EXCEPT !.locations = ByPlace(@)]]

-----------------------------------------------------------------------------
(* One scan.                                                                *)

VARIABLES
    raw,      \* raw_findings of the delivery under way
    batches,  \* the raw_findings of the deliveries that were correlated
    rows,     \* the findings rows of the scan
    issues,   \* those of the last report
    stage     \* "scanning", "reporting" or "reported"

vars == <<raw, batches, rows, issues, stage>>

TypeOK ==
    /\ raw \in Seq(Drafts)
    /\ batches \in Seq(Seq(Drafts))
    /\ \A f \in ToSet(rows) : /\ f.severity \in Severities /\ f.confidence \in Confidences
                              /\ f.risk \in 0 .. 100 /\ Len(f.evidence) \in Nat \ {0}
    /\ \A x \in ToSet(issues) : \A l \in ToSet(x.locations) : Len(l.evidence) \in 0 .. 3
    /\ stage \in {"scanning", "reporting", "reported"}

Init ==
    /\ raw = << >>
    /\ batches = << >>
    /\ rows = << >>
    /\ issues = << >>
    /\ stage = "scanning"

\* raw_findings.extend with what an engine, or analyze_specification, found.
Report(d) ==
    /\ stage = "scanning"
    /\ Len(raw) + Len(FlattenSeq(batches)) < MaxDrafts
    /\ raw' = Append(raw, d)
    /\ UNCHANGED <<batches, rows, issues, stage>>

SaveFindings ==
    /\ stage = "scanning"
    /\ rows' = rows \o correlate_findings(raw)
    /\ batches' = Append(batches, raw)
    /\ stage' = "reporting"
    /\ UNCHANGED <<raw, issues>>

\* The SELECT of the findings names no order, nor does that of their evidence.
Shuffles(seq) ==
    {[k \in DOMAIN seq |-> seq[at[k]]] : at \in Bijection(DOMAIN seq, DOMAIN seq)}

Loads(f) == {[f EXCEPT !.evidence = seq] : seq \in Shuffles(f.evidence)}

Read(seq) ==
    LET loaded == {found \in [DOMAIN seq -> UNION {Loads(f) : f \in ToSet(seq)}] :
                      \A k \in DOMAIN seq : found[k] \in Loads(seq[k])}
    IN UNION {Shuffles(found) : found \in loaded}

WriteReports ==
    /\ stage = "reporting"
    /\ \E findings \in Read(rows) : issues' = pentest_payload(TechnicalFindings(findings))
    /\ stage' = "reported"
    /\ UNCHANGED <<raw, batches, rows>>

\* The scan is delivered again, after its reports or before them.
Redeliver ==
    /\ stage # "scanning"
    /\ Len(batches) < MaxBatches
    /\ raw' = << >>
    /\ stage' = "scanning"
    /\ UNCHANGED <<batches, rows, issues>>

Finished ==
    /\ stage = "reported"
    /\ UNCHANGED vars

Next ==
    \/ \E d \in Drafts : Report(d)
    \/ SaveFindings
    \/ WriteReports
    \/ Redeliver
    \/ Finished

Spec == Init /\ [][Next]_vars

-----------------------------------------------------------------------------

\* docs/ARCHITECTURE.md, "Matching drafts become one finding; all evidence and source
\* engines remain attached": in a batch, the drafts of one fingerprint have one row, at
\* least as severe as each of them, with all their engines and proofs.
NothingLost ==
    stage = "reporting" =>
        LET found == correlate_findings(Last(batches)) IN
        \A d \in ToSet(Last(batches)) :
            \E i \in DOMAIN found :
                /\ {j \in DOMAIN found : Fingerprint(found[j]) = Fingerprint(d)} = {i}
                /\ SeverityRank[found[i].severity] >= SeverityRank[d.severity]
                /\ d.engine \in found[i].engines
                /\ d.proof \in ToSet(found[i].evidence)
                /\ found[i] \in ToSet(rows)

\* Every finding row of every delivery is in the report: in the one issue of its kind, at
\* its own location, which is listed once, and shown no less severe, less certain or
\* less risky than it is (pentest_payload).
RowsAreReported ==
    stage = "reported" =>
        \A f \in ToSet(rows) :
            \E i \in DOMAIN issues :
                /\ {j \in DOMAIN issues : issues[j].kind = f.kind} = {i}
                /\ \E l \in DOMAIN issues[i].locations :
                     {m \in DOMAIN issues[i].locations :
                         issues[i].locations[m].place = f.place} = {l}
                /\ SeverityRank[issues[i].severity] >= SeverityRank[f.severity]
                /\ ConfidenceRank[issues[i].confidence] >= ConfidenceRank[f.confidence]
                /\ issues[i].risk >= f.risk
                /\ f.engines \subseteq issues[i].engines

\* The risk of an issue is that of one of its findings, and never more than its severity
\* and confidence, which may come from two others, stand for.
RiskIsBacked ==
    \A x \in ToSet(issues) :
        /\ \E f \in ToSet(rows) : f.kind = x.kind /\ f.risk = x.risk
        /\ x.risk <= Risk(x.severity, x.confidence)

\* What an issue says, but for its number and its choice and order of examples.
Said(x) ==
    [kind |-> x.kind, severity |-> x.severity, confidence |-> x.confidence, risk |-> x.risk,
     engines |-> x.engines, places |-> {l.place : l \in ToSet(x.locations)},
     listed |-> Len(x.locations)]

\* A second delivery that finds the same again doubles the rows and changes no issue: the
\* report has as many, each of the same severity, confidence, risk and engines, and with
\* the same places, as often (pentest_payload).  The identifiers of issues of one severity,
\* risk and title, the order of locations that differ in their parameter only, and the
\* examples, where there are more than three, may change: nothing orders the SELECTs
\* (orchestrator.py:272).  Whatever the delivery finds, what was reported is still reported.
RedeliveryKeepsIssues ==
    [][stage = "reporting" /\ stage' = "reported" /\ issues # << >> =>
         /\ (\A batch \in ToSet(batches) : batch = Head(batches)) =>
               /\ Len(issues') = Len(issues)
               /\ {Said(x) : x \in ToSet(issues')} = {Said(x) : x \in ToSet(issues)}
         /\ \A old \in ToSet(issues) : \E new \in ToSet(issues') :
              /\ new.kind = old.kind
              /\ {l.place : l \in ToSet(old.locations)}
                   \subseteq {l.place : l \in ToSet(new.locations)}
              /\ SeverityRank[new.severity] >= SeverityRank[old.severity]]_vars
=============================================================================
