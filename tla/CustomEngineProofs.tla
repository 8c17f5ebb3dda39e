------------------------- MODULE CustomEngineProofs -------------------------
(***************************************************************************)
(* What the rows of the custom engine say, proved for every inventory,     *)
(* every list of active checks and every budget.  The rows of an endpoint  *)
(* are a part of one fixed order of its checks, as long as its test has    *)
(* come; where a row claims an attempt, the attempt was answered; and the  *)
(* rows together claim no more attempts than the budget has granted.       *)
(***************************************************************************)
EXTENDS CustomEngine, FiniteSetTheorems, WellFoundedInduction, SequenceTheorems, TLAPS

-----------------------------------------------------------------------------
(* The invariant.                                                           *)

First == <<"insecure-transport", "baseline">> \o Passive

\* The order in which _test_endpoint leaves its rows.
Order == First \o Active

\* The first n rows.
Ordered(rows, n) == Len(rows) = n /\ \A i \in 1 .. n : rows[i].check = Order[i]

\* How many rows a test has when it is at pc.
Come(pc) ==
    CASE pc \in {"queued", "raised"} -> 0
      [] pc = "baseline" -> 1
      [] pc = "cors" -> 4
      [] pc = "unauthenticated" -> 5
      [] pc = "active" -> 6
      [] pc = "done" -> 6 + Len(Active)

NotAttempted == {"SKIPPED", "ERROR"}

\* A row for each of the active checks.
ActiveRows(rows) ==
    /\ Len(rows) = Len(Active)
    /\ \A i \in DOMAIN Active : rows[i].check = Active[i]

\* The mutations of e within the limit of the profile.
Due(e) == {m \in (DOMAIN Active) \X (DOMAIN Inventory[e].points) :
             m[2] \in Limited(e, Active[m[1]])}

\* Each of them is to come, has been answered, or is missed in the row of its check; the
\* rows of the active checks follow the first "skip" rows.
Accounted(e, work, rows, skip, hit) ==
    \A m \in Due(e) :
        \/ m \in work
        \/ <<e, Active[m[1]], m[2]>> \in hit
        \/ rows[skip + m[1]].status \in NotAttempted

\* What the rows claim for a baseline was heard.
Heard(e, rows, seen) ==
    Len(rows) > 1 /\ rows[2].status = "TESTED" => e \in seen

Fits(e, state, seen, hit) ==
    /\ Ordered(state.rows, Come(state.pc))
    /\ Heard(e, state.rows, seen)
    /\ state.pc = "active" =>
         /\ state.work # {}
         /\ ActiveRows(state.activeRows)
         /\ Accounted(e, state.work, state.activeRows, 0, hit)
    /\ state.pc = "done" => Accounted(e, {}, state.rows, 6, hit)

\* The comparisons made so far.
Compared(e, rows) ==
    /\ Len(rows) <= Len(Authorization)
    /\ \A i \in DOMAIN rows :
         /\ rows[i].check = Authorization[i]
         /\ Candidate(e, Authorization[i]) =>
              rows[i] = Row(Authorization[i], "TESTED", 2) \/ rows[i].status \in NotAttempted

Over == phase = "finished" => Ended = Endpoints /\ Uncompared = {}

RowsInv ==
    /\ TypeOK
    /\ \A e \in Endpoints : Fits(e, test[e], answered, mutated) /\ Compared(e, authRows[e])
    /\ Over

-----------------------------------------------------------------------------
(* Minima: the next endpoint and the next mutation exist.                   *)

LEMMA Minimum ==
    ASSUME NEW T \in SUBSET Nat, T # {}
    PROVE  \E x \in T : \A y \in T : x <= y
<1> DEFINE below(n) == 0 .. n
           segments == {below(n) : n \in T}
           smaller == StrictSubsetOrdering(Nat)
<1>1. IsWellFoundedOn(smaller, FiniteSubsetsOf(Nat))
  BY FS_StrictSubsetOrderingWellFounded
<1>2. \A n \in Nat : below(n) \subseteq Nat /\ below(n) \in FiniteSubsetsOf(Nat)
  BY FS_Interval DEF FiniteSubsetsOf
<1>3. segments \subseteq FiniteSubsetsOf(Nat) /\ segments # {}
  BY <1>2
<1>4. PICK s \in segments : \A t \in segments : ~ (<<t, s>> \in smaller)
  BY <1>1, <1>3, WFMin
<1>5. PICK x \in T : s = below(x)
  OBVIOUS
<1>6. ASSUME NEW y \in T, y < x PROVE FALSE
  <2>1. below(y) \subseteq below(x) /\ x \in below(x) /\ x \notin below(y)
    BY <1>6
  <2>2. <<below(y), below(x)>> \in smaller
    BY <1>2, <2>1 DEF StrictSubsetOrdering
  <2> QED
    BY <1>4, <1>5, <2>2
<1> QED
  BY <1>6

LEMMA UpcomingComes ==
    ASSUME NEW e, test[e].work \subseteq (DOMAIN Active) \X Nat, test[e].work # {}
    PROVE  Upcoming(e) \in test[e].work
<1> DEFINE work == test[e].work
           checks == {m[1] : m \in work}
<1>1. DOMAIN Active \subseteq Nat
  BY ParametersAssumption
<1>2. checks \in SUBSET Nat /\ checks # {}
  BY <1>1
<1>3. PICK i \in checks : \A j \in checks : i <= j
  BY <1>2, Minimum
<1> DEFINE points == {m[2] : m \in {n \in work : n[1] = i}}
<1>4. points \in SUBSET Nat /\ points # {}
  BY <1>3
<1>5. PICK p \in points : \A q \in points : p <= q
  BY <1>4, Minimum
<1>6. PICK m \in work : m[1] = i /\ m[2] = p
  BY <1>5
<1>7. \A n \in work : m[1] < n[1] \/ (m[1] = n[1] /\ m[2] <= n[2])
  <2> SUFFICES ASSUME NEW n \in work PROVE m[1] < n[1] \/ (m[1] = n[1] /\ m[2] <= n[2])
    OBVIOUS
  <2>1. i \in Nat /\ n[1] \in Nat /\ i <= n[1]
    BY <1>2, <1>3
  <2>2. n[1] = i => p <= n[2]
    BY <1>5
  <2> QED
    BY <1>6, <2>1, <2>2
<1> QED
  BY <1>7 DEF Upcoming

LEMMA NextComparison ==
    ASSUME NEW S \in SUBSET Endpoints, S # {}
    PROVE  (CHOOSE d \in S : \A c \in S : d <= c) \in S
<1>1. Endpoints \subseteq Nat
  BY ParametersAssumption DEF Endpoints
<1>2. \E d \in S : \A c \in S : d <= c
  BY <1>1, Minimum
<1> QED
  BY <1>2

-----------------------------------------------------------------------------
(* The constants, and the rows that do not depend on the course of a test.  *)

\* A function on an interval is a sequence.
LEMMA Listed ==
    ASSUME NEW S, NEW n \in Nat, NEW f \in [1 .. n -> S]
    PROVE  f \in Seq(S) /\ Len(f) = n
<1>1. f \in Seq(S)
  BY SeqDef
<1> QED
  BY <1>1, LenProperties

LEMMA Constants ==
    /\ Len(Active) \in Nat /\ DOMAIN Active = 1 .. Len(Active)
    /\ \A i \in DOMAIN Active : Active[i] \in Checks
    /\ Active \in Seq(Checks)
    /\ Endpoints \subseteq Nat
    /\ \A e \in Endpoints : /\ Inventory[e].auth \in BOOLEAN
                             /\ DOMAIN Inventory[e].points \subseteq Nat
<1>1. /\ Len(Active) \in Nat /\ DOMAIN Active = 1 .. Len(Active)
      /\ Active \in [1 .. Len(Active) -> STRING]
  BY ParametersAssumption, LenProperties
<1>2. \A i \in DOMAIN Active : Active[i] \in Checks
  BY DEF Checks, ToSet
<1>3. Active \in Seq(Checks)
  <2>1. Active \in [1 .. Len(Active) -> Checks]
    BY <1>1, <1>2
  <2> QED
    BY <1>1, <2>1, Listed
<1> DEFINE Points_ == SUBSET ToSet(Active)
           Operation == [method : {"GET", "HEAD", "OPTIONS", "POST"}, auth : BOOLEAN,
                         parameter : BOOLEAN, admin : BOOLEAN, points : Seq(Points_)]
<1>4. Inventory \in Seq(Operation)
  BY ParametersAssumption
<1> HIDE DEF Points_
<1>5. \A o \in Operation : o.auth \in BOOLEAN /\ o.points \in Seq(Points_)
  OBVIOUS
<1> HIDE DEF Operation
<1>6. /\ Endpoints \subseteq Nat
      /\ \A e \in Endpoints : Inventory[e] \in Operation
  BY <1>4, LenProperties, ElementOfSeq DEF Endpoints
<1>7. \A e \in Endpoints : DOMAIN Inventory[e].points \subseteq Nat
  <2> TAKE e \in Endpoints
  <2>1. Inventory[e].points \in Seq(Points_)
    BY <1>5, <1>6
  <2>2. DOMAIN Inventory[e].points = 1 .. Len(Inventory[e].points)
        /\ Len(Inventory[e].points) \in Nat
    BY <2>1, LenProperties
  <2> QED
    BY <2>2
<1> QED
  BY <1>1, <1>2, <1>3, <1>5, <1>6, <1>7

LEMMA Passives ==
    /\ Passive \in Seq(Checks) /\ Len(Passive) = 4 /\ DOMAIN Passive = 1 .. 4
    /\ Passive[1] = "security-headers" /\ Passive[2] = "excessive-data-exposure"
    /\ Passive[3] = "cors-misconfiguration" /\ Passive[4] = "missing-authentication"
    /\ \A i \in 1 .. 4 : Passive[i] \in Checks
<1>1. /\ Len(Passive) = 4 /\ DOMAIN Passive = 1 .. 4
      /\ Passive[1] = "security-headers" /\ Passive[2] = "excessive-data-exposure"
      /\ Passive[3] = "cors-misconfiguration" /\ Passive[4] = "missing-authentication"
      /\ Passive = [i \in 1 .. 4 |-> Passive[i]]
  BY DEF Passive
<1>2. \A i \in 1 .. 4 : Passive[i] \in Checks
  BY <1>1 DEF Checks, ToSet
<1>3. Passive \in [1 .. 4 -> Checks]
  BY <1>1, <1>2
<1> QED
  BY <1>1, <1>2, <1>3, Listed

LEMMA Orders ==
    /\ Order \in Seq(Checks) /\ Len(Order) = 6 + Len(Active)
    /\ Order[1] = "insecure-transport" /\ Order[2] = "baseline"
    /\ \A i \in 1 .. 4 : Order[2 + i] = Passive[i]
    /\ \A i \in DOMAIN Active : Order[6 + i] = Active[i]
<1> DEFINE head == <<"insecure-transport", "baseline">>
<1>1. head \in Seq(Checks) /\ Len(head) = 2
      /\ head[1] = "insecure-transport" /\ head[2] = "baseline"
  <2>1. /\ head = [i \in 1 .. 2 |-> head[i]]
        /\ head[1] = "insecure-transport" /\ head[2] = "baseline"
    OBVIOUS
  <2>2. "insecure-transport" \in Checks /\ "baseline" \in Checks
    BY DEF Checks
  <2> HIDE DEF head
  <2>3. \A i \in 1 .. 2 : head[i] \in Checks
    BY <2>1, <2>2
  <2>4. head \in [1 .. 2 -> Checks]
    BY <2>1, <2>3
  <2> QED
    BY <2>1, <2>4, Listed
<1> HIDE DEF head
<1>2. /\ First \in Seq(Checks) /\ Len(First) = 6
      /\ \A i \in 1 .. 6 : First[i] = IF i <= 2 THEN head[i] ELSE Passive[i - 2]
  <2>1. First = head \o Passive
    BY DEF First, head
  <2>2. Passive \in Seq(Checks) /\ Len(Passive) = 4
    BY Passives
  <2>3. /\ head \o Passive \in Seq(Checks)
        /\ Len(head \o Passive) = Len(head) + Len(Passive)
        /\ \A i \in 1 .. Len(head) + Len(Passive) :
             (head \o Passive)[i] = IF i <= Len(head) THEN head[i] ELSE Passive[i - Len(head)]
    BY <1>1, <2>2, ConcatProperties
  <2> QED
    BY <1>1, <2>1, <2>2, <2>3
<1>4. /\ Order \in Seq(Checks) /\ Len(Order) = 6 + Len(Active)
      /\ \A i \in 1 .. 6 + Len(Active) : Order[i] = IF i <= 6 THEN First[i] ELSE Active[i - 6]
  <2>1. Active \in Seq(Checks) /\ Len(Active) \in Nat
    BY Constants
  <2>2. /\ First \o Active \in Seq(Checks)
        /\ Len(First \o Active) = Len(First) + Len(Active)
        /\ \A i \in 1 .. Len(First) + Len(Active) :
             (First \o Active)[i] = IF i <= Len(First) THEN First[i] ELSE Active[i - Len(First)]
    BY <1>2, <2>1, ConcatProperties
  <2> QED
    BY <1>2, <2>1, <2>2 DEF Order
<1>5. \A i \in 1 .. 4 : Order[2 + i] = Passive[i]
  <2> TAKE i \in 1 .. 4
  <2>1. 2 + i \in 1 .. 6 + Len(Active) /\ 2 + i \in 1 .. 6 /\ (2 + i) - 2 = i /\ ~ (2 + i <= 2)
    BY Constants
  <2> QED
    BY <1>2, <1>4, <2>1
<1>6. \A i \in DOMAIN Active : Order[6 + i] = Active[i]
  <2> TAKE i \in DOMAIN Active
  <2>1. 6 + i \in 1 .. 6 + Len(Active) /\ (6 + i) - 6 = i /\ ~ (6 + i <= 6)
    BY Constants
  <2> QED
    BY <1>4, <2>1
<1>7. Order[1] = "insecure-transport" /\ Order[2] = "baseline"
  <2>1. 1 \in 1 .. 6 + Len(Active) /\ 2 \in 1 .. 6 + Len(Active)
    BY Constants
  <2> QED
    BY <1>1, <1>2, <1>4, <2>1
<1> QED
  BY <1>4, <1>5, <1>6, <1>7

LEMMA RowFields ==
    ASSUME NEW check \in Checks \union ToSet(Authorization),
           NEW status \in {"TESTED", "SKIPPED", "ERROR", "NOT_APPLICABLE"}, NEW requests \in Nat
    PROVE  /\ Row(check, status, requests) \in Rows
           /\ Row(check, status, requests).check = check
           /\ Row(check, status, requests).status = status
BY DEF Row, Rows

\* Rows that follow others.
LEMMA Joined ==
    ASSUME NEW rows \in Seq(Rows), NEW more \in Seq(Rows), NEW n \in Nat, Ordered(rows, n),
           \A i \in 1 .. Len(more) : more[i].check = Order[n + i]
    PROVE  /\ rows \o more \in Seq(Rows)
           /\ Ordered(rows \o more, n + Len(more))
           /\ \A i \in 1 .. n : (rows \o more)[i] = rows[i]
           /\ \A i \in 1 .. Len(more) : (rows \o more)[n + i] = more[i]
<1>1. /\ rows \o more \in Seq(Rows) /\ Len(rows) = n /\ Len(more) \in Nat
      /\ Len(rows \o more) = n + Len(more)
      /\ \A i \in 1 .. n + Len(more) :
           (rows \o more)[i] = IF i <= n THEN rows[i] ELSE more[i - n]
  BY ConcatProperties, LenProperties DEF Ordered
<1>2. \A i \in 1 .. n : (rows \o more)[i] = rows[i]
  BY <1>1
<1>3. \A i \in 1 .. Len(more) : (rows \o more)[n + i] = more[i]
  <2> TAKE i \in 1 .. Len(more)
  <2>1. n + i \in 1 .. n + Len(more) /\ ~ (n + i <= n) /\ (n + i) - n = i
    BY <1>1
  <2> QED
    BY <1>1, <2>1
<1>4. ASSUME NEW i \in 1 .. n + Len(more) PROVE (rows \o more)[i].check = Order[i]
  <2>1. CASE i <= n
    BY <1>2, <2>1, <1>1 DEF Ordered
  <2>2. CASE ~ (i <= n)
    <3>1. i - n \in 1 .. Len(more) /\ n + (i - n) = i
      BY <1>1, <2>2
    <3> QED
      BY <1>3, <3>1
  <2> QED
    BY <2>1, <2>2
<1> QED
  BY <1>1, <1>2, <1>3, <1>4 DEF Ordered

LEMMA Appended ==
    ASSUME NEW rows \in Seq(Rows), NEW row \in Rows, NEW n \in Nat, Ordered(rows, n),
           row.check = Order[n + 1]
    PROVE  /\ Append(rows, row) \in Seq(Rows)
           /\ Ordered(Append(rows, row), n + 1)
           /\ \A i \in 1 .. n : Append(rows, row)[i] = rows[i]
           /\ Append(rows, row)[n + 1] = row
<1>1. /\ Append(rows, row) \in Seq(Rows) /\ Len(rows) = n
      /\ Len(Append(rows, row)) = n + 1
      /\ \A i \in 1 .. n : Append(rows, row)[i] = rows[i]
      /\ Append(rows, row)[n + 1] = row
  BY AppendProperties DEF Ordered
<1>2. \A i \in 1 .. n + 1 : Append(rows, row)[i].check = Order[i]
  BY <1>1 DEF Ordered
<1> QED
  BY <1>1, <1>2 DEF Ordered

LEMMA NoRows == << >> \in Seq(Rows) /\ Len(<< >>) = 0
BY EmptySeq

LEMMA Single ==
    ASSUME NEW row \in Rows
    PROVE  <<row>> \in Seq(Rows) /\ Len(<<row>>) = 1 /\ <<row>>[1] = row
OBVIOUS

\* The rows that stand for the active checks, whatever happens.
ErrorRows == [i \in DOMAIN Active |-> Row(Active[i], "ERROR", 0)]

LEMMA MadeForActive ==
    ASSUME NEW status, \A i \in DOMAIN Active :
             status[i] \in {"TESTED", "SKIPPED", "ERROR", "NOT_APPLICABLE"}
    PROVE  LET rows == [i \in DOMAIN Active |-> Row(Active[i], status[i], 0)]
           IN /\ rows \in Seq(Rows) /\ ActiveRows(rows)
              /\ \A i \in DOMAIN Active : rows[i].status = status[i]
<1> DEFINE rows == [i \in DOMAIN Active |-> Row(Active[i], status[i], 0)]
<1>1. DOMAIN Active = 1 .. Len(Active) /\ Len(Active) \in Nat
  BY Constants
<1>2. \A i \in DOMAIN Active : /\ Row(Active[i], status[i], 0) \in Rows
                               /\ Row(Active[i], status[i], 0).check = Active[i]
                               /\ Row(Active[i], status[i], 0).status = status[i]
  <2> TAKE i \in DOMAIN Active
  <2>1. Active[i] \in Checks \union ToSet(Authorization) /\ 0 \in Nat
    BY Constants
  <2> QED
    BY <2>1, RowFields
<1>3. rows \in [1 .. Len(Active) -> Rows]
  BY <1>1, <1>2
<1>4. rows \in Seq(Rows) /\ Len(rows) = Len(Active)
  BY <1>1, <1>3, Listed
<1> QED
  BY <1>2, <1>4 DEF ActiveRows

LEMMA StaticRows ==
    ASSUME NEW e, NEW hit
    PROVE  /\ SkippedRows(e) \in Seq(Rows) /\ ActiveRows(SkippedRows(e))
           /\ StartedRows(e) \in Seq(Rows) /\ ActiveRows(StartedRows(e))
           /\ ErrorRows \in Seq(Rows) /\ ActiveRows(ErrorRows)
           /\ Accounted(e, {}, SkippedRows(e), 0, hit)
           /\ Accounted(e, Work(e), StartedRows(e), 0, hit)
           /\ Accounted(e, {}, ErrorRows, 0, hit)
<1>1. DOMAIN Active \subseteq Nat
  BY Constants
<1>2. \A m \in Due(e) : m[1] \in DOMAIN Active /\ 0 + m[1] = m[1]
  BY <1>1 DEF Due
<1>3. /\ SkippedRows(e) \in Seq(Rows) /\ ActiveRows(SkippedRows(e))
      /\ Accounted(e, {}, SkippedRows(e), 0, hit)
  <2> DEFINE status == [i \in DOMAIN Active |-> Unless(Points(e, Active[i]) # {}, "SKIPPED")]
  <2>1. \A i \in DOMAIN Active :
          status[i] \in {"TESTED", "SKIPPED", "ERROR", "NOT_APPLICABLE"}
    BY DEF Unless
  <2>2. SkippedRows(e) = [i \in DOMAIN Active |-> Row(Active[i], status[i], 0)]
    BY DEF SkippedRows
  <2>3. \A m \in Due(e) : status[m[1]] = "SKIPPED"
    BY DEF Due, Limited, Unless
  <2> HIDE DEF status
  <2>4. /\ SkippedRows(e) \in Seq(Rows) /\ ActiveRows(SkippedRows(e))
        /\ \A i \in DOMAIN Active : SkippedRows(e)[i].status = status[i]
    BY <2>1, <2>2, MadeForActive
  <2> QED
    BY <1>2, <2>3, <2>4 DEF Accounted, NotAttempted
<1>4. /\ StartedRows(e) \in Seq(Rows) /\ ActiveRows(StartedRows(e))
      /\ Accounted(e, Work(e), StartedRows(e), 0, hit)
  <2> DEFINE status == [i \in DOMAIN Active |->
                          Unless(Limited(e, Active[i]) # {},
                                 IF Executed(Active[i]) THEN "TESTED" ELSE "SKIPPED")]
  <2>1. \A i \in DOMAIN Active :
          status[i] \in {"TESTED", "SKIPPED", "ERROR", "NOT_APPLICABLE"}
    BY DEF Unless
  <2>2. StartedRows(e) = [i \in DOMAIN Active |-> Row(Active[i], status[i], 0)]
    BY DEF StartedRows
  <2>3. \A m \in Due(e) : m \in Work(e) \/ status[m[1]] = "SKIPPED"
    BY DEF Due, Work, Unless
  <2> HIDE DEF status
  <2>4. /\ StartedRows(e) \in Seq(Rows) /\ ActiveRows(StartedRows(e))
        /\ \A i \in DOMAIN Active : StartedRows(e)[i].status = status[i]
    BY <2>1, <2>2, MadeForActive
  <2> QED
    BY <1>2, <2>3, <2>4 DEF Accounted, NotAttempted
<1>5. /\ ErrorRows \in Seq(Rows) /\ ActiveRows(ErrorRows)
      /\ Accounted(e, {}, ErrorRows, 0, hit)
  <2> DEFINE status == [i \in DOMAIN Active |-> "ERROR"]
  <2>1. \A i \in DOMAIN Active : status[i] = "ERROR"
    OBVIOUS
  <2>2. ErrorRows = [i \in DOMAIN Active |-> Row(Active[i], status[i], 0)]
    BY DEF ErrorRows
  <2> HIDE DEF status
  <2>3. /\ ErrorRows \in Seq(Rows) /\ ActiveRows(ErrorRows)
        /\ \A i \in DOMAIN Active : ErrorRows[i].status = status[i]
    BY <2>1, <2>2, MadeForActive
  <2> QED
    BY <1>2, <2>1, <2>3 DEF Accounted, NotAttempted
<1> QED
  BY <1>3, <1>4, <1>5

\* A test that ends with these rows of its active checks.
LEMMA Completed ==
    ASSUME NEW e, NEW rows \in Seq(Rows), Ordered(rows, 6), NEW seen, Heard(e, rows, seen),
           NEW more \in Seq(Rows), ActiveRows(more), NEW hit, Accounted(e, {}, more, 0, hit)
    PROVE  /\ rows \o more \in Seq(Rows)
           /\ Ordered(rows \o more, 6 + Len(Active))
           /\ Heard(e, rows \o more, seen)
           /\ Accounted(e, {}, rows \o more, 6, hit)
<1>1. Len(more) = Len(Active) /\ DOMAIN Active = 1 .. Len(Active) /\ Len(Active) \in Nat
  BY Constants DEF ActiveRows
<1>c. \A i \in 1 .. Len(more) : more[i].check = Order[6 + i]
  BY <1>1, Orders DEF ActiveRows
<1>n. 6 \in Nat
  OBVIOUS
<1>2. /\ rows \o more \in Seq(Rows)
      /\ Ordered(rows \o more, 6 + Len(more))
      /\ \A i \in 1 .. 6 : (rows \o more)[i] = rows[i]
      /\ \A i \in 1 .. Len(more) : (rows \o more)[6 + i] = more[i]
  BY <1>c, <1>n, Joined
<1>3. Heard(e, rows \o more, seen)
  <2>1. (rows \o more)[2] = rows[2] /\ Len(rows) > 1
    BY <1>2 DEF Ordered
  <2> QED
    BY <2>1 DEF Heard
<1>4. ASSUME NEW m \in Due(e)
      PROVE  <<e, Active[m[1]], m[2]>> \in hit
             \/ (rows \o more)[6 + m[1]].status \in NotAttempted
  <2>1. m[1] \in 1 .. Len(more) /\ 0 + m[1] = m[1]
    BY <1>1 DEF Due
  <2> QED
    BY <1>2, <2>1 DEF Accounted
<1> QED
  BY <1>1, <1>2, <1>3, <1>4 DEF Accounted

\* The rows that a failed baseline leaves, after the one before it.
LEMMA FanOutRows ==
    ASSUME NEW e
    PROVE  /\ FanOut(e) \in Seq(Rows) /\ Len(FanOut(e)) = 5 + Len(Active)
           /\ \A i \in 1 .. 5 + Len(Active) : FanOut(e)[i].check = Order[1 + i]
           /\ \A i \in 1 .. 5 + Len(Active) : FanOut(e)[i].requests = 0
           /\ FanOut(e)[1].status = "ERROR"
           /\ \A i \in DOMAIN Active : FanOut(e)[5 + i] = SkippedRows(e)[i]
<1> DEFINE base == Row("baseline", "ERROR", 0)
           passive == [i \in DOMAIN Passive |->
                         Row(Passive[i], Unless(PassiveApplies(e, Passive[i]), "SKIPPED"), 0)]
           skipped == SkippedRows(e)
           start == <<base>> \o passive
<1>1. base \in Rows /\ base.check = "baseline" /\ base.status = "ERROR"
  <2>1. "baseline" \in Checks \union ToSet(Authorization) /\ 0 \in Nat
    BY DEF Checks
  <2> QED
    BY <2>1, RowFields
<1>2. <<base>> \in Seq(Rows) /\ Len(<<base>>) = 1 /\ <<base>>[1] = base
  BY <1>1, Single
<1>3. /\ passive \in Seq(Rows) /\ Len(passive) = 4
      /\ \A i \in 1 .. 4 : passive[i].check = Passive[i]
  <2>1. \A i \in 1 .. 4 : /\ passive[i] \in Rows /\ passive[i].check = Passive[i]
    <3> TAKE i \in 1 .. 4
    <3>1. /\ Passive[i] \in Checks \union ToSet(Authorization) /\ 0 \in Nat
          /\ DOMAIN Passive = 1 .. 4
      BY Passives
    <3>2. Unless(PassiveApplies(e, Passive[i]), "SKIPPED")
            \in {"TESTED", "SKIPPED", "ERROR", "NOT_APPLICABLE"}
      BY DEF Unless
    <3> QED
      BY <3>1, <3>2, RowFields
  <2>2. passive \in [1 .. 4 -> Rows]
    BY <2>1, Passives
  <2>3. 4 \in Nat
    OBVIOUS
  <2> HIDE DEF passive
  <2>4. passive \in Seq(Rows) /\ Len(passive) = 4
    BY <2>2, <2>3, Listed
  <2> QED
    BY <2>1, <2>4
<1>4. /\ skipped \in Seq(Rows) /\ Len(skipped) = Len(Active) /\ Len(Active) \in Nat
      /\ DOMAIN Active = 1 .. Len(Active)
      /\ \A i \in DOMAIN Active : skipped[i].check = Active[i]
  BY StaticRows, Constants DEF ActiveRows
<1>f. /\ base.requests = 0
      /\ \A i \in 1 .. 4 : passive[i].requests = 0
      /\ \A i \in DOMAIN Active : skipped[i].requests = 0
  BY Passives DEF Row, SkippedRows
<1>5. FanOut(e) = start \o skipped
  BY DEF FanOut
<1> HIDE DEF base, passive, skipped
<1>6. /\ start \in Seq(Rows) /\ Len(start) = 5
      /\ \A i \in 1 .. 5 : start[i] = IF i <= 1 THEN base ELSE passive[i - 1]
  <2>1. /\ start \in Seq(Rows) /\ Len(start) = Len(<<base>>) + Len(passive)
        /\ \A i \in 1 .. Len(<<base>>) + Len(passive) :
             start[i] = IF i <= Len(<<base>>) THEN <<base>>[i] ELSE passive[i - Len(<<base>>)]
    BY <1>2, <1>3, ConcatProperties
  <2> QED
    BY <1>2, <1>3, <2>1
<1> HIDE DEF start
<1>7. /\ FanOut(e) \in Seq(Rows) /\ Len(FanOut(e)) = 5 + Len(Active)
      /\ \A i \in 1 .. 5 + Len(Active) :
           FanOut(e)[i] = IF i <= 5 THEN start[i] ELSE skipped[i - 5]
  <2>s. start \in Seq(Rows) /\ skipped \in Seq(Rows)
    BY <1>4, <1>6
  <2>1. /\ start \o skipped \in Seq(Rows)
        /\ Len(start \o skipped) = Len(start) + Len(skipped)
        /\ \A i \in 1 .. Len(start) + Len(skipped) :
             (start \o skipped)[i] = IF i <= Len(start) THEN start[i] ELSE skipped[i - Len(start)]
    BY <2>s, ConcatProperties
  <2> QED
    BY <1>4, <1>5, <1>6, <2>1
<1>8. \A i \in DOMAIN Active : FanOut(e)[5 + i] = skipped[i]
  <2> TAKE i \in DOMAIN Active
  <2>1. 5 + i \in 1 .. 5 + Len(Active) /\ ~ (5 + i <= 5) /\ (5 + i) - 5 = i
    BY <1>4
  <2> QED
    BY <1>7, <2>1
<1>9. FanOut(e)[1] = base
  <2>1. 1 \in 1 .. 5 + Len(Active)
    BY <1>4
  <2> QED
    BY <1>6, <1>7, <2>1
<1>10. ASSUME NEW i \in 1 .. 5 + Len(Active) PROVE FanOut(e)[i].check = Order[1 + i]
  <2>1. CASE i = 1
    BY <1>1, <1>9, <2>1, Orders
  <2>2. CASE i \in 2 .. 5
    <3>1. FanOut(e)[i] = passive[i - 1] /\ i - 1 \in 1 .. 4 /\ 2 + (i - 1) = 1 + i
      BY <1>6, <1>7, <2>2
    <3>2. passive[i - 1].check = Passive[i - 1] /\ Order[2 + (i - 1)] = Passive[i - 1]
      BY <1>3, <3>1, Orders
    <3> QED
      BY <3>1, <3>2
  <2>3. CASE i \in 6 .. 5 + Len(Active)
    <3>1. i - 5 \in DOMAIN Active /\ 5 + (i - 5) = i /\ 6 + (i - 5) = 1 + i
      BY <1>4, <2>3
    <3>2. FanOut(e)[5 + (i - 5)] = skipped[i - 5] /\ Order[6 + (i - 5)] = Active[i - 5]
      BY <1>8, <3>1, Orders
    <3> QED
      BY <1>4, <3>1, <3>2
  <2> QED
    BY <1>4, <2>1, <2>2, <2>3
<1>11. ASSUME NEW i \in 1 .. 5 + Len(Active) PROVE FanOut(e)[i].requests = 0
  <2>1. CASE i <= 5
    <3>1. FanOut(e)[i] = IF i <= 1 THEN base ELSE passive[i - 1]
      BY <1>6, <1>7, <2>1
    <3>2. ~ (i <= 1) => i - 1 \in 1 .. 4
      BY <1>4, <2>1
    <3> QED
      BY <1>f, <3>1, <3>2
  <2>2. CASE ~ (i <= 5)
    <3>1. FanOut(e)[i] = skipped[i - 5] /\ i - 5 \in DOMAIN Active
      BY <1>4, <1>7, <2>2
    <3> QED
      BY <1>f, <3>1
  <2> QED
    BY <2>1, <2>2
<1> QED
  BY <1>1, <1>7, <1>8, <1>9, <1>10, <1>11 DEF skipped

LEMMA ToActiveFits ==
    ASSUME NEW e \in Endpoints, test[e] \in Test, NEW rows \in Seq(Rows), Ordered(rows, 6),
           NEW seen, Heard(e, rows, seen), NEW hit
    PROVE  ToActive(e, rows) \in Test /\ Fits(e, ToActive(e, rows), seen, hit)
<1> DEFINE more == IF MaxPoints = 0 THEN SkippedRows(e) ELSE StartedRows(e)
<1>1. CASE Work(e) # {}
  <2>1. Work(e) \subseteq (DOMAIN Active) \X Nat
    BY Constants DEF Work
  <2>2. /\ StartedRows(e) \in Seq(Rows) /\ ActiveRows(StartedRows(e))
        /\ Accounted(e, Work(e), StartedRows(e), 0, hit)
    BY StaticRows
  <2> DEFINE new == [test[e] EXCEPT !.pc = "active", !.rows = rows, !.work = Work(e),
                                    !.activeRows = StartedRows(e)]
  <2>3. ToActive(e, rows) = new
    BY <1>1 DEF ToActive
  <2>4. /\ new \in Test /\ new.pc = "active" /\ new.rows = rows
        /\ new.work = Work(e) /\ new.activeRows = StartedRows(e)
    BY <2>1, <2>2 DEF Test
  <2> HIDE DEF new
  <2>5. Ordered(new.rows, Come(new.pc))
    BY <2>4 DEF Come
  <2> QED
    BY <1>1, <2>2, <2>3, <2>4, <2>5 DEF Fits
<1>2. CASE Work(e) = {}
  <2>1. more \in Seq(Rows) /\ ActiveRows(more) /\ Accounted(e, {}, more, 0, hit)
    BY <1>2, StaticRows
  <2> DEFINE new == [test[e] EXCEPT !.pc = "done", !.rows = rows \o more]
  <2>2. ToActive(e, rows) = new
    BY <1>2 DEF ToActive
  <2> HIDE DEF more
  <2>3. /\ rows \o more \in Seq(Rows)
        /\ Ordered(rows \o more, 6 + Len(Active))
        /\ Heard(e, rows \o more, seen)
        /\ Accounted(e, {}, rows \o more, 6, hit)
    BY <2>1, Completed
  <2>4. /\ new \in Test /\ new.pc = "done" /\ new.rows = rows \o more
    BY <2>3 DEF Test
  <2> HIDE DEF new
  <2>5. Ordered(new.rows, Come(new.pc))
    BY <2>3, <2>4 DEF Come
  <2> QED
    BY <2>2, <2>3, <2>4, <2>5 DEF Fits
<1> QED
  BY <1>1, <1>2

LEMMA ToUnauthenticatedFits ==
    ASSUME NEW e \in Endpoints, test[e] \in Test, NEW rows \in Seq(Rows), Ordered(rows, 5),
           NEW seen, Heard(e, rows, seen), NEW hit
    PROVE  /\ ToUnauthenticated(e, rows) \in Test
           /\ Fits(e, ToUnauthenticated(e, rows), seen, hit)
<1>1. CASE Inventory[e].auth
  <2> DEFINE new == [test[e] EXCEPT !.pc = "unauthenticated", !.rows = rows]
  <2>1. ToUnauthenticated(e, rows) = new
    BY <1>1 DEF ToUnauthenticated
  <2>2. new \in Test /\ new.pc = "unauthenticated" /\ new.rows = rows
    BY DEF Test
  <2> HIDE DEF new
  <2>3. Ordered(new.rows, Come(new.pc))
    BY <2>2 DEF Come
  <2> QED
    BY <2>1, <2>2, <2>3 DEF Fits
<1>2. CASE ~ Inventory[e].auth
  <2> DEFINE row == Row("missing-authentication", "NOT_APPLICABLE", 0)
  <2>1. row \in Rows /\ row.check = "missing-authentication"
    BY RowFields, Passives DEF Checks
  <2>2. ToUnauthenticated(e, rows) = ToActive(e, Append(rows, row))
    BY <1>2 DEF ToUnauthenticated
  <2> HIDE DEF row
  <2>3. Append(rows, row) \in Seq(Rows) /\ Ordered(Append(rows, row), 6)
        /\ Heard(e, Append(rows, row), seen)
    <3>1. row.check = Order[5 + 1] /\ 5 \in Nat
      BY <2>1, Orders, Passives
    <3>2. /\ Append(rows, row) \in Seq(Rows) /\ Ordered(Append(rows, row), 5 + 1)
          /\ \A i \in 1 .. 5 : Append(rows, row)[i] = rows[i]
      BY <2>1, <3>1, Appended
    <3> QED
      BY <3>2 DEF Heard, Ordered
  <2> QED
    BY <2>2, <2>3, ToActiveFits
<1> QED
  BY <1>1, <1>2

-----------------------------------------------------------------------------
(* The steps of a test.                                                     *)

\* What was heard and answered stays so.
LEMMA FitsOn ==
    ASSUME NEW e, NEW state, NEW seen, NEW hit, Fits(e, state, seen, hit),
           NEW seen2, seen \subseteq seen2, NEW hit2, hit \subseteq hit2
    PROVE  Fits(e, state, seen2, hit2)
BY DEF Fits, Heard, Accounted

LEMMA TestKept ==
    ASSUME RowsInv, NEW e \in Endpoints, phase = "running", NEW new \in Test, Becomes(e, new),
           NoAnswer \/ UNCHANGED count \/ Take(1),
           answered \subseteq answered', answered' \subseteq answered \union {e},
           mutated \subseteq mutated', mutated' \subseteq Endpoints \X ToSet(Active) \X Nat,
           Fits(e, new, answered', mutated')
    PROVE  RowsInv'
<1>1. /\ test' = [test EXCEPT ![e] = new] /\ test \in [Endpoints -> Test]
      /\ UNCHANGED <<phase, maximum, authRows>>
  BY DEF Becomes, RowsInv, TypeOK
<1>2. maximum \in Nat /\ count \in 0 .. maximum
  BY ParametersAssumption DEF RowsInv, TypeOK
<1>3. count' \in 0 .. maximum
  BY <1>2 DEF NoAnswer, Take
<1>4. TypeOK'
  <2>1. test' \in [Endpoints -> Test]
    BY <1>1
  <2> QED
    BY <1>1, <1>3, <2>1 DEF RowsInv, TypeOK
<1>5. ASSUME NEW d \in Endpoints PROVE Fits(d, test[d], answered, mutated)'
  <2>1. CASE d = e
    <3>1. test'[d] = new
      BY <1>1, <2>1
    <3> QED
      BY <2>1, <3>1 DEF Fits, Accounted, Due, Limited, Points, Heard
  <2>2. CASE d # e
    <3>1. test'[d] = test[d]
      BY <1>1, <2>2
    <3>2. Fits(d, test[d], answered, mutated)
      BY DEF RowsInv
    <3>3. Fits(d, test[d], answered', mutated')
      BY <3>2, FitsOn
    <3> QED
      BY <3>1, <3>3
  <2> QED
    BY <2>1, <2>2
<1>6. \A d \in Endpoints : Compared(d, authRows[d])'
  BY <1>1 DEF RowsInv
<1>7. Over'
  BY <1>1 DEF Over
<1> QED
  BY <1>4, <1>5, <1>6, <1>7 DEF RowsInv

\* What RowsInv says of a test that is under way.
LEMMA TestAt ==
    ASSUME RowsInv, NEW e \in Endpoints
    PROVE  /\ test[e] \in Test /\ test[e].rows \in Seq(Rows)
           /\ Fits(e, test[e], answered, mutated)
           /\ answered \subseteq Endpoints
           /\ mutated \subseteq Endpoints \X ToSet(Active) \X Nat
           /\ test[e].pc = "baseline" => Ordered(test[e].rows, 1)
           /\ test[e].pc = "cors" => Ordered(test[e].rows, 4)
           /\ test[e].pc = "unauthenticated" => Ordered(test[e].rows, 5)
           /\ test[e].pc = "active" => Ordered(test[e].rows, 6)
<1>1. /\ test[e] \in Test /\ Fits(e, test[e], answered, mutated)
      /\ answered \subseteq Endpoints
      /\ mutated \subseteq Endpoints \X ToSet(Active) \X Nat
  BY DEF RowsInv, TypeOK
<1>2. test[e].rows \in Seq(Rows) /\ Ordered(test[e].rows, Come(test[e].pc))
  BY <1>1 DEF Test, Fits
<1> QED
  BY <1>1, <1>2 DEF Come

LEMMA EnterFits ==
    ASSUME RowsInv, NEW e \in Endpoints, Enter(e)
    PROVE  RowsInv'
<1> DEFINE row == Row("insecure-transport", "TESTED", 0)
           new == [test[e] EXCEPT !.pc = "baseline", !.rows = <<row>>]
<1>1. row \in Rows /\ row.check = "insecure-transport"
  BY RowFields DEF Checks
<1>2. /\ phase = "running" /\ Becomes(e, new)
      /\ UNCHANGED <<count, answered, mutated>>
  BY DEF Enter, At
<1> HIDE DEF row
<1>3. <<row>> \in Seq(Rows) /\ Len(<<row>>) = 1 /\ <<row>>[1] = row
  BY <1>1, Single
<1>4. new \in Test /\ new.pc = "baseline" /\ new.rows = <<row>>
  BY <1>3, TestAt DEF Test
<1> HIDE DEF new
<1>5. Ordered(new.rows, Come(new.pc)) /\ Heard(e, new.rows, answered)
  BY <1>1, <1>3, <1>4, Orders DEF Ordered, Come, Heard
<1>6. Fits(e, new, answered', mutated')
  BY <1>2, <1>4, <1>5 DEF Fits
<1> QED
  BY <1>2, <1>4, <1>6, TestKept, TestAt

LEMMA BaselineAnsweredFits ==
    ASSUME RowsInv, NEW e \in Endpoints, BaselineAnswered(e)
    PROVE  RowsInv'
<1> DEFINE row == Row("baseline", "TESTED", 1)
           based == Append(test[e].rows, row)
           passive(status, n) == [i \in 1 .. n |-> Row(Passive[i], status, 0)]
           cors == [test[e] EXCEPT !.pc = "cors", !.rows = based \o passive("TESTED", 2)]
           rest == ToUnauthenticated(e, based \o passive("NOT_APPLICABLE", 3))
           new == IF Retrieval(e) THEN cors ELSE rest
<1>1. /\ phase = "running" /\ test[e].pc = "baseline" /\ Take(1)
      /\ answered' = answered \union {e} /\ mutated' = mutated
      /\ Becomes(e, new)
  BY DEF BaselineAnswered, At
<1>2. /\ test[e] \in Test /\ test[e].rows \in Seq(Rows) /\ Ordered(test[e].rows, 1)
      /\ mutated \subseteq Endpoints \X ToSet(Active) \X Nat
  BY <1>1, TestAt
<1>3. row \in Rows /\ row.check = "baseline"
  BY RowFields DEF Checks
<1> HIDE DEF row
<1>4. based \in Seq(Rows) /\ Ordered(based, 2)
  <2>1. row.check = Order[1 + 1] /\ 1 \in Nat
    BY <1>3, Orders
  <2> QED
    BY <1>2, <1>3, <2>1, Appended
<1> HIDE DEF based
<1>5. ASSUME NEW status \in {"TESTED", "NOT_APPLICABLE"}, NEW n \in 2 .. 3
      PROVE  /\ based \o passive(status, n) \in Seq(Rows)
             /\ Ordered(based \o passive(status, n), 2 + n)
  <2>1. \A i \in 1 .. n : /\ Row(Passive[i], status, 0) \in Rows
                          /\ Row(Passive[i], status, 0).check = Order[2 + i]
    <3> TAKE i \in 1 .. n
    <3>1. i \in 1 .. 4
      BY <1>5
    <3>2. Passive[i] \in Checks \union ToSet(Authorization) /\ Order[2 + i] = Passive[i]
      BY <3>1, Passives, Orders
    <3> QED
      BY <1>5, <3>2, RowFields
  <2>2. passive(status, n) \in [1 .. n -> Rows]
    BY <2>1
  <2>3. \A i \in 1 .. n : passive(status, n)[i].check = Order[2 + i]
    BY <2>1
  <2> HIDE DEF passive
  <2>4. n \in Nat /\ 2 \in Nat
    BY <1>5
  <2>5. passive(status, n) \in Seq(Rows) /\ Len(passive(status, n)) = n
    BY <2>2, <2>4, Listed
  <2> QED
    BY <1>4, <2>3, <2>4, <2>5, Joined
<1>6. \A rows : Heard(e, rows, answered')
  BY <1>1 DEF Heard
<1>7. CASE Retrieval(e)
  <2>1. /\ based \o passive("TESTED", 2) \in Seq(Rows)
        /\ Ordered(based \o passive("TESTED", 2), 4)
    BY <1>5
  <2> HIDE DEF passive
  <2>2. cors \in Test /\ cors.pc = "cors" /\ cors.rows = based \o passive("TESTED", 2)
    BY <1>2, <2>1 DEF Test
  <2>3. new = cors
    BY <1>7
  <2> HIDE DEF cors, new
  <2>4. Ordered(cors.rows, Come(cors.pc))
    BY <2>1, <2>2 DEF Come
  <2>5. Fits(e, cors, answered', mutated')
    BY <1>6, <2>2, <2>4 DEF Fits
  <2> QED
    BY <1>1, <1>2, <2>2, <2>3, <2>5, TestKept
<1>8. CASE ~ Retrieval(e)
  <2>1. /\ based \o passive("NOT_APPLICABLE", 3) \in Seq(Rows)
        /\ Ordered(based \o passive("NOT_APPLICABLE", 3), 5)
    BY <1>5
  <2>2. new = rest
    BY <1>8
  <2> HIDE DEF passive, new
  <2>3. rest \in Test /\ Fits(e, rest, answered', mutated')
    BY <1>2, <1>6, <2>1, ToUnauthenticatedFits
  <2> HIDE DEF rest
  <2> QED
    BY <1>1, <1>2, <2>2, <2>3, TestKept
<1> QED
  BY <1>7, <1>8

LEMMA BaselineFailsFits ==
    ASSUME RowsInv, NEW e \in Endpoints, BaselineFails(e)
    PROVE  RowsInv'
<1> DEFINE rows == test[e].rows \o FanOut(e)
           new == [test[e] EXCEPT !.pc = "done", !.rows = rows]
<1>1. /\ phase = "running" /\ test[e].pc = "baseline" /\ NoAnswer
      /\ answered' = answered /\ mutated' = mutated /\ Becomes(e, new)
  BY DEF BaselineFails, At, NoAnswer
<1>2. /\ test[e] \in Test /\ test[e].rows \in Seq(Rows) /\ Ordered(test[e].rows, 1)
      /\ mutated \subseteq Endpoints \X ToSet(Active) \X Nat /\ answered \subseteq Endpoints
  BY <1>1, TestAt
<1>3. /\ FanOut(e) \in Seq(Rows) /\ Len(FanOut(e)) = 5 + Len(Active) /\ 1 \in Nat
      /\ \A i \in 1 .. Len(FanOut(e)) : FanOut(e)[i].check = Order[1 + i]
  BY FanOutRows
<1>4. /\ rows \in Seq(Rows) /\ Ordered(rows, 1 + Len(FanOut(e)))
      /\ \A i \in 1 .. Len(FanOut(e)) : rows[1 + i] = FanOut(e)[i]
  BY <1>2, <1>3, Joined
<1> HIDE DEF rows
<1>5. Ordered(rows, 6 + Len(Active))
  BY <1>3, <1>4, Constants
<1>6. Heard(e, rows, answered)
  <2>1. 1 \in 1 .. Len(FanOut(e)) /\ 1 + 1 = 2
    BY <1>3, Constants
  <2>2. rows[2].status = "ERROR"
    BY <1>4, <2>1, FanOutRows
  <2> QED
    BY <2>2 DEF Heard
<1>7. Accounted(e, {}, rows, 6, mutated)
  <2>1. \A i \in DOMAIN Active : rows[6 + i] = SkippedRows(e)[i]
    <3> TAKE i \in DOMAIN Active
    <3>1. 5 + i \in 1 .. Len(FanOut(e)) /\ 1 + (5 + i) = 6 + i
      BY <1>3, Constants
    <3>2. rows[1 + (5 + i)] = FanOut(e)[5 + i]
      BY <1>4, <3>1
    <3> QED
      BY <3>1, <3>2, FanOutRows
  <2>2. Accounted(e, {}, SkippedRows(e), 0, mutated)
    BY StaticRows
  <2>3. \A m \in Due(e) : m[1] \in DOMAIN Active /\ 0 + m[1] = m[1]
    BY Constants DEF Due
  <2> QED
    BY <2>1, <2>2, <2>3 DEF Accounted
<1>8. new \in Test /\ new.pc = "done" /\ new.rows = rows
  BY <1>2, <1>4 DEF Test
<1> HIDE DEF new
<1>9. Ordered(new.rows, Come(new.pc))
  BY <1>5, <1>8 DEF Come
<1>10. Fits(e, new, answered', mutated')
  BY <1>1, <1>6, <1>7, <1>8, <1>9 DEF Fits
<1> QED
  BY <1>1, <1>2, <1>8, <1>10, TestKept

\* One more row, which is not that of the baseline.
LEMMA OneMore ==
    ASSUME NEW e, NEW rows \in Seq(Rows), NEW n \in 4 .. 5, Ordered(rows, n),
           NEW seen, Heard(e, rows, seen),
           NEW status \in {"TESTED", "ERROR"}, NEW requests \in 0 .. 1,
           NEW more, more = Append(rows, Row(Passive[n - 1], status, requests))
    PROVE  more \in Seq(Rows) /\ Ordered(more, n + 1) /\ Heard(e, more, seen)
<1> DEFINE row == Row(Passive[n - 1], status, requests)
<1>1. n - 1 \in 1 .. 4 /\ 2 + (n - 1) = n + 1 /\ n \in Nat /\ requests \in Nat
  OBVIOUS
<1>2. Passive[n - 1] \in Checks \union ToSet(Authorization) /\ Order[n + 1] = Passive[n - 1]
  BY <1>1, Passives, Orders
<1>3. row \in Rows /\ row.check = Order[n + 1]
  BY <1>1, <1>2, RowFields
<1> HIDE DEF row
<1>4. /\ Append(rows, row) \in Seq(Rows) /\ Ordered(Append(rows, row), n + 1)
      /\ \A i \in 1 .. n : Append(rows, row)[i] = rows[i]
  BY <1>1, <1>3, Appended
<1>5. Heard(e, Append(rows, row), seen)
  <2>1. Append(rows, row)[2] = rows[2] /\ Len(rows) > 1
    BY <1>4 DEF Ordered
  <2> QED
    BY <2>1 DEF Heard
<1> QED
  BY <1>4, <1>5 DEF row

LEMMA CorsFits ==
    ASSUME RowsInv, NEW e \in Endpoints, CorsAnswered(e) \/ CorsFails(e)
    PROVE  RowsInv'
<1> DEFINE rows(status, requests) ==
             Append(test[e].rows, Row("cors-misconfiguration", status, requests))
           new(status, requests) == ToUnauthenticated(e, rows(status, requests))
<1>1. PICK status \in {"TESTED", "ERROR"}, requests \in 0 .. 1 : Becomes(e, new(status, requests))
  <2>1. Becomes(e, new("TESTED", 1)) \/ Becomes(e, new("ERROR", 0))
    BY DEF CorsAnswered, CorsFails
  <2> HIDE DEF new
  <2> QED
    BY <2>1
<1>2. /\ phase = "running" /\ test[e].pc = "cors" /\ (NoAnswer \/ Take(1))
      /\ answered' = answered /\ mutated' = mutated
  BY DEF CorsAnswered, CorsFails, At, NoAnswer
<1>3. /\ test[e] \in Test /\ test[e].rows \in Seq(Rows) /\ Ordered(test[e].rows, 4)
      /\ mutated \subseteq Endpoints \X ToSet(Active) \X Nat /\ answered \subseteq Endpoints
      /\ Heard(e, test[e].rows, answered)
  BY <1>2, TestAt DEF Fits
<1>4. /\ rows(status, requests) \in Seq(Rows) /\ Ordered(rows(status, requests), 5)
      /\ Heard(e, rows(status, requests), answered)
  <2>1. /\ 4 \in 4 .. 5 /\ 4 + 1 = 5
        /\ rows(status, requests) = Append(test[e].rows, Row(Passive[4 - 1], status, requests))
    BY Passives
  <2> HIDE DEF rows
  <2> QED
    BY <1>3, <2>1, OneMore
<1> HIDE DEF rows
<1>5. /\ new(status, requests) \in Test
      /\ Fits(e, new(status, requests), answered, mutated)
  BY <1>3, <1>4, ToUnauthenticatedFits
<1> HIDE DEF new
<1> QED
  BY <1>1, <1>2, <1>3, <1>5, TestKept

LEMMA UnauthenticatedFits ==
    ASSUME RowsInv, NEW e \in Endpoints, UnauthenticatedAnswered(e) \/ UnauthenticatedFails(e)
    PROVE  RowsInv'
<1> DEFINE rows(status, requests) ==
             Append(test[e].rows, Row("missing-authentication", status, requests))
           new(status, requests) == ToActive(e, rows(status, requests))
<1>1. PICK status \in {"TESTED", "ERROR"}, requests \in 0 .. 1 : Becomes(e, new(status, requests))
  <2>1. Becomes(e, new("TESTED", 1)) \/ Becomes(e, new("ERROR", 0))
    BY DEF UnauthenticatedAnswered, UnauthenticatedFails
  <2> HIDE DEF new
  <2> QED
    BY <2>1
<1>2. /\ phase = "running" /\ test[e].pc = "unauthenticated" /\ (NoAnswer \/ Take(1))
      /\ answered' = answered /\ mutated' = mutated
  BY DEF UnauthenticatedAnswered, UnauthenticatedFails, At, NoAnswer
<1>3. /\ test[e] \in Test /\ test[e].rows \in Seq(Rows) /\ Ordered(test[e].rows, 5)
      /\ mutated \subseteq Endpoints \X ToSet(Active) \X Nat /\ answered \subseteq Endpoints
      /\ Heard(e, test[e].rows, answered)
  BY <1>2, TestAt DEF Fits
<1>4. /\ rows(status, requests) \in Seq(Rows) /\ Ordered(rows(status, requests), 6)
      /\ Heard(e, rows(status, requests), answered)
  <2>1. /\ 5 \in 4 .. 5 /\ 5 + 1 = 6
        /\ rows(status, requests) = Append(test[e].rows, Row(Passive[5 - 1], status, requests))
    BY Passives
  <2> HIDE DEF rows
  <2> QED
    BY <1>3, <2>1, OneMore
<1> HIDE DEF rows
<1>5. /\ new(status, requests) \in Test
      /\ Fits(e, new(status, requests), answered, mutated)
  BY <1>3, <1>4, ToActiveFits
<1> HIDE DEF new
<1> QED
  BY <1>1, <1>2, <1>3, <1>5, TestKept

\* The mutation m of the test of e is over, answered or missed in its row.
LEMMA MutatedFits ==
    ASSUME RowsInv, NEW e \in Endpoints, At(e, "active"),
           NEW row \in Rows, Mutated(e, Upcoming(e), row),
           row.check = Active[Upcoming(e)[1]],
           test[e].activeRows[Upcoming(e)[1]].status \in NotAttempted =>
             row.status \in NotAttempted,
           \/ row.status \in NotAttempted
           \/ <<e, Active[Upcoming(e)[1]], Upcoming(e)[2]>> \in mutated',
           NoAnswer \/ UNCHANGED count \/ Take(1), answered' = answered,
           mutated \subseteq mutated', mutated' \subseteq Endpoints \X ToSet(Active) \X Nat
    PROVE  RowsInv'
<1> DEFINE m == Upcoming(e)
           work == test[e].work \ {m}
           rows == [test[e].activeRows EXCEPT ![m[1]] = row]
<1>1. /\ test[e] \in Test /\ test[e].rows \in Seq(Rows) /\ Ordered(test[e].rows, 6)
      /\ answered \subseteq Endpoints
      /\ Heard(e, test[e].rows, answered)
      /\ test[e].activeRows \in Seq(Rows) /\ ActiveRows(test[e].activeRows)
      /\ Accounted(e, test[e].work, test[e].activeRows, 0, mutated)
      /\ test[e].work # {} /\ test[e].work \subseteq (DOMAIN Active) \X Nat
      /\ phase = "running"
  BY TestAt DEF Fits, At, Test
<1>2. m \in test[e].work /\ m[1] \in DOMAIN Active
  BY <1>1, UpcomingComes
<1>3. /\ rows \in Seq(Rows) /\ ActiveRows(rows)
      /\ \A i \in DOMAIN Active : rows[i] = IF i = m[1] THEN row ELSE test[e].activeRows[i]
  <2>1. m[1] \in 1 .. Len(test[e].activeRows) /\ Len(test[e].activeRows) = Len(Active)
        /\ DOMAIN Active = 1 .. Len(Active)
    BY <1>1, <1>2, Constants DEF ActiveRows
  <2>2. /\ rows \in Seq(Rows) /\ Len(rows) = Len(Active)
        /\ \A i \in 1 .. Len(test[e].activeRows) :
             rows[i] = IF i = m[1] THEN row ELSE test[e].activeRows[i]
    BY <1>1, <2>1, ExceptSeq
  <2> QED
    BY <1>1, <2>1, <2>2 DEF ActiveRows
<1>4. Accounted(e, work, rows, 0, mutated')
  <2> SUFFICES ASSUME NEW n \in Due(e)
               PROVE  \/ n \in work
                      \/ <<e, Active[n[1]], n[2]>> \in mutated'
                      \/ rows[0 + n[1]].status \in NotAttempted
    BY DEF Accounted
  <2>1. n[1] \in DOMAIN Active /\ 0 + n[1] = n[1]
    BY Constants DEF Due
  <2>2. CASE n = m
    BY <1>3, <2>1, <2>2
  <2>3. CASE n # m
    <3>1. \/ n \in test[e].work
          \/ <<e, Active[n[1]], n[2]>> \in mutated
          \/ test[e].activeRows[n[1]].status \in NotAttempted
      BY <1>1, <2>1 DEF Accounted
    <3> QED
      BY <1>3, <2>1, <2>3, <3>1
  <2> QED
    BY <2>2, <2>3
<1> DEFINE next == [test[e] EXCEPT !.work = work, !.activeRows = rows]
           done == [test[e] EXCEPT !.pc = "done", !.work = {}, !.activeRows = << >>,
                                   !.rows = @ \o rows]
<1>5. Becomes(e, IF work # {} THEN next ELSE done)
  BY DEF Mutated
<1> HIDE DEF rows
<1>6. CASE work # {}
  <2>1. /\ next \in Test /\ next.pc = "active" /\ next.rows = test[e].rows
        /\ next.work = work /\ next.activeRows = rows
    BY <1>1, <1>3 DEF Test, At
  <2> HIDE DEF next, done
  <2>2. Ordered(next.rows, Come(next.pc))
    BY <1>1, <2>1 DEF Come
  <2>3. Fits(e, next, answered', mutated')
    BY <1>1, <1>3, <1>4, <1>6, <2>1, <2>2 DEF Fits
  <2>4. Becomes(e, next)
    BY <1>5, <1>6
  <2> QED
    BY <1>1, <2>1, <2>3, <2>4, TestKept
<1>7. CASE work = {}
  <2>1. Accounted(e, {}, rows, 0, mutated')
    BY <1>4, <1>7
  <2>2. /\ test[e].rows \o rows \in Seq(Rows)
        /\ Ordered(test[e].rows \o rows, 6 + Len(Active))
        /\ Heard(e, test[e].rows \o rows, answered)
        /\ Accounted(e, {}, test[e].rows \o rows, 6, mutated')
    BY <1>1, <1>3, <2>1, Completed
  <2>3. done \in Test /\ done.pc = "done" /\ done.rows = test[e].rows \o rows
    BY <1>1, <2>2, NoRows DEF Test
  <2> HIDE DEF next, done
  <2>4. Ordered(done.rows, Come(done.pc))
    BY <2>2, <2>3 DEF Come
  <2>5. Fits(e, done, answered', mutated')
    BY <2>2, <2>3, <2>4 DEF Fits
  <2>6. Becomes(e, done)
    BY <1>5, <1>7
  <2> QED
    BY <1>1, <2>3, <2>5, <2>6, TestKept
<1> QED
  BY <1>6, <1>7

LEMMA MutationAnsweredFits ==
    ASSUME RowsInv, NEW e \in Endpoints, MutationAnswered(e)
    PROVE  RowsInv'
<1> DEFINE m == Upcoming(e)
           row == test[e].activeRows[m[1]]
<1>1. At(e, "active") /\ Take(1) /\ answered' = answered
      /\ mutated' = mutated \union {<<e, row.check, m[2]>>}
  BY DEF MutationAnswered
<1>2. PICK status \in {row.status} \union (IF row.check = "ssrf" THEN {"ERROR"} ELSE {}) :
        Mutated(e, m, Row(row.check, status, row.requests + 1))
  BY DEF MutationAnswered
<1>3. /\ test[e].activeRows \in Seq(Rows) /\ ActiveRows(test[e].activeRows)
      /\ test[e].work # {} /\ test[e].work \subseteq (DOMAIN Active) \X Nat
      /\ mutated \subseteq Endpoints \X ToSet(Active) \X Nat
  BY <1>1, TestAt DEF Fits, At, Test
<1>4. m \in test[e].work /\ m[1] \in DOMAIN Active /\ m[2] \in Nat
  BY <1>3, UpcomingComes
<1>5. row \in Rows /\ row.check = Active[m[1]] /\ Active[m[1]] \in Checks
  BY <1>3, <1>4, Constants, ElementOfSeq DEF ActiveRows
<1> HIDE DEF m, row
<1> DEFINE new == Row(row.check, status, row.requests + 1)
<1>6. /\ status \in {"TESTED", "SKIPPED", "ERROR", "NOT_APPLICABLE"}
      /\ row.requests + 1 \in Nat
      /\ row.status \in NotAttempted => status \in NotAttempted
  BY <1>2, <1>5 DEF Rows, NotAttempted
<1>7. new \in Rows /\ new.check = row.check /\ new.status = status
  BY <1>5, <1>6, RowFields
<1>8. mutated' \subseteq Endpoints \X ToSet(Active) \X Nat
  BY <1>1, <1>3, <1>4, <1>5 DEF ToSet
<1> HIDE DEF new
<1>9. Mutated(e, m, new)
  BY <1>2 DEF new
<1> QED
  BY <1>1, <1>5, <1>6, <1>7, <1>8, <1>9, MutatedFits DEF m, row

LEMMA RegistrationFailsFits ==
    ASSUME RowsInv, NEW e \in Endpoints, RegistrationFails(e)
    PROVE  RowsInv'
<1> DEFINE m == Upcoming(e)
           row == test[e].activeRows[m[1]]
           new == [row EXCEPT !.status = "ERROR"]
<1>1. /\ At(e, "active") /\ Mutated(e, m, new)
      /\ UNCHANGED <<count, answered, mutated>>
  BY DEF RegistrationFails
<1>2. /\ test[e].activeRows \in Seq(Rows) /\ ActiveRows(test[e].activeRows)
      /\ test[e].work # {} /\ test[e].work \subseteq (DOMAIN Active) \X Nat
      /\ mutated \subseteq Endpoints \X ToSet(Active) \X Nat
  BY <1>1, TestAt DEF Fits, At, Test
<1>3. m \in test[e].work /\ m[1] \in DOMAIN Active
  BY <1>2, UpcomingComes
<1>4. row \in Rows /\ row.check = Active[m[1]]
  BY <1>2, <1>3, Constants, ElementOfSeq DEF ActiveRows
<1>5. new \in Rows /\ new.check = row.check /\ new.status = "ERROR"
  BY <1>4 DEF Rows
<1> HIDE DEF new
<1> QED
  BY <1>1, <1>2, <1>4, <1>5, MutatedFits DEF NotAttempted

LEMMA ActiveFailsFits ==
    ASSUME RowsInv, NEW e \in Endpoints, ActiveFails(e)
    PROVE  RowsInv'
<1> DEFINE rows == test[e].rows \o ErrorRows
           new == [test[e] EXCEPT !.pc = "done", !.work = {}, !.activeRows = << >>,
                                  !.rows = rows]
<1>1. /\ phase = "running" /\ test[e].pc = "active" /\ NoAnswer
      /\ answered' = answered /\ mutated' = mutated /\ Becomes(e, new)
  BY DEF ActiveFails, At, NoAnswer, ErrorRows
<1>2. /\ test[e] \in Test /\ test[e].rows \in Seq(Rows) /\ Ordered(test[e].rows, 6)
      /\ mutated \subseteq Endpoints \X ToSet(Active) \X Nat /\ answered \subseteq Endpoints
      /\ Heard(e, test[e].rows, answered)
  BY <1>1, TestAt DEF Fits
<1>3. ErrorRows \in Seq(Rows) /\ ActiveRows(ErrorRows) /\ Accounted(e, {}, ErrorRows, 0, mutated)
  BY StaticRows
<1>4. /\ rows \in Seq(Rows) /\ Ordered(rows, 6 + Len(Active))
      /\ Heard(e, rows, answered) /\ Accounted(e, {}, rows, 6, mutated)
  BY <1>2, <1>3, Completed
<1> HIDE DEF rows
<1>5. new \in Test /\ new.pc = "done" /\ new.rows = rows
  BY <1>2, <1>4, NoRows DEF Test
<1> HIDE DEF new
<1>6. Ordered(new.rows, Come(new.pc))
  BY <1>4, <1>5 DEF Come
<1>7. Fits(e, new, answered', mutated')
  BY <1>1, <1>4, <1>5, <1>6 DEF Fits
<1> QED
  BY <1>1, <1>2, <1>5, <1>7, TestKept

LEMMA RaisesFits ==
    ASSUME RowsInv, NEW e \in Endpoints, Raises(e)
    PROVE  RowsInv'
<1> DEFINE new == [test[e] EXCEPT !.pc = "raised", !.rows = << >>, !.work = {},
                                  !.activeRows = << >>]
<1>1. /\ phase = "running" /\ Becomes(e, new) /\ mutated' = mutated
      /\ UNCHANGED count \/ Take(1)
      /\ answered \subseteq answered' /\ answered' \subseteq answered \union {e}
  BY DEF Raises
<1>2. /\ test[e] \in Test
      /\ mutated \subseteq Endpoints \X ToSet(Active) \X Nat /\ answered \subseteq Endpoints
  BY TestAt
<1>3. new \in Test /\ new.pc = "raised" /\ new.rows = << >>
  BY <1>2, NoRows DEF Test
<1> HIDE DEF new
<1>4. Ordered(new.rows, Come(new.pc)) /\ Heard(e, new.rows, answered')
  BY <1>3 DEF Come, Ordered, Heard
<1>5. Fits(e, new, answered', mutated')
  BY <1>3, <1>4 DEF Fits
<1> QED
  BY <1>1, <1>2, <1>3, <1>5, TestKept

LEMMA TestEndpointFits ==
    ASSUME RowsInv, NEW e \in Endpoints, TestEndpoint(e)
    PROVE  RowsInv'
BY EnterFits, BaselineAnsweredFits, BaselineFailsFits, CorsFits, UnauthenticatedFits,
   MutationAnsweredFits, RegistrationFailsFits, ActiveFailsFits, RaisesFits
   DEF TestEndpoint

-----------------------------------------------------------------------------
(* The comparisons, and the end.                                            *)

\* What is left alone stays.
LEMMA TestsKept ==
    ASSUME RowsInv, UNCHANGED <<test, answered, mutated>>
    PROVE  \A e \in Endpoints : Fits(e, test[e], answered, mutated)'
BY DEF RowsInv

LEMMA CompareFits ==
    ASSUME RowsInv, Compare
    PROVE  RowsInv'
<1> DEFINE e == CHOOSE d \in Uncompared : \A c \in Uncompared : d <= c
           check == Authorization[Len(authRows[e]) + 1]
           row(status, requests) == Row(check, status, requests)
           rows(status, requests) == Append(authRows[e], row(status, requests))
<1>1. e \in Endpoints /\ Len(authRows[e]) < Len(Authorization)
  BY NextComparison DEF Compare, Uncompared
<1>2. PICK status \in {"TESTED", "ERROR", "SKIPPED", "NOT_APPLICABLE"}, requests \in {0, 2} :
        /\ authRows' = [authRows EXCEPT ![e] = rows(status, requests)]
        /\ Candidate(e, check) => \/ status = "TESTED" /\ requests = 2
                                  \/ status \in NotAttempted
        /\ UNCHANGED count \/ Take(1) \/ Take(2)
  <2> DEFINE leaves(status, requests) ==
               /\ authRows' = [authRows EXCEPT ![e] = rows(status, requests)]
               /\ Candidate(e, check) => \/ status = "TESTED" /\ requests = 2
                                         \/ status \in NotAttempted
               /\ UNCHANGED count \/ Take(1) \/ Take(2)
  <2>1. \/ leaves("TESTED", 2)
        \/ leaves("ERROR", 0)
        \/ leaves(Unless(Candidate(e, check), "SKIPPED"), 0)
    BY DEF Compare, Unless, NotAttempted
  <2>2. Unless(Candidate(e, check), "SKIPPED") \in {"SKIPPED", "NOT_APPLICABLE"}
    BY DEF Unless
  <2> HIDE DEF leaves
  <2>3. \E status \in {"TESTED", "ERROR", "SKIPPED", "NOT_APPLICABLE"}, requests \in {0, 2} :
          leaves(status, requests)
    BY <2>1, <2>2
  <2> QED
    BY <2>3 DEF leaves
<1>3. /\ authRows \in [Endpoints -> Seq(Rows)] /\ phase = "running"
      /\ UNCHANGED <<phase, maximum, test, answered, mutated>>
  BY DEF Compare, RowsInv, TypeOK
<1>4. /\ Len(Authorization) = 2 /\ Authorization[1] \in ToSet(Authorization)
      /\ Authorization[2] \in ToSet(Authorization)
  BY DEF Authorization, ToSet
<1> DEFINE n == Len(authRows[e])
<1>5. authRows[e] \in Seq(Rows) /\ n \in 0 .. 1 /\ check \in ToSet(Authorization)
  <2>1. authRows[e] \in Seq(Rows) /\ n < Len(Authorization) /\ check = Authorization[n + 1]
    BY <1>1, <1>3
  <2>2. n \in Nat
    BY <2>1, LenProperties
  <2> HIDE DEF n, check, e
  <2>3. n = 0 \/ n = 1
    BY <1>4, <2>1, <2>2
  <2>4. check \in ToSet(Authorization)
    BY <1>4, <2>1, <2>3
  <2> QED
    BY <2>1, <2>3, <2>4
<1> DEFINE new == rows(status, requests)
           last == row(status, requests)
<1>6. last \in Rows /\ last.check = check /\ last.status = status
  BY <1>5, RowFields
<1>7. last = Row(check, status, requests)
  OBVIOUS
<1> HIDE DEF last
<1>8. /\ new \in Seq(Rows) /\ Len(new) = n + 1
      /\ \A i \in 1 .. n : new[i] = authRows[e][i]
      /\ new[n + 1] = last
  BY <1>5, <1>6, AppendProperties DEF last
<1>9. authRows' = [authRows EXCEPT ![e] = new]
  BY <1>2
<1> HIDE DEF new
<1>10. TypeOK'
  <2>1. authRows' \in [Endpoints -> Seq(Rows)]
    BY <1>3, <1>8, <1>9
  <2>2. count' \in 0 .. maximum
    BY <1>2, ParametersAssumption DEF RowsInv, TypeOK, Take
  <2> QED
    BY <1>3, <2>1, <2>2 DEF RowsInv, TypeOK
<1>11. Compared(e, new)
  <2>1. Compared(e, authRows[e]) /\ DOMAIN authRows[e] = 1 .. n /\ n \in 0 .. 1
        /\ DOMAIN new = 1 .. n + 1
    BY <1>1, <1>5, <1>8, LenProperties DEF RowsInv
  <2>2. check = Authorization[n + 1]
    OBVIOUS
  <2>3. /\ last.check = Authorization[n + 1]
        /\ Candidate(e, Authorization[n + 1]) =>
             last = Row(Authorization[n + 1], "TESTED", 2) \/ last.status \in NotAttempted
    BY <1>2, <1>6, <1>7, <2>2
  <2> HIDE DEF n, check, e
  <2> QED
    BY <1>4, <1>8, <2>1, <2>3 DEF Compared
<1>12. \A d \in Endpoints : Compared(d, authRows[d])'
  <2> TAKE d \in Endpoints
  <2>1. authRows'[d] = IF d = e THEN new ELSE authRows[d]
    BY <1>3, <1>9
  <2>2. Compared(d, authRows[d])
    BY DEF RowsInv
  <2>3. Compared(d, authRows'[d])
    BY <1>11, <2>1, <2>2
  <2> QED
    BY <2>3 DEF Compared, Candidate
<1>13. Over'
  BY <1>3 DEF Over
<1> QED
  BY <1>3, <1>10, <1>12, <1>13, TestsKept DEF RowsInv

LEMMA EndFits ==
    ASSUME RowsInv, CompareRaises \/ Finish \/ Cancel
    PROVE  RowsInv'
<1>1. /\ UNCHANGED <<maximum, test, authRows, answered, mutated>>
      /\ UNCHANGED count \/ Take(1) \/ Take(2)
      /\ phase' \in {"finished", "failed", "cancelled"}
      /\ phase' = "finished" => Ended = Endpoints /\ Uncompared = {}
  BY DEF CompareRaises, Finish, Cancel
<1>2. TypeOK'
  BY <1>1, ParametersAssumption DEF RowsInv, TypeOK, Take
<1>3. \A e \in Endpoints : Compared(e, authRows[e])'
  BY <1>1 DEF RowsInv
<1>4. Over'
  BY <1>1 DEF Over, Ended, Uncompared
<1> QED
  BY <1>1, <1>2, <1>3, <1>4, TestsKept DEF RowsInv

LEMMA StepFits == RowsInv /\ [Next]_vars => RowsInv'
<1> SUFFICES ASSUME RowsInv, [Next]_vars PROVE RowsInv'
  OBVIOUS
<1>1. CASE UNCHANGED vars
  <2>1. UNCHANGED <<phase, maximum, count, test, authRows, answered, mutated>>
    BY <1>1 DEF vars
  <2>2. TypeOK' /\ Over' /\ \A e \in Endpoints : Compared(e, authRows[e])'
    BY <2>1 DEF RowsInv, TypeOK, Over, Ended, Uncompared
  <2> QED
    BY <2>1, <2>2, TestsKept DEF RowsInv
<1> QED
  BY <1>1, TestEndpointFits, CompareFits, EndFits DEF Next, Execute

LEMMA InitFits == Init => RowsInv
<1> SUFFICES ASSUME Init PROVE RowsInv
  OBVIOUS
<1>1. TypeOK
  <2>1. [pc |-> "queued", rows |-> << >>, work |-> {}, activeRows |-> << >>] \in Test
    BY NoRows DEF Test
  <2> QED
    BY <2>1, NoRows, ParametersAssumption DEF Init, TypeOK
<1>2. \A e \in Endpoints : test[e].pc = "queued" /\ test[e].rows = << >> /\ authRows[e] = << >>
  BY DEF Init
<1>3. \A e \in Endpoints : Fits(e, test[e], answered, mutated)
  BY <1>2 DEF Fits, Ordered, Come, Heard
<1>4. \A e \in Endpoints : Compared(e, authRows[e])
  BY <1>2 DEF Compared, Authorization
<1>5. Over
  BY DEF Init, Over
<1> QED
  BY <1>1, <1>3, <1>4, <1>5 DEF RowsInv

LEMMA RowsAlways == Spec => []RowsInv
BY InitFits, StepFits, PTL DEF Spec

-----------------------------------------------------------------------------
(* The theorems, for any inventory, active checks and budgets.              *)

\* Every row is one of a check, every claim a number of requests, no more requests are
\* granted than the budget has, and every mutation answered is one of an active check.
THEOREM TypeCorrect == Spec => []TypeOK
<1>1. RowsInv => TypeOK
  BY DEF RowsInv
<1> QED
  BY <1>1, RowsAlways, PTL

\* The names of the order are those of the checks, each of them once.
LEMMA OrderOfChecks ==
    /\ {Order[i] : i \in 1 .. 6 + Len(Active)} = Checks
    /\ Cardinality(Checks) = 6 + Len(Active)
    /\ \A i, j \in 1 .. 6 + Len(Active) : Order[i] = Order[j] => i = j
<1> DEFINE n == 6 + Len(Active)
           order == [i \in 1 .. n |-> Order[i]]
<1>1. Len(Active) \in Nat /\ DOMAIN Active = 1 .. Len(Active) /\ n \in Nat
  BY Constants
<1>2. /\ Order[1] = "insecure-transport" /\ Order[2] = "baseline"
      /\ Order[3] = "security-headers" /\ Order[4] = "excessive-data-exposure"
      /\ Order[5] = "cors-misconfiguration" /\ Order[6] = "missing-authentication"
  <2>1. \A i \in 1 .. 4 : Order[2 + i] = Passive[i]
    BY Orders
  <2>2. /\ Order[2 + 1] = Passive[1] /\ Order[2 + 2] = Passive[2]
        /\ Order[2 + 3] = Passive[3] /\ Order[2 + 4] = Passive[4]
    BY <2>1
  <2> QED
    BY <2>2, Orders, Passives
<1>3. \A i \in DOMAIN Active : Order[6 + i] = Active[i]
  BY Orders
<1>4. \A i \in 7 .. n : i - 6 \in DOMAIN Active /\ Order[i] = Active[i - 6]
  <2> TAKE i \in 7 .. n
  <2>1. i - 6 \in DOMAIN Active /\ 6 + (i - 6) = i
    BY <1>1
  <2> QED
    BY <1>3, <2>1
<1>5. ToSet(Passive) = {"security-headers", "excessive-data-exposure",
                        "cors-misconfiguration", "missing-authentication"}
  BY Passives DEF ToSet
<1>6. \A i \in 1 .. n : Order[i] \in Checks
  <2>1. \A i \in 1 .. 6 : Order[i] \in Checks
    BY <1>2, <1>5 DEF Checks
  <2>2. \A i \in 7 .. n : Order[i] \in Checks
    BY <1>4, Constants
  <2> QED
    BY <1>1, <2>1, <2>2
<1>7. \A check \in Checks : \E i \in 1 .. n : Order[i] = check
  <2> TAKE check \in Checks
  <2>1. CASE check \in ToSet(Active)
    <3>1. PICK i \in DOMAIN Active : Active[i] = check
      BY <2>1 DEF ToSet
    <3>2. 6 + i \in 1 .. n
      BY <1>1
    <3> QED
      BY <1>3, <3>1, <3>2
  <2>2. CASE check \notin ToSet(Active)
    <3>1. check \in {"insecure-transport", "baseline"} \union ToSet(Passive)
      BY <2>2 DEF Checks
    <3>2. \E i \in 1 .. 6 : Order[i] = check
      BY <1>2, <1>5, <3>1
    <3> QED
      BY <1>1, <3>2
  <2> QED
    BY <2>1, <2>2
<1>8. \A i, j \in 1 .. n : Order[i] = Order[j] => i = j
  <2> SUFFICES ASSUME NEW i \in 1 .. n, NEW j \in 1 .. n, Order[i] = Order[j]
               PROVE  i = j
    OBVIOUS
  <2>1. \A k \in 1 .. 6 : Order[k] \notin ToSet(Active)
    BY <1>2, <1>5, NamesAssumption
  <2>2. \A k \in 7 .. n : Order[k] \in ToSet(Active)
    BY <1>4 DEF ToSet
  <2>3. CASE i \in 1 .. 6 /\ j \in 1 .. 6
    BY <1>2, <2>3
  <2>4. CASE i \in 7 .. n /\ j \in 7 .. n
    <3>1. i - 6 = j - 6
      BY <1>4, <2>4, NamesAssumption
    <3> QED
      BY <2>4, <3>1
  <2>5. CASE (i \in 1 .. 6 /\ j \in 7 .. n) \/ (i \in 7 .. n /\ j \in 1 .. 6)
    BY <2>1, <2>2, <2>5
  <2> QED
    BY <1>1, <2>3, <2>4, <2>5
<1> HIDE DEF n
<1>9. {Order[i] : i \in 1 .. n} = Checks
  BY <1>6, <1>7
<1>10. ExistsBijection(1 .. n, Checks)
  <2>1. order \in Bijection(1 .. n, Checks)
    BY <1>6, <1>7, <1>8 DEF Bijection, Injection, Surjection, IsInjective
  <2> HIDE DEF order
  <2> QED
    BY <2>1 DEF ExistsBijection
<1>11. IsFiniteSet(1 .. n) /\ Cardinality(1 .. n) = n
  BY <1>1, FS_Interval
<1> HIDE DEF order
<1>12. Cardinality(Checks) = n
  BY <1>10, <1>11, FS_Bijection
<1> QED
  BY <1>8, <1>9, <1>12 DEF n

\* However the test of an endpoint ends, but by an exception that _test_endpoint does not
\* expect, it leaves one row of every check and no other (_test_endpoint,
\* _input_validation_tests and their error paths).
THEOREM RowsAreComplete == Spec => []OneRowEach
<1>1. RowsInv => OneRowEach
  <2> SUFFICES ASSUME RowsInv, NEW e \in Endpoints, test[e].pc = "done"
               PROVE  /\ {row.check : row \in ToSet(test[e].rows)} = Checks
                      /\ Len(test[e].rows) = Cardinality(Checks)
    BY DEF OneRowEach
  <2> DEFINE rows == test[e].rows
             n == 6 + Len(Active)
  <2>1. rows \in Seq(Rows) /\ Ordered(rows, n)
    BY TestAt DEF Fits, Come
  <2>2. Len(rows) = n /\ DOMAIN rows = 1 .. n /\ \A i \in 1 .. n : rows[i].check = Order[i]
    BY <2>1, LenProperties DEF Ordered
  <2> HIDE DEF rows, n
  <2>3. {row.check : row \in ToSet(rows)} = {Order[i] : i \in 1 .. n}
    BY <2>2 DEF ToSet
  <2> QED
    BY <2>2, <2>3, OrderOfChecks DEF rows, n
<1> QED
  BY <1>1, RowsAlways, PTL

\* A COMPLETE assessment has been measured: every baseline was answered, every mutation
\* within the limit of the profile too, and every comparison that applies was made
\* (_test_endpoint, _authorization_tests, calculate_coverage).
THEOREM CompletenessIsMeasured == Spec => []CompleteIsMeasured
<1>1. RowsInv => CompleteIsMeasured
  <2> SUFFICES ASSUME RowsInv, Assessment = "COMPLETE"
               PROVE  /\ answered = Endpoints
                      /\ \A e \in Endpoints :
                           /\ \A i \in DOMAIN Active, p \in DOMAIN Inventory[e].points :
                                p \in Limited(e, Active[i]) => <<e, Active[i], p>> \in mutated
                           /\ \A i \in DOMAIN Authorization : Candidate(e, Authorization[i]) =>
                                authRows[e][i] = Row(Authorization[i], "TESTED", 2)
    BY DEF CompleteIsMeasured
  <2>1. Tested = Endpoints /\ Endpoints # {} /\ \A e \in Endpoints : Gaps(e) = {}
    <3>1. /\ Tested # {}
          /\ ~ (Tested # Endpoints \/ \E e \in Endpoints : Gaps(e) # {})
      BY DEF Assessment
    <3> QED
      BY <3>1
  <2>2. phase = "finished" /\ Ended = Endpoints /\ Uncompared = {}
    <3>1. \E e \in Endpoints : Reported(e) # {}
      BY <2>1 DEF Tested
    <3> QED
      BY <3>1 DEF Reported, RowsInv, Over
  <2>3. ASSUME NEW e \in Endpoints
        PROVE  /\ e \in answered
               /\ \A i \in DOMAIN Active, p \in DOMAIN Inventory[e].points :
                    p \in Limited(e, Active[i]) => <<e, Active[i], p>> \in mutated
               /\ \A i \in DOMAIN Authorization : Candidate(e, Authorization[i]) =>
                    authRows[e][i] = Row(Authorization[i], "TESTED", 2)
    <3> DEFINE rows == test[e].rows
               auth == authRows[e]
               n == 6 + Len(Active)
    <3>1. /\ rows \in Seq(Rows) /\ auth \in Seq(Rows) /\ Compared(e, auth)
          /\ Fits(e, test[e], answered, mutated) /\ test[e].pc \in {"done", "raised"}
          /\ Len(Active) \in Nat /\ DOMAIN Active = 1 .. Len(Active)
      BY <2>2, TestAt, Constants DEF RowsInv, TypeOK, Ended
    <3>2. /\ Len(auth) = 2 /\ DOMAIN auth = 1 .. 2
          /\ DOMAIN Authorization = 1 .. 2
          /\ Authorization[1] = "bola" /\ Authorization[2] = "bfla"
      <4>1. DOMAIN Authorization = 1 .. 2 /\ Len(Authorization) = 2
            /\ Authorization[1] = "bola" /\ Authorization[2] = "bfla"
        BY DEF Authorization
      <4>2. Len(auth) <= 2 /\ ~ (Len(auth) < 2)
        BY <2>2, <3>1, <4>1 DEF Compared, Uncompared
      <4>3. Len(auth) \in Nat /\ DOMAIN auth = 1 .. Len(auth)
        BY <3>1, LenProperties
      <4> HIDE DEF auth
      <4>4. Len(auth) = 2
        BY <4>2, <4>3
      <4> QED
        BY <4>1, <4>3, <4>4
    <3>3. /\ Len(rows) \in Nat /\ DOMAIN rows = 1 .. Len(rows)
          /\ \A i \in 1 .. Len(rows) : rows[i].check = Order[i]
          /\ Len(rows) = IF test[e].pc = "done" THEN n ELSE 0
      BY <3>1, LenProperties DEF Fits, Ordered, Come
    <3> HIDE DEF rows, auth
    <3>4. /\ \A i \in 1 .. Len(rows) : rows[i] \in Reported(e)
          /\ \A i \in 1 .. 2 : auth[i] \in Reported(e)
          /\ \A row \in Reported(e) : \/ \E i \in 1 .. Len(rows) : row = rows[i]
                                      \/ \E i \in 1 .. 2 : row = auth[i]
      <4>1. Reported(e) = ToSet(rows \o auth)
        BY <2>2 DEF Reported, rows, auth
      <4>2. /\ DOMAIN (rows \o auth) = 1 .. Len(rows) + 2
            /\ \A i \in 1 .. Len(rows) + 2 :
                 (rows \o auth)[i] = IF i <= Len(rows) THEN rows[i] ELSE auth[i - Len(rows)]
        <5>1. /\ rows \o auth \in Seq(Rows) /\ Len(rows \o auth) = Len(rows) + Len(auth)
              /\ \A i \in 1 .. Len(rows) + Len(auth) :
                   (rows \o auth)[i] = IF i <= Len(rows) THEN rows[i] ELSE auth[i - Len(rows)]
          BY <3>1, ConcatProperties
        <5> QED
          BY <3>2, <5>1, LenProperties
      <4>3. \A i \in 1 .. Len(rows) : rows[i] \in Reported(e)
        BY <3>3, <4>1, <4>2 DEF ToSet
      <4>4. ASSUME NEW i \in 1 .. 2 PROVE auth[i] \in Reported(e)
        <5>1. /\ Len(rows) + i \in 1 .. Len(rows) + 2 /\ ~ (Len(rows) + i <= Len(rows))
              /\ (Len(rows) + i) - Len(rows) = i
          BY <3>3
        <5>2. (rows \o auth)[Len(rows) + i] = auth[i]
          BY <4>2, <5>1
        <5> QED
          BY <4>1, <4>2, <5>1, <5>2 DEF ToSet
      <4>5. ASSUME NEW row \in Reported(e)
            PROVE  \/ \E i \in 1 .. Len(rows) : row = rows[i]
                   \/ \E i \in 1 .. 2 : row = auth[i]
        <5>1. PICK i \in 1 .. Len(rows) + 2 : row = (rows \o auth)[i]
          BY <4>1, <4>2 DEF ToSet
        <5>2. CASE i <= Len(rows)
          BY <3>3, <4>2, <5>1, <5>2
        <5>3. CASE ~ (i <= Len(rows))
          <6>1. i - Len(rows) \in 1 .. 2 /\ row = auth[i - Len(rows)]
            BY <3>3, <4>2, <5>1, <5>3
          <6> QED
            BY <6>1
        <5> QED
          BY <5>2, <5>3
      <4> QED
        BY <4>3, <4>4, <4>5
    <3>5. PICK i \in 1 .. Len(rows) : rows[i].check = "baseline" /\ rows[i].status = "TESTED"
      <4>1. PICK row \in Reported(e) : row.check = "baseline" /\ row.status = "TESTED"
        BY <2>1 DEF Tested
      <4>2. \A j \in 1 .. 2 : auth[j].check # "baseline"
        BY <3>1, <3>2 DEF Compared
      <4> QED
        BY <3>4, <4>1, <4>2
    <3>6. test[e].pc = "done" /\ Len(rows) = n
      BY <3>3, <3>5
    <3>7. i = 2
      <4>1. i \in 1 .. n /\ 2 \in 1 .. n /\ Order[i] = Order[2]
        BY <3>1, <3>3, <3>5, <3>6, Orders
      <4> QED
        BY <4>1, OrderOfChecks
    <3>8. e \in answered
      BY <3>1, <3>5, <3>6, <3>7 DEF Fits, Heard, rows
    <3>9. \A row \in Reported(e) : row.status \in NotAttempted =>
            row.check \in {"baseline", "insecure-transport"}
      BY <2>1 DEF Gaps, NotAttempted
    <3>10. ASSUME NEW j \in DOMAIN Active, NEW p \in DOMAIN Inventory[e].points,
                  p \in Limited(e, Active[j])
           PROVE  <<e, Active[j], p>> \in mutated
      <4>1. 6 + j \in 1 .. Len(rows) /\ 6 + j # 1 /\ 6 + j # 2 /\ 6 + j \in 1 .. n
            /\ 1 \in 1 .. n /\ 2 \in 1 .. n
        BY <3>1, <3>6
      <4>2. rows[6 + j].check \notin {"baseline", "insecure-transport"}
        BY <3>3, <4>1, Orders, OrderOfChecks
      <4>3. rows[6 + j].status \notin NotAttempted
        BY <3>4, <3>9, <4>1, <4>2
      <4>4. Accounted(e, {}, rows, 6, mutated) /\ <<j, p>> \in Due(e)
        BY <3>1, <3>6, <3>10 DEF Fits, Due, rows
      <4> QED
        BY <4>3, <4>4 DEF Accounted
    <3>11. ASSUME NEW j \in DOMAIN Authorization, Candidate(e, Authorization[j])
           PROVE  auth[j] = Row(Authorization[j], "TESTED", 2)
      <4>1. j \in 1 .. 2 /\ auth[j].check \notin {"baseline", "insecure-transport"}
        BY <3>1, <3>2 DEF Compared
      <4>2. auth[j].status \notin NotAttempted
        BY <3>4, <3>9, <4>1
      <4> QED
        BY <3>1, <3>2, <3>11, <4>1, <4>2 DEF Compared
    <3> QED
      BY <3>8, <3>10, <3>11 DEF auth
  <2> QED
    BY <2>3 DEF RowsInv, TypeOK
<1> QED
  BY <1>1, RowsAlways, PTL

-----------------------------------------------------------------------------
(* The claims.  A step of a test, or a comparison, adds no more requests   *)
(* to the rows than it took from the budget; rows that are moved to the    *)
(* end of others keep their place among all that were written.             *)

Claims == UNION {Claimed(e) : e \in Endpoints}

\* The active checks have rows of their own only while they are under way.
Started == \A e \in Endpoints : test[e].pc # "active" => test[e].activeRows = << >>

\* No comparison is made before the last test has ended.
Sequenced == \A e \in Endpoints : authRows[e] # << >> => Ended = Endpoints

Paid == IsFiniteSet(Claims) /\ Cardinality(Claims) <= count

ClaimInv == RowsInv /\ Started /\ Sequenced /\ Paid

\* What row i claims, if there is one.
Claim(rows, i) == IF i \in DOMAIN rows THEN rows[i].requests ELSE 0

\* The rows "new" claim no more than "old", except for "extra" requests in row k.
Extra(old, new, k, extra) ==
    \A i \in Nat : Claim(new, i) <= Claim(old, i) + (IF i = k THEN extra ELSE 0)

\* Rows that claim nothing.
Free(rows) == \A i \in DOMAIN rows : rows[i].requests = 0

\* The rows of the test in that state.
Held(state) == state.rows \o state.activeRows

LEMMA ClaimTyped ==
    ASSUME NEW rows \in Seq(Rows)
    PROVE  /\ \A i : Claim(rows, i) \in Nat
           /\ \A i : Claim(rows, i) > 0 => i \in 1 .. Len(rows) /\ i \in Nat
           /\ DOMAIN rows = 1 .. Len(rows) /\ Len(rows) \in Nat
<1>1. DOMAIN rows = 1 .. Len(rows) /\ Len(rows) \in Nat
  BY LenProperties
<1>2. ASSUME NEW i \in DOMAIN rows PROVE rows[i].requests \in Nat
  <2>1. rows[i] \in Rows
    BY <1>1, ElementOfSeq
  <2> QED
    BY <2>1 DEF Rows
<1>3. ASSUME NEW i PROVE /\ Claim(rows, i) \in Nat
                         /\ Claim(rows, i) > 0 => i \in 1 .. Len(rows) /\ i \in Nat
  <2>1. CASE i \in DOMAIN rows
    <3>1. Claim(rows, i) = rows[i].requests /\ i \in 1 .. Len(rows) /\ i \in Nat
      BY <1>1, <2>1 DEF Claim
    <3> QED
      BY <1>2, <2>1, <3>1
  <2>2. CASE i \notin DOMAIN rows
    <3>1. Claim(rows, i) = 0
      BY <2>2 DEF Claim
    <3> QED
      BY <3>1
  <2> QED
    BY <2>1, <2>2
<1> QED
  BY <1>1, <1>3

LEMMA ClaimOfJoined ==
    ASSUME NEW a \in Seq(Rows), NEW b \in Seq(Rows), NEW i \in Nat
    PROVE  /\ a \o b \in Seq(Rows)
           /\ Claim(a \o b, i) = IF i <= Len(a) THEN Claim(a, i) ELSE Claim(b, i - Len(a))
<1>1. /\ a \o b \in Seq(Rows) /\ Len(a \o b) = Len(a) + Len(b)
      /\ \A j \in 1 .. Len(a) + Len(b) :
           (a \o b)[j] = IF j <= Len(a) THEN a[j] ELSE b[j - Len(a)]
  BY ConcatProperties
<1>2. /\ DOMAIN a = 1 .. Len(a) /\ Len(a) \in Nat
      /\ DOMAIN b = 1 .. Len(b) /\ Len(b) \in Nat
      /\ DOMAIN (a \o b) = 1 .. Len(a) + Len(b)
  BY <1>1, ClaimTyped
<1>3. CASE i <= Len(a)
  <2>1. i \in 1 .. Len(a) <=> i \in 1 .. Len(a) + Len(b)
    BY <1>2, <1>3
  <2> QED
    BY <1>1, <1>2, <1>3, <2>1 DEF Claim
<1>4. CASE ~ (i <= Len(a))
  <2>1. i - Len(a) \in 1 .. Len(b) <=> i \in 1 .. Len(a) + Len(b)
    BY <1>2, <1>4
  <2> QED
    BY <1>1, <1>2, <1>4, <2>1 DEF Claim
<1> QED
  BY <1>1, <1>3, <1>4

\* One change after the other.
LEMMA ExtraThenFree ==
    ASSUME NEW a \in Seq(Rows), NEW b \in Seq(Rows), NEW c \in Seq(Rows),
           NEW k \in Nat, NEW extra \in Nat, NEW j, Extra(a, b, k, extra), Extra(b, c, j, 0)
    PROVE  Extra(a, c, k, extra)
<1> SUFFICES ASSUME NEW i \in Nat
             PROVE  Claim(c, i) <= Claim(a, i) + (IF i = k THEN extra ELSE 0)
  BY DEF Extra
<1>1. Claim(a, i) \in Nat /\ Claim(b, i) \in Nat /\ Claim(c, i) \in Nat
  BY ClaimTyped
<1>2. Claim(c, i) <= Claim(b, i)
  BY <1>1 DEF Extra
<1>3. Claim(b, i) <= Claim(a, i) + (IF i = k THEN extra ELSE 0)
  BY DEF Extra
<1> QED
  BY <1>1, <1>2, <1>3

LEMMA FreeAdds ==
    ASSUME NEW a \in Seq(Rows), NEW b \in Seq(Rows), Free(b), NEW k
    PROVE  a \o b \in Seq(Rows) /\ Extra(a, a \o b, k, 0) /\ Extra(a, b, k, 0)
<1>1. \A i : Claim(b, i) = 0
  BY DEF Free, Claim
<1>2. ASSUME NEW i \in Nat
      PROVE  /\ Claim(a \o b, i) <= Claim(a, i) + (IF i = k THEN 0 ELSE 0)
             /\ Claim(b, i) <= Claim(a, i) + (IF i = k THEN 0 ELSE 0)
  <2>1. Claim(a \o b, i) = Claim(a, i) \/ Claim(a \o b, i) = 0
    BY <1>1, ClaimOfJoined
  <2>2. Claim(a, i) \in Nat
    BY ClaimTyped
  <2> QED
    BY <1>1, <2>1, <2>2
<1> QED
  BY <1>2, ConcatProperties DEF Extra

\* Rows that are dropped.
LEMMA DropAdds ==
    ASSUME NEW a \in Seq(Rows), NEW b \in Seq(Rows), NEW k
    PROVE  Extra(a \o b, a, k, 0)
<1> SUFFICES ASSUME NEW i \in Nat PROVE Claim(a, i) <= Claim(a \o b, i) + 0
  BY DEF Extra
<1>1. a \o b \in Seq(Rows)
  BY ConcatProperties
<1>2. Claim(a, i) \in Nat /\ Claim(a \o b, i) \in Nat /\ Len(a) \in Nat
  BY <1>1, ClaimTyped
<1>3. i <= Len(a) => Claim(a \o b, i) = Claim(a, i)
  BY ClaimOfJoined
<1>4. ~ (i <= Len(a)) => Claim(a, i) = 0
  BY <1>2, ClaimTyped DEF Claim
<1> QED
  BY <1>2, <1>3, <1>4

\* A change in the rows that come last.
LEMMA TailAdds ==
    ASSUME NEW a \in Seq(Rows), NEW b \in Seq(Rows), NEW c \in Seq(Rows),
           NEW k \in Nat, NEW extra \in Nat, k > 0, Extra(b, c, k, extra)
    PROVE  Extra(a \o b, a \o c, Len(a) + k, extra) /\ Len(a) + k \in Nat
<1>1. Len(a) \in Nat
  BY ClaimTyped
<1> SUFFICES ASSUME NEW i \in Nat
             PROVE  Claim(a \o c, i)
                      <= Claim(a \o b, i) + (IF i = Len(a) + k THEN extra ELSE 0)
  BY <1>1 DEF Extra
<1>2. CASE i <= Len(a)
  <2>1. Claim(a \o c, i) = Claim(a, i) /\ Claim(a \o b, i) = Claim(a, i)
    BY <1>2, ClaimOfJoined
  <2>2. Claim(a, i) \in Nat
    BY ClaimTyped
  <2> QED
    BY <1>1, <2>1, <2>2
<1>3. CASE ~ (i <= Len(a))
  <2>1. /\ Claim(a \o c, i) = Claim(c, i - Len(a))
        /\ Claim(a \o b, i) = Claim(b, i - Len(a))
    BY <1>3, ClaimOfJoined
  <2>2. i - Len(a) \in Nat /\ (i - Len(a) = k <=> i = Len(a) + k)
    BY <1>1, <1>3
  <2>3. Claim(c, i - Len(a)) <= Claim(b, i - Len(a)) + (IF i - Len(a) = k THEN extra ELSE 0)
    BY <2>2 DEF Extra
  <2> QED
    BY <2>1, <2>2, <2>3
<1> QED
  BY <1>2, <1>3

LEMMA RowAdds ==
    ASSUME NEW a \in Seq(Rows), NEW row \in Rows
    PROVE  /\ Append(a, row) \in Seq(Rows)
           /\ Extra(a, Append(a, row), Len(a) + 1, row.requests)
           /\ Len(a) + 1 \in Nat /\ row.requests \in Nat
<1>1. /\ Append(a, row) \in Seq(Rows) /\ Len(Append(a, row)) = Len(a) + 1
      /\ \A i \in 1 .. Len(a) : Append(a, row)[i] = a[i]
      /\ Append(a, row)[Len(a) + 1] = row
  BY AppendProperties
<1>2. /\ DOMAIN a = 1 .. Len(a) /\ Len(a) \in Nat
      /\ DOMAIN Append(a, row) = 1 .. Len(a) + 1
      /\ \A i : Claim(a, i) \in Nat
      /\ row.requests \in Nat
  BY <1>1, ClaimTyped DEF Rows
<1>3. ASSUME NEW i \in Nat
      PROVE  Claim(Append(a, row), i)
               <= Claim(a, i) + (IF i = Len(a) + 1 THEN row.requests ELSE 0)
  <2>1. CASE i = Len(a) + 1
    <3>1. i \notin DOMAIN a /\ i \in DOMAIN Append(a, row)
      BY <1>2, <2>1
    <3> QED
      BY <1>1, <1>2, <2>1, <3>1 DEF Claim
  <2>2. CASE i # Len(a) + 1
    <3>1. i \in DOMAIN Append(a, row) <=> i \in DOMAIN a
      BY <1>2, <2>2
    <3>2. Claim(Append(a, row), i) = Claim(a, i)
      BY <1>1, <1>2, <3>1 DEF Claim
    <3> QED
      BY <1>2, <2>2, <3>2
  <2> QED
    BY <2>1, <2>2
<1> QED
  BY <1>1, <1>2, <1>3 DEF Extra

LEMMA RowClaims ==
    ASSUME NEW check, NEW status, NEW requests
    PROVE  Row(check, status, requests).requests = requests
BY DEF Row

LEMMA JoinedFree ==
    ASSUME NEW a \in Seq(Rows), NEW b \in Seq(Rows), Free(a), Free(b)
    PROVE  Free(a \o b)
<1>1. \A i \in 1 .. Len(a) + Len(b) :
        (a \o b)[i] = IF i <= Len(a) THEN a[i] ELSE b[i - Len(a)]
  BY ConcatProperties
<1>2. /\ DOMAIN (a \o b) = 1 .. Len(a) + Len(b)
      /\ DOMAIN a = 1 .. Len(a) /\ Len(a) \in Nat
      /\ DOMAIN b = 1 .. Len(b) /\ Len(b) \in Nat
  BY ConcatProperties, ClaimTyped
<1> SUFFICES ASSUME NEW i \in 1 .. Len(a) + Len(b) PROVE (a \o b)[i].requests = 0
  BY <1>2 DEF Free
<1>3. CASE i <= Len(a)
  BY <1>1, <1>2, <1>3 DEF Free
<1>4. CASE ~ (i <= Len(a))
  <2>1. i - Len(a) \in 1 .. Len(b)
    BY <1>2, <1>4
  <2> QED
    BY <1>1, <1>2, <1>4, <2>1 DEF Free
<1> QED
  BY <1>3, <1>4

LEMMA FreeRows ==
    ASSUME NEW e
    PROVE  /\ SkippedRows(e) \in Seq(Rows) /\ Free(SkippedRows(e))
           /\ StartedRows(e) \in Seq(Rows) /\ Free(StartedRows(e))
           /\ ErrorRows \in Seq(Rows) /\ Free(ErrorRows)
           /\ FanOut(e) \in Seq(Rows) /\ Free(FanOut(e))
           /\ << >> \in Seq(Rows) /\ Free(<< >>)
<1>1. /\ SkippedRows(e) \in Seq(Rows) /\ StartedRows(e) \in Seq(Rows)
      /\ ErrorRows \in Seq(Rows) /\ FanOut(e) \in Seq(Rows) /\ << >> \in Seq(Rows)
  BY StaticRows, FanOutRows, NoRows
<1>2. Free(SkippedRows(e)) /\ Free(StartedRows(e)) /\ Free(ErrorRows)
  BY RowClaims DEF Free, SkippedRows, StartedRows, ErrorRows
<1>3. Free(<< >>)
  BY DEF Free
<1>4. Free(FanOut(e))
  <2>1. /\ DOMAIN FanOut(e) = 1 .. 5 + Len(Active)
        /\ \A i \in 1 .. 5 + Len(Active) : FanOut(e)[i].requests = 0
    BY FanOutRows, LenProperties
  <2> QED
    BY <2>1 DEF Free
<1> QED
  BY <1>1, <1>2, <1>3, <1>4

\* A claim is a number up to what its row claims.
ClaimsKnown ==
    \A c : c \in Claims <=>
      \E e \in Endpoints, i \in Nat : \E n \in 1 .. Claim(Written(e), i) : c = <<<<e, i>>, n>>

WrittenTyped == \A e \in Endpoints : Written(e) \in Seq(Rows)

LEMMA WrittenRows ==
    ASSUME RowsInv, NEW e \in Endpoints
    PROVE  /\ test[e] \in Test /\ test[e].rows \in Seq(Rows) /\ test[e].activeRows \in Seq(Rows)
           /\ Held(test[e]) \in Seq(Rows) /\ authRows[e] \in Seq(Rows)
           /\ Written(e) = Held(test[e]) \o authRows[e] /\ Written(e) \in Seq(Rows)
<1>1. /\ test[e] \in Test /\ test[e].rows \in Seq(Rows) /\ test[e].activeRows \in Seq(Rows)
      /\ authRows[e] \in Seq(Rows)
  BY DEF RowsInv, TypeOK, Test
<1>2. Held(test[e]) \in Seq(Rows)
  BY <1>1, ConcatProperties DEF Held
<1>3. Written(e) = Held(test[e]) \o authRows[e]
  BY DEF Written, Held
<1> QED
  BY <1>1, <1>2, <1>3, ConcatProperties

LEMMA RowsTyped == RowsInv => WrittenTyped
BY WrittenRows DEF WrittenTyped

LEMMA ClaimsAre == WrittenTyped => ClaimsKnown
<1> SUFFICES ASSUME WrittenTyped, NEW c
             PROVE  c \in Claims <=>
                      \E e \in Endpoints, i \in Nat :
                        \E n \in 1 .. Claim(Written(e), i) : c = <<<<e, i>>, n>>
  BY DEF ClaimsKnown
<1>1. \A e \in Endpoints : \A i \in DOMAIN Written(e) :
        i \in Nat /\ Claim(Written(e), i) = Written(e)[i].requests
  BY ClaimTyped DEF WrittenTyped, Claim
<1>2. \A e \in Endpoints, i \in Nat : \A n \in 1 .. Claim(Written(e), i) : i \in DOMAIN Written(e)
  <2> SUFFICES ASSUME NEW e \in Endpoints, NEW i \in Nat, i \notin DOMAIN Written(e)
               PROVE  1 .. Claim(Written(e), i) = {}
    OBVIOUS
  <2>1. Claim(Written(e), i) = 0
    BY DEF Claim
  <2> QED
    BY <2>1
<1>3. c \in Claims <=>
        \E e \in Endpoints : \E i \in DOMAIN Written(e) :
          c \in {<<e, i>>} \X (1 .. Written(e)[i].requests)
  BY DEF Claims, Claimed
<1>4. \A e, i : c \in {<<e, i>>} \X (1 .. Written(e)[i].requests)
                  <=> \E n \in 1 .. Written(e)[i].requests : c = <<<<e, i>>, n>>
  OBVIOUS
<1> QED
  BY <1>1, <1>2, <1>3, <1>4

\* What a step adds to the claims it has taken from the budget.
LEMMA ClaimsPaid ==
    ASSUME RowsInv, RowsInv', Paid, NEW e \in Endpoints,
           \A d \in Endpoints : d # e => Written(d)' = Written(d),
           NEW k \in Nat, NEW extra \in Nat, Extra(Written(e), Written(e)', k, extra),
           count' >= count + extra
    PROVE  Paid'
<1> DEFINE old == Claim(Written(e), k)
           more == {<<e, k>>} \X (old + 1 .. old + extra)
<1>1. WrittenTyped /\ ClaimsKnown
  BY RowsTyped, ClaimsAre
<1>2. WrittenTyped' /\ ClaimsKnown'
  BY RowsTyped, ClaimsAre, PTL
<1>3. \A d \in Endpoints, i \in Nat : /\ Claim(Written(d), i) \in Nat
                                      /\ Claim(Written(d)', i) \in Nat
  BY <1>1, <1>2, ClaimTyped DEF WrittenTyped
<1>4. IsFiniteSet(more) /\ Cardinality(more) = extra
  <2>1. old + 1 \in Int /\ old + extra \in Int /\ old \in Nat
    BY <1>3
  <2>2. /\ IsFiniteSet(old + 1 .. old + extra)
        /\ Cardinality(old + 1 .. old + extra)
             = IF old + 1 > old + extra THEN 0 ELSE (old + extra) - (old + 1) + 1
    BY <2>1, FS_Interval
  <2>3. IsFiniteSet({<<e, k>>}) /\ Cardinality({<<e, k>>}) = 1
    BY FS_Singleton
  <2>4. /\ IsFiniteSet(more)
        /\ Cardinality(more) = Cardinality({<<e, k>>}) * Cardinality(old + 1 .. old + extra)
    BY <2>2, <2>3, FS_Product
  <2> HIDE DEF more, old
  <2>5. Cardinality(old + 1 .. old + extra) = extra
    BY <2>1, <2>2
  <2> QED
    BY <2>3, <2>4, <2>5
<1>5. Claims' \subseteq Claims \union more
  <2> SUFFICES ASSUME NEW c \in Claims' PROVE c \in Claims \/ c \in more
    OBVIOUS
  <2>1. PICK d \in Endpoints, i \in Nat : \E n \in 1 .. Claim(Written(d)', i) : c = <<<<d, i>>, n>>
    BY <1>2 DEF ClaimsKnown
  <2>2. PICK n \in 1 .. Claim(Written(d)', i) : c = <<<<d, i>>, n>>
    BY <2>1
  <2>3. n \in 1 .. Claim(Written(d), i) => c \in Claims
    BY <1>1, <2>2 DEF ClaimsKnown
  <2>4. CASE d # e
    <3>1. Written(d)' = Written(d)
      BY <2>4
    <3> QED
      BY <2>2, <2>3, <3>1
  <2>5. CASE d = e
    <3>1. Claim(Written(e)', i) <= Claim(Written(e), i) + (IF i = k THEN extra ELSE 0)
      BY DEF Extra
    <3>2. /\ Claim(Written(e), i) \in Nat /\ Claim(Written(e)', i) \in Nat
          /\ n \in 1 .. Claim(Written(e)', i)
      BY <1>3, <2>2, <2>5
    <3>3. CASE i # k
      <4>1. n \in 1 .. Claim(Written(e), i)
        BY <3>1, <3>2, <3>3
      <4> QED
        BY <2>3, <2>5, <4>1
    <3>4. CASE i = k
      <4>1. n \in 1 .. old \/ n \in old + 1 .. old + extra
        BY <3>1, <3>2, <3>4
      <4> QED
        BY <2>2, <2>3, <2>5, <3>4, <4>1
    <3> QED
      BY <3>3, <3>4
  <2> QED
    BY <2>4, <2>5
<1> HIDE DEF more
<1>6. IsFiniteSet(Claims) /\ Cardinality(Claims) \in Nat /\ Cardinality(Claims) <= count
  BY FS_CardinalityType DEF Paid
<1>7. /\ IsFiniteSet(Claims \union more)
      /\ Cardinality(Claims \union more) <= Cardinality(Claims) + extra
      /\ Cardinality(Claims \union more) \in Nat
  <2>1. /\ IsFiniteSet(Claims \union more)
        /\ Cardinality(Claims \union more)
             = Cardinality(Claims) + Cardinality(more) - Cardinality(Claims \intersect more)
    BY <1>4, <1>6, FS_Union
  <2>2. Cardinality(Claims \intersect more) \in Nat /\ Cardinality(Claims \union more) \in Nat
    BY <1>4, <2>1, FS_Subset, FS_CardinalityType
  <2> QED
    BY <1>4, <1>6, <2>1, <2>2
<1>8. /\ IsFiniteSet(Claims') /\ Cardinality(Claims') \in Nat
      /\ Cardinality(Claims') <= Cardinality(Claims \union more)
  BY <1>5, <1>7, FS_Subset, FS_CardinalityType
<1>9. count \in Nat /\ count' \in Nat
  BY ParametersAssumption DEF RowsInv, TypeOK
<1>10. Cardinality(Claims') <= count'
  BY <1>6, <1>7, <1>8, <1>9
<1> QED
  BY <1>8, <1>10 DEF Paid

\* A step of a test, while nothing has been compared.
LEMMA TestPays ==
    ASSUME ClaimInv, RowsInv', NEW e \in Endpoints, e \notin Ended, NEW new, Becomes(e, new),
           NEW k \in Nat, NEW extra \in Nat, Extra(Held(test[e]), Held(new), k, extra),
           count' >= count + extra,
           new.pc # "active" => new.activeRows = << >>
    PROVE  ClaimInv'
<1>1. /\ test' = [test EXCEPT ![e] = new] /\ test \in [Endpoints -> Test]
      /\ authRows' = authRows
  BY DEF Becomes, ClaimInv, RowsInv, TypeOK
<1>2. test'[e] = new /\ \A d \in Endpoints : d # e => test'[d] = test[d]
  BY <1>1
<1>3. \A d \in Endpoints : authRows[d] = << >>
  BY DEF ClaimInv, Sequenced
<1>4. Started'
  BY <1>2 DEF ClaimInv, Started
<1>5. Sequenced'
  BY <1>1, <1>3 DEF Sequenced
<1>6. Written(e) = Held(test[e])
  <2>1. Held(test[e]) \in Seq(Rows) /\ Written(e) = Held(test[e]) \o authRows[e]
    BY WrittenRows DEF ClaimInv
  <2> QED
    BY <1>3, <2>1, ConcatEmptySeq
<1>7. Written(e)' = Held(new)
  <2>1. new \in Test
    BY <1>2 DEF RowsInv, TypeOK
  <2>2. Held(new) \in Seq(Rows)
    BY <2>1, ConcatProperties DEF Held, Test
  <2>3. Written(e)' = Held(new) \o << >>
    BY <1>1, <1>2, <1>3 DEF Written, Held
  <2> QED
    BY <2>2, <2>3, ConcatEmptySeq
<1>8. \A d \in Endpoints : d # e => Written(d)' = Written(d)
  BY <1>1, <1>2 DEF Written
<1>9. Extra(Written(e), Written(e)', k, extra)
  BY <1>6, <1>7
<1>10. Paid'
  BY <1>8, <1>9, ClaimsPaid DEF ClaimInv
<1> QED
  BY <1>4, <1>5, <1>10 DEF ClaimInv

\* What a test has when a request of it is under way.
LEMMA TestHolds ==
    ASSUME ClaimInv, NEW e \in Endpoints
    PROVE  /\ test[e] \in Test /\ test[e].rows \in Seq(Rows) /\ test[e].activeRows \in Seq(Rows)
           /\ Held(test[e]) \in Seq(Rows)
           /\ test[e].pc # "active" => /\ test[e].activeRows = << >>
                                       /\ Held(test[e]) = test[e].rows
           /\ count \in Nat
           /\ \A pc \in {"queued", "baseline", "cors", "unauthenticated", "active"} :
                At(e, pc) => e \notin Ended /\ phase = "running" /\ test[e].pc = pc
<1>1. /\ test[e] \in Test /\ test[e].rows \in Seq(Rows) /\ test[e].activeRows \in Seq(Rows)
      /\ Held(test[e]) \in Seq(Rows)
  BY WrittenRows DEF ClaimInv
<1>2. test[e].pc # "active" => test[e].activeRows = << >> /\ Held(test[e]) = test[e].rows
  BY <1>1, ConcatEmptySeq DEF ClaimInv, Started, Held
<1>3. count \in Nat
  BY ParametersAssumption DEF ClaimInv, RowsInv, TypeOK
<1> QED
  BY <1>1, <1>2, <1>3 DEF At, Ended

\* An answer, or none.
LEMMA Grants ==
    ASSUME ClaimInv
    PROVE  /\ \A n \in 0 .. 2 : Take(n) => count' >= count + n
           /\ Take(1) => count' >= count + 0
           /\ NoAnswer \/ UNCHANGED count => count' >= count + 0
<1>1. count \in Nat
  BY ParametersAssumption DEF ClaimInv, RowsInv, TypeOK
<1> QED
  BY <1>1 DEF Take, NoAnswer

LEMMA ToActiveAdds ==
    ASSUME NEW e \in Endpoints, test[e] \in Test, test[e].activeRows = << >>,
           NEW rows \in Seq(Rows)
    PROVE  /\ Held(ToActive(e, rows)) \in Seq(Rows)
           /\ Extra(rows, Held(ToActive(e, rows)), 0, 0)
           /\ ToActive(e, rows).pc # "active" => ToActive(e, rows).activeRows = << >>
<1>1. CASE Work(e) # {}
  <2> DEFINE new == [test[e] EXCEPT !.pc = "active", !.rows = rows, !.work = Work(e),
                                    !.activeRows = StartedRows(e)]
  <2>1. ToActive(e, rows) = new
    BY <1>1 DEF ToActive
  <2>2. new.pc = "active" /\ new.rows = rows /\ new.activeRows = StartedRows(e)
    BY DEF Test
  <2> HIDE DEF new
  <2>3. Held(new) = rows \o StartedRows(e)
    BY <2>2 DEF Held
  <2>4. /\ rows \o StartedRows(e) \in Seq(Rows)
        /\ Extra(rows, rows \o StartedRows(e), 0, 0)
    BY FreeRows, FreeAdds
  <2> QED
    BY <2>1, <2>2, <2>3, <2>4
<1>2. CASE Work(e) = {}
  <2> DEFINE more == IF MaxPoints = 0 THEN SkippedRows(e) ELSE StartedRows(e)
             new == [test[e] EXCEPT !.pc = "done", !.rows = rows \o more]
  <2>1. ToActive(e, rows) = new
    BY <1>2 DEF ToActive
  <2>2. new.pc = "done" /\ new.rows = rows \o more /\ new.activeRows = << >>
    BY DEF Test
  <2>3. more \in Seq(Rows) /\ Free(more)
    BY FreeRows
  <2> HIDE DEF new, more
  <2>4. rows \o more \in Seq(Rows) /\ Extra(rows, rows \o more, 0, 0)
    BY <2>3, FreeAdds
  <2>5. Held(new) = rows \o more
    BY <2>2, <2>4, ConcatEmptySeq DEF Held
  <2> QED
    BY <2>1, <2>2, <2>4, <2>5
<1> QED
  BY <1>1, <1>2

LEMMA ToUnauthenticatedAdds ==
    ASSUME NEW e \in Endpoints, test[e] \in Test, test[e].activeRows = << >>,
           NEW rows \in Seq(Rows)
    PROVE  /\ Held(ToUnauthenticated(e, rows)) \in Seq(Rows)
           /\ Extra(rows, Held(ToUnauthenticated(e, rows)), 0, 0)
           /\ ToUnauthenticated(e, rows).pc # "active" =>
                ToUnauthenticated(e, rows).activeRows = << >>
<1>1. CASE Inventory[e].auth
  <2> DEFINE new == [test[e] EXCEPT !.pc = "unauthenticated", !.rows = rows]
  <2>1. ToUnauthenticated(e, rows) = new
    BY <1>1 DEF ToUnauthenticated
  <2>2. new.rows = rows /\ new.activeRows = << >>
    BY DEF Test
  <2> HIDE DEF new
  <2>3. Held(new) = rows
    BY <2>2, ConcatEmptySeq DEF Held
  <2>4. Extra(rows, rows \o << >>, 0, 0) /\ rows \o << >> = rows
    BY FreeRows, FreeAdds, ConcatEmptySeq
  <2> QED
    BY <2>1, <2>2, <2>3, <2>4
<1>2. CASE ~ Inventory[e].auth
  <2> DEFINE row == Row("missing-authentication", "NOT_APPLICABLE", 0)
             more == Append(rows, row)
  <2>1. row \in Rows /\ row.requests = 0
    BY RowFields, RowClaims, Passives DEF Checks
  <2>2. ToUnauthenticated(e, rows) = ToActive(e, more)
    BY <1>2 DEF ToUnauthenticated
  <2> HIDE DEF row
  <2>3. more \in Seq(Rows) /\ Extra(rows, more, Len(rows) + 1, 0) /\ Len(rows) + 1 \in Nat
    BY <2>1, RowAdds
  <2> HIDE DEF more
  <2> DEFINE new == ToActive(e, more)
  <2>4. /\ Held(new) \in Seq(Rows) /\ Extra(more, Held(new), 0, 0)
        /\ new.pc # "active" => new.activeRows = << >>
    BY <2>3, ToActiveAdds
  <2>5. ToUnauthenticated(e, rows) = new
    BY <2>2
  <2> HIDE DEF new
  <2>6. Extra(rows, Held(new), 0, 0)
    <3>1. Extra(rows, Held(new), Len(rows) + 1, 0)
      BY <2>3, <2>4, ExtraThenFree
    <3>2. \A i \in Nat : Claim(rows, i) + (IF i = Len(rows) + 1 THEN 0 ELSE 0)
                           = Claim(rows, i) + (IF i = 0 THEN 0 ELSE 0)
      OBVIOUS
    <3> QED
      BY <3>1, <3>2 DEF Extra
  <2> QED
    BY <2>4, <2>5, <2>6
<1> QED
  BY <1>1, <1>2

LEMMA EnterPays ==
    ASSUME ClaimInv, RowsInv', NEW e \in Endpoints, Enter(e)
    PROVE  ClaimInv'
<1> DEFINE row == Row("insecure-transport", "TESTED", 0)
           new == [test[e] EXCEPT !.pc = "baseline", !.rows = <<row>>]
<1>1. At(e, "queued") /\ Becomes(e, new) /\ count' = count
  BY DEF Enter
<1>2. /\ e \notin Ended /\ test[e] \in Test /\ test[e].activeRows = << >>
      /\ Held(test[e]) \in Seq(Rows)
  BY <1>1, TestHolds
<1>3. row \in Rows /\ row.requests = 0
  BY RowFields, RowClaims DEF Checks
<1> HIDE DEF row
<1>4. new.pc = "baseline" /\ new.rows = <<row>> /\ new.activeRows = << >>
  BY <1>2 DEF Test
<1> HIDE DEF new
<1>5. <<row>> \in Seq(Rows) /\ Free(<<row>>)
  BY <1>3, Single DEF Free
<1>6. Held(new) = <<row>>
  BY <1>4, <1>5, ConcatEmptySeq DEF Held
<1>7. Extra(Held(test[e]), Held(new), 0, 0)
  BY <1>2, <1>5, <1>6, FreeAdds
<1> QED
  BY <1>1, <1>2, <1>4, <1>7, Grants, TestPays

LEMMA BaselineAnsweredPays ==
    ASSUME ClaimInv, RowsInv', NEW e \in Endpoints, BaselineAnswered(e)
    PROVE  ClaimInv'
<1> DEFINE row == Row("baseline", "TESTED", 1)
           based == Append(test[e].rows, row)
           passive(status, n) == [i \in 1 .. n |-> Row(Passive[i], status, 0)]
           cors == [test[e] EXCEPT !.pc = "cors", !.rows = based \o passive("TESTED", 2)]
           rest == ToUnauthenticated(e, based \o passive("NOT_APPLICABLE", 3))
           new == IF Retrieval(e) THEN cors ELSE rest
           last == Len(test[e].rows) + 1
<1>1. At(e, "baseline") /\ Take(1) /\ Becomes(e, new)
  BY DEF BaselineAnswered
<1>2. /\ e \notin Ended /\ test[e] \in Test /\ test[e].activeRows = << >>
      /\ test[e].rows \in Seq(Rows) /\ Held(test[e]) = test[e].rows
      /\ Held(test[e]) \in Seq(Rows)
  BY <1>1, TestHolds
<1>3. row \in Rows /\ row.requests = 1
  BY RowFields, RowClaims DEF Checks
<1> HIDE DEF row
<1>4. based \in Seq(Rows) /\ Extra(test[e].rows, based, last, 1) /\ last \in Nat
  BY <1>2, <1>3, RowAdds
<1> HIDE DEF based, last
<1>5. ASSUME NEW status \in {"TESTED", "NOT_APPLICABLE"}, NEW n \in 2 .. 3
      PROVE  /\ based \o passive(status, n) \in Seq(Rows)
             /\ Extra(test[e].rows, based \o passive(status, n), last, 1)
  <2>1. \A i \in 1 .. n : Row(Passive[i], status, 0) \in Rows
    <3> TAKE i \in 1 .. n
    <3>1. Passive[i] \in Checks \union ToSet(Authorization)
      BY <1>5, Passives
    <3> QED
      BY <1>5, <3>1, RowFields
  <2>2. passive(status, n) \in [1 .. n -> Rows]
    BY <2>1
  <2>3. Free(passive(status, n))
    BY RowClaims DEF Free
  <2>4. n \in Nat
    BY <1>5
  <2> HIDE DEF passive
  <2>5. passive(status, n) \in Seq(Rows)
    BY <2>2, <2>4, Listed
  <2>6. /\ based \o passive(status, n) \in Seq(Rows)
        /\ Extra(based, based \o passive(status, n), 0, 0)
    BY <1>4, <2>3, <2>5, FreeAdds
  <2> QED
    BY <1>2, <1>4, <2>6, ExtraThenFree
<1>6. /\ Extra(test[e].rows, Held(new), last, 1)
      /\ new.pc # "active" => new.activeRows = << >>
  <2>1. CASE Retrieval(e)
    <3>1. /\ based \o passive("TESTED", 2) \in Seq(Rows)
          /\ Extra(test[e].rows, based \o passive("TESTED", 2), last, 1)
      BY <1>5
    <3> HIDE DEF passive
    <3>2. cors.rows = based \o passive("TESTED", 2) /\ cors.activeRows = << >>
      BY <1>2 DEF Test
    <3>3. new = cors
      BY <2>1
    <3> HIDE DEF cors, new
    <3>4. Held(cors) = based \o passive("TESTED", 2)
      BY <3>1, <3>2, ConcatEmptySeq DEF Held
    <3> QED
      BY <3>1, <3>2, <3>3, <3>4
  <2>2. CASE ~ Retrieval(e)
    <3>1. /\ based \o passive("NOT_APPLICABLE", 3) \in Seq(Rows)
          /\ Extra(test[e].rows, based \o passive("NOT_APPLICABLE", 3), last, 1)
      BY <1>5
    <3>2. new = rest
      BY <2>2
    <3> HIDE DEF passive, new
    <3>3. /\ Held(rest) \in Seq(Rows)
          /\ Extra(based \o passive("NOT_APPLICABLE", 3), Held(rest), 0, 0)
          /\ rest.pc # "active" => rest.activeRows = << >>
      BY <1>2, <3>1, ToUnauthenticatedAdds
    <3> HIDE DEF rest
    <3>4. Extra(test[e].rows, Held(rest), last, 1)
      BY <1>2, <1>4, <3>1, <3>3, ExtraThenFree
    <3> QED
      BY <3>2, <3>3, <3>4
  <2> QED
    BY <2>1, <2>2
<1> HIDE DEF new
<1>7. count' >= count + 1
  BY <1>1, Grants
<1> QED
  BY <1>1, <1>2, <1>4, <1>6, <1>7, TestPays

LEMMA BaselineFailsPays ==
    ASSUME ClaimInv, RowsInv', NEW e \in Endpoints, BaselineFails(e)
    PROVE  ClaimInv'
<1> DEFINE rows == test[e].rows \o FanOut(e)
           new == [test[e] EXCEPT !.pc = "done", !.rows = rows]
<1>1. At(e, "baseline") /\ NoAnswer /\ Becomes(e, new)
  BY DEF BaselineFails
<1>2. /\ e \notin Ended /\ test[e] \in Test /\ test[e].activeRows = << >>
      /\ test[e].rows \in Seq(Rows) /\ Held(test[e]) = test[e].rows
  BY <1>1, TestHolds
<1>3. rows \in Seq(Rows) /\ Extra(test[e].rows, rows, 0, 0)
  BY <1>2, FreeRows, FreeAdds
<1> HIDE DEF rows
<1>4. new.pc = "done" /\ new.rows = rows /\ new.activeRows = << >>
  BY <1>2 DEF Test
<1> HIDE DEF new
<1>5. Held(new) = rows
  BY <1>3, <1>4, ConcatEmptySeq DEF Held
<1>6. Extra(Held(test[e]), Held(new), 0, 0)
  BY <1>2, <1>3, <1>5
<1> QED
  BY <1>1, <1>2, <1>4, <1>6, Grants, TestPays

\* One more row, of a request that was answered or of one that was not.
LEMMA OneMorePays ==
    ASSUME NEW rows \in Seq(Rows), NEW check \in Checks, NEW status \in {"TESTED", "ERROR"},
           NEW requests \in 0 .. 1
    PROVE  LET more == Append(rows, Row(check, status, requests))
           IN /\ more \in Seq(Rows)
              /\ Extra(rows, more, Len(rows) + 1, requests)
              /\ Len(rows) + 1 \in Nat
<1>1. Row(check, status, requests) \in Rows /\ Row(check, status, requests).requests = requests
  BY RowFields, RowClaims
<1> QED
  BY <1>1, RowAdds

LEMMA CorsPays ==
    ASSUME ClaimInv, RowsInv', NEW e \in Endpoints, CorsAnswered(e) \/ CorsFails(e)
    PROVE  ClaimInv'
<1>1. PICK status \in {"TESTED", "ERROR"}, requests \in 0 .. 1 :
        /\ Becomes(e, ToUnauthenticated(e,
                        Append(test[e].rows, Row("cors-misconfiguration", status, requests))))
        /\ count' >= count + requests
  BY Grants DEF CorsAnswered, CorsFails
<1> DEFINE more == Append(test[e].rows, Row("cors-misconfiguration", status, requests))
           new == ToUnauthenticated(e, more)
           last == Len(test[e].rows) + 1
<1>2. /\ e \notin Ended /\ test[e] \in Test /\ test[e].activeRows = << >>
      /\ test[e].rows \in Seq(Rows) /\ Held(test[e]) = test[e].rows
  BY TestHolds DEF CorsAnswered, CorsFails, At
<1>3. more \in Seq(Rows) /\ Extra(test[e].rows, more, last, requests) /\ last \in Nat
  BY <1>2, OneMorePays, Passives
<1>4. Becomes(e, new)
  BY <1>1
<1> HIDE DEF more, last
<1>5. /\ Held(new) \in Seq(Rows) /\ Extra(more, Held(new), 0, 0)
      /\ new.pc # "active" => new.activeRows = << >>
  BY <1>2, <1>3, ToUnauthenticatedAdds
<1> HIDE DEF new
<1>6. requests \in Nat
  OBVIOUS
<1>7. Extra(test[e].rows, Held(new), last, requests)
  BY <1>2, <1>3, <1>5, <1>6, ExtraThenFree
<1> QED
  BY <1>1, <1>2, <1>3, <1>4, <1>5, <1>6, <1>7, TestPays

LEMMA UnauthenticatedPays ==
    ASSUME ClaimInv, RowsInv', NEW e \in Endpoints,
           UnauthenticatedAnswered(e) \/ UnauthenticatedFails(e)
    PROVE  ClaimInv'
<1>1. PICK status \in {"TESTED", "ERROR"}, requests \in 0 .. 1 :
        /\ Becomes(e, ToActive(e,
                        Append(test[e].rows, Row("missing-authentication", status, requests))))
        /\ count' >= count + requests
  BY Grants DEF UnauthenticatedAnswered, UnauthenticatedFails
<1> DEFINE more == Append(test[e].rows, Row("missing-authentication", status, requests))
           new == ToActive(e, more)
           last == Len(test[e].rows) + 1
<1>2. /\ e \notin Ended /\ test[e] \in Test /\ test[e].activeRows = << >>
      /\ test[e].rows \in Seq(Rows) /\ Held(test[e]) = test[e].rows
  BY TestHolds DEF UnauthenticatedAnswered, UnauthenticatedFails, At
<1>3. more \in Seq(Rows) /\ Extra(test[e].rows, more, last, requests) /\ last \in Nat
  BY <1>2, OneMorePays, Passives
<1>4. Becomes(e, new)
  BY <1>1
<1> HIDE DEF more, last
<1>5. /\ Held(new) \in Seq(Rows) /\ Extra(more, Held(new), 0, 0)
      /\ new.pc # "active" => new.activeRows = << >>
  BY <1>2, <1>3, ToActiveAdds
<1> HIDE DEF new
<1>6. requests \in Nat
  OBVIOUS
<1>7. Extra(test[e].rows, Held(new), last, requests)
  BY <1>2, <1>3, <1>5, <1>6, ExtraThenFree
<1> QED
  BY <1>1, <1>2, <1>3, <1>4, <1>5, <1>6, <1>7, TestPays

\* A mutation that is over: its row may claim one request more.
LEMMA MutatedPays ==
    ASSUME ClaimInv, RowsInv', NEW e \in Endpoints, At(e, "active"),
           NEW row \in Rows, NEW extra \in 0 .. 1, Mutated(e, Upcoming(e), row),
           row.requests <= test[e].activeRows[Upcoming(e)[1]].requests + extra,
           count' >= count + extra
    PROVE  ClaimInv'
<1> DEFINE m == Upcoming(e)
           work == test[e].work \ {m}
           active == test[e].activeRows
           rows == [active EXCEPT ![m[1]] = row]
           next == [test[e] EXCEPT !.work = work, !.activeRows = rows]
           done == [test[e] EXCEPT !.pc = "done", !.work = {}, !.activeRows = << >>,
                                   !.rows = @ \o rows]
           new == IF work # {} THEN next ELSE done
           place == Len(test[e].rows) + m[1]
<1>1. Becomes(e, new)
  BY DEF Mutated
<1>2. /\ e \notin Ended /\ test[e] \in Test /\ test[e].pc = "active"
      /\ test[e].rows \in Seq(Rows) /\ active \in Seq(Rows)
  BY TestHolds
<1>3. /\ ActiveRows(active) /\ test[e].work # {} /\ test[e].work \subseteq (DOMAIN Active) \X Nat
  BY <1>2, TestAt DEF Fits, Test, ClaimInv
<1>4. m[1] \in 1 .. Len(active) /\ m[1] \in Nat /\ m[1] > 0
  <2>1. m[1] \in DOMAIN Active
    BY <1>3, UpcomingComes
  <2> QED
    BY <1>3, <2>1, Constants DEF ActiveRows
<1>5. /\ rows \in Seq(Rows) /\ Len(rows) = Len(active)
      /\ \A i \in 1 .. Len(active) : rows[i] = IF i = m[1] THEN row ELSE active[i]
  BY <1>2, <1>4, ExceptSeq
<1>6. row.requests <= active[m[1]].requests + extra
  OBVIOUS
<1>7. /\ next.pc = "active" /\ next.rows = test[e].rows /\ next.activeRows = rows
      /\ done.pc = "done" /\ done.rows = test[e].rows \o rows /\ done.activeRows = << >>
  BY <1>2 DEF Test
<1>8. Held(test[e]) = test[e].rows \o active
  BY DEF Held
<1> HIDE DEF m, active, rows, next, done
<1>9. Extra(active, rows, m[1], extra)
  <2> SUFFICES ASSUME NEW i \in Nat
               PROVE  Claim(rows, i) <= Claim(active, i) + (IF i = m[1] THEN extra ELSE 0)
    BY DEF Extra
  <2>1. DOMAIN rows = 1 .. Len(active) /\ DOMAIN active = 1 .. Len(active)
        /\ Claim(active, i) \in Nat
    BY <1>2, <1>5, ClaimTyped
  <2>2. CASE i = m[1]
    BY <1>4, <1>5, <1>6, <2>1, <2>2 DEF Claim
  <2>3. CASE i # m[1]
    <3>1. Claim(rows, i) = Claim(active, i)
      BY <1>5, <2>1, <2>3 DEF Claim
    <3> QED
      BY <2>1, <2>3, <3>1
  <2> QED
    BY <2>2, <2>3
<1>10. /\ Extra(test[e].rows \o active, test[e].rows \o rows, place, extra)
       /\ place \in Nat /\ extra \in Nat
  <2>1. /\ test[e].rows \in Seq(Rows) /\ active \in Seq(Rows) /\ rows \in Seq(Rows)
        /\ m[1] \in Nat /\ m[1] > 0 /\ extra \in Nat
    BY <1>2, <1>4, <1>5
  <2> QED
    BY <1>9, <2>1, TailAdds
<1>11. Held(new) = test[e].rows \o rows
  <2>1. Held(next) = test[e].rows \o rows
    BY <1>7 DEF Held
  <2>2. Held(done) = test[e].rows \o rows
    <3>1. test[e].rows \o rows \in Seq(Rows)
      BY <1>2, <1>5, ConcatProperties
    <3> QED
      BY <1>7, <3>1, ConcatEmptySeq DEF Held
  <2> QED
    BY <2>1, <2>2
<1>12. new.pc # "active" => new.activeRows = << >>
  BY <1>7
<1>13. Extra(Held(test[e]), Held(new), place, extra)
  BY <1>8, <1>10, <1>11
<1> HIDE DEF new, place
<1> QED
  BY <1>1, <1>2, <1>10, <1>12, <1>13, TestPays

LEMMA MutationPays ==
    ASSUME ClaimInv, RowsInv', NEW e \in Endpoints, MutationAnswered(e) \/ RegistrationFails(e)
    PROVE  ClaimInv'
<1> DEFINE m == Upcoming(e)
           row == test[e].activeRows[m[1]]
<1>1. At(e, "active")
  BY DEF MutationAnswered, RegistrationFails
<1>2. /\ test[e].activeRows \in Seq(Rows) /\ ActiveRows(test[e].activeRows)
      /\ test[e].work # {} /\ test[e].work \subseteq (DOMAIN Active) \X Nat
  BY <1>1, TestAt DEF Fits, At, Test, ClaimInv
<1>3. m \in test[e].work /\ m[1] \in DOMAIN Active
  BY <1>2, UpcomingComes
<1>4. row \in Rows
  BY <1>2, <1>3, Constants, ElementOfSeq DEF ActiveRows
<1>5. CASE MutationAnswered(e)
  <2>1. PICK status \in {row.status} \union (IF row.check = "ssrf" THEN {"ERROR"} ELSE {}) :
          Mutated(e, m, Row(row.check, status, row.requests + 1))
    BY <1>5 DEF MutationAnswered
  <2>2. Take(1)
    BY <1>5 DEF MutationAnswered
  <2> HIDE DEF m, row
  <2> DEFINE new == Row(row.check, status, row.requests + 1)
  <2>3. /\ row.check \in Checks \union ToSet(Authorization)
        /\ status \in {"TESTED", "SKIPPED", "ERROR", "NOT_APPLICABLE"}
        /\ row.requests \in Nat /\ row.requests + 1 \in Nat
    BY <1>4, <2>1 DEF Rows
  <2>4. new \in Rows /\ new.requests = row.requests + 1
    BY <2>3, RowFields, RowClaims
  <2>5. Mutated(e, m, new)
    BY <2>1
  <2> HIDE DEF new
  <2>6. new.requests <= row.requests + 1
    BY <2>3, <2>4
  <2> QED
    BY <1>1, <2>2, <2>4, <2>5, <2>6, Grants, MutatedPays DEF m, row
<1>6. CASE RegistrationFails(e)
  <2> DEFINE new == [row EXCEPT !.status = "ERROR"]
  <2>1. Mutated(e, m, new) /\ UNCHANGED count
    BY <1>6 DEF RegistrationFails
  <2>2. new \in Rows /\ new.requests = row.requests /\ row.requests \in Nat
    BY <1>4 DEF Rows
  <2> HIDE DEF new
  <2>3. new.requests <= row.requests + 0
    BY <2>2
  <2> QED
    BY <1>1, <2>1, <2>2, <2>3, Grants, MutatedPays
<1> QED
  BY <1>5, <1>6

LEMMA ActiveFailsPays ==
    ASSUME ClaimInv, RowsInv', NEW e \in Endpoints, ActiveFails(e)
    PROVE  ClaimInv'
<1> DEFINE rows == test[e].rows \o ErrorRows
           new == [test[e] EXCEPT !.pc = "done", !.work = {}, !.activeRows = << >>,
                                  !.rows = rows]
<1>1. At(e, "active") /\ NoAnswer /\ Becomes(e, new)
  BY DEF ActiveFails, ErrorRows
<1>2. /\ e \notin Ended /\ test[e] \in Test /\ Held(test[e]) \in Seq(Rows)
      /\ test[e].rows \in Seq(Rows) /\ test[e].activeRows \in Seq(Rows)
  BY <1>1, TestHolds
<1>3. Extra(Held(test[e]), test[e].rows, 0, 0)
  BY <1>2, DropAdds DEF Held
<1>4. rows \in Seq(Rows) /\ Extra(test[e].rows, rows, 0, 0)
  BY <1>2, FreeRows, FreeAdds
<1> HIDE DEF rows
<1>5. new.pc = "done" /\ new.rows = rows /\ new.activeRows = << >>
  BY <1>2 DEF Test
<1> HIDE DEF new
<1>6. Held(new) = rows
  BY <1>4, <1>5, ConcatEmptySeq DEF Held
<1>7. Extra(Held(test[e]), Held(new), 0, 0)
  BY <1>2, <1>3, <1>4, <1>6, ExtraThenFree
<1> QED
  BY <1>1, <1>2, <1>5, <1>7, Grants, TestPays

LEMMA RaisesPays ==
    ASSUME ClaimInv, RowsInv', NEW e \in Endpoints, Raises(e)
    PROVE  ClaimInv'
<1> DEFINE new == [test[e] EXCEPT !.pc = "raised", !.rows = << >>, !.work = {},
                                  !.activeRows = << >>]
<1>1. e \notin Ended /\ Becomes(e, new) /\ (UNCHANGED count \/ Take(1))
  BY DEF Raises
<1>2. test[e] \in Test /\ Held(test[e]) \in Seq(Rows)
  BY TestHolds
<1>3. new.pc = "raised" /\ new.rows = << >> /\ new.activeRows = << >>
  BY <1>2 DEF Test
<1> HIDE DEF new
<1>4. Held(new) = << >>
  BY <1>3, FreeRows, ConcatEmptySeq DEF Held
<1>5. Extra(Held(test[e]), Held(new), 0, 0)
  BY <1>2, <1>4, FreeRows, FreeAdds
<1>6. count' >= count + 0
  BY <1>1, Grants
<1> QED
  BY <1>1, <1>3, <1>5, <1>6, TestPays

\* A comparison leaves its row after all the others of its endpoint.
LEMMA ComparePays ==
    ASSUME ClaimInv, RowsInv', Compare
    PROVE  ClaimInv'
<1>e. PICK e \in Endpoints : e = CHOOSE d \in Uncompared : \A c \in Uncompared : d <= c
  BY NextComparison DEF Compare, Uncompared
<1> DEFINE check == Authorization[Len(authRows[e]) + 1]
           rows(status, requests) == Append(authRows[e], Row(check, status, requests))
<1>1. e \in Endpoints /\ Len(authRows[e]) < Len(Authorization) /\ Ended = Endpoints
  BY <1>e, NextComparison DEF Compare, Uncompared
<1>2. PICK status \in {"TESTED", "ERROR", "SKIPPED", "NOT_APPLICABLE"}, requests \in {0, 2} :
        /\ authRows' = [authRows EXCEPT ![e] = rows(status, requests)]
        /\ count' >= count + requests
  <2> DEFINE leaves(status, requests) ==
               /\ authRows' = [authRows EXCEPT ![e] = rows(status, requests)]
               /\ count' >= count + requests
  <2>1. /\ Take(2) => count' >= count + 2 /\ count' >= count + 0
        /\ UNCHANGED count \/ Take(1) => count' >= count + 0
    <3>1. count \in Nat
      BY ParametersAssumption DEF ClaimInv, RowsInv, TypeOK
    <3> QED
      BY <3>1 DEF Take
  <2>2. \/ leaves("TESTED", 2)
        \/ leaves("ERROR", 0)
        \/ leaves(Unless(Candidate(e, check), "SKIPPED"), 0)
    BY <1>e, <2>1 DEF Compare
  <2>3. Unless(Candidate(e, check), "SKIPPED") \in {"SKIPPED", "NOT_APPLICABLE"}
    BY DEF Unless
  <2> HIDE DEF leaves
  <2>4. \E status \in {"TESTED", "ERROR", "SKIPPED", "NOT_APPLICABLE"}, requests \in {0, 2} :
          leaves(status, requests)
    BY <2>2, <2>3
  <2> QED
    BY <2>4 DEF leaves
<1>3. check \in ToSet(Authorization)
  <2>1. Len(Authorization) = 2 /\ \A i \in 1 .. 2 : Authorization[i] \in ToSet(Authorization)
    BY DEF Authorization, ToSet
  <2>2. Len(authRows[e]) \in Nat /\ check = Authorization[Len(authRows[e]) + 1]
    BY <1>1, WrittenRows, LenProperties DEF ClaimInv
  <2> HIDE DEF check
  <2>3. Len(authRows[e]) + 1 \in 1 .. 2
    BY <1>1, <2>1, <2>2
  <2> QED
    BY <2>1, <2>2, <2>3
<1> DEFINE row == Row(check, status, requests)
           new == rows(status, requests)
           last == Len(authRows[e]) + 1
           place == Len(Held(test[e])) + last
<1>4. row \in Rows /\ row.requests = requests /\ requests \in Nat
  BY <1>3, RowFields, RowClaims
<1>5. new = Append(authRows[e], row)
  OBVIOUS
<1>6. /\ authRows[e] \in Seq(Rows) /\ Held(test[e]) \in Seq(Rows)
      /\ Written(e) = Held(test[e]) \o authRows[e]
  BY <1>1, WrittenRows DEF ClaimInv
<1>7. authRows' = [authRows EXCEPT ![e] = new] /\ authRows \in [Endpoints -> Seq(Rows)]
      /\ test' = test
  BY <1>2 DEF Compare, ClaimInv, RowsInv, TypeOK
<1> HIDE DEF row, new
<1>8. /\ new \in Seq(Rows) /\ Extra(authRows[e], new, last, requests)
      /\ last \in Nat /\ last > 0
  <2>1. Len(authRows[e]) \in Nat
    BY <1>6, LenProperties
  <2> QED
    BY <1>4, <1>5, <1>6, <2>1, RowAdds
<1> HIDE DEF last
<1>9. /\ Extra(Held(test[e]) \o authRows[e], Held(test[e]) \o new, place, requests)
      /\ place \in Nat
  BY <1>4, <1>6, <1>8, TailAdds
<1>10. authRows'[e] = new /\ \A d \in Endpoints : d # e => authRows'[d] = authRows[d]
  BY <1>1, <1>7
<1>11. Written(e)' = Held(test[e]) \o new
  BY <1>7, <1>10 DEF Written, Held
<1>12. \A d \in Endpoints : d # e => Written(d)' = Written(d)
  BY <1>7, <1>10 DEF Written
<1>13. Paid'
  <2>1. Extra(Written(e), Written(e)', place, requests)
    BY <1>6, <1>9, <1>11
  <2> HIDE DEF place
  <2> QED
    BY <1>1, <1>2, <1>4, <1>9, <1>12, <2>1, ClaimsPaid DEF ClaimInv
<1>14. Started' /\ Sequenced'
  <2>1. Ended' = Ended
    BY <1>7 DEF Ended
  <2> QED
    BY <1>1, <1>7, <2>1 DEF ClaimInv, Started, Sequenced
<1> QED
  BY <1>13, <1>14 DEF ClaimInv

\* The requests of a comparison that ends execute are in no row.
LEMMA EndPays ==
    ASSUME ClaimInv, RowsInv', CompareRaises \/ Finish \/ Cancel \/ UNCHANGED vars
    PROVE  ClaimInv'
<1>1. test' = test /\ authRows' = authRows /\ (UNCHANGED count \/ Take(1) \/ Take(2))
  BY DEF CompareRaises, Finish, Cancel, vars
<1>2. count' >= count /\ count \in Nat /\ count' \in Nat
  BY <1>1, ParametersAssumption DEF Take, ClaimInv, RowsInv, TypeOK
<1>3. Claims' = Claims
  BY <1>1 DEF Claims, Claimed, Written
<1>4. Paid'
  <2>1. Cardinality(Claims) \in Nat /\ Cardinality(Claims) <= count /\ IsFiniteSet(Claims)
    BY FS_CardinalityType DEF ClaimInv, Paid
  <2> QED
    BY <1>2, <1>3, <2>1 DEF Paid
<1>5. Started' /\ Sequenced'
  BY <1>1 DEF ClaimInv, Started, Sequenced, Ended
<1> QED
  BY <1>4, <1>5 DEF ClaimInv

LEMMA InitPays == Init => ClaimInv
<1> SUFFICES ASSUME Init PROVE ClaimInv
  OBVIOUS
<1>1. RowsInv /\ \A e \in Endpoints : /\ test[e].rows = << >> /\ test[e].activeRows = << >>
                                      /\ authRows[e] = << >>
  BY InitFits DEF Init
<1>2. WrittenTyped /\ ClaimsKnown
  BY <1>1, RowsTyped, ClaimsAre
<1>3. \A e \in Endpoints : Written(e) = << >>
  BY <1>1, NoRows, ConcatEmptySeq DEF Written
<1>4. \A e \in Endpoints, i \in Nat : Claim(Written(e), i) = 0
  BY <1>3 DEF Claim
<1>5. Claims = {}
  BY <1>2, <1>4 DEF ClaimsKnown
<1>6. Paid
  <2>1. count = 0
    BY DEF Init
  <2> QED
    BY <1>5, <2>1, FS_EmptySet DEF Paid
<1> QED
  BY <1>1, <1>6 DEF ClaimInv, Started, Sequenced

LEMMA StepPays == ClaimInv /\ [Next]_vars => ClaimInv'
<1> SUFFICES ASSUME ClaimInv, [Next]_vars PROVE ClaimInv'
  OBVIOUS
<1>1. RowsInv'
  BY StepFits DEF ClaimInv
<1>2. ASSUME NEW e \in Endpoints, TestEndpoint(e) PROVE ClaimInv'
  BY <1>1, <1>2, EnterPays, BaselineAnsweredPays, BaselineFailsPays, CorsPays,
     UnauthenticatedPays, MutationPays, ActiveFailsPays, RaisesPays DEF TestEndpoint
<1> QED
  BY <1>1, <1>2, ComparePays, EndPays DEF Next, Execute

\* However the tests of the endpoints share the budget and wherever one of them fails, the
\* requests that all the rows claim have been granted.
THEOREM ClaimsAreGranted == Spec => []ClaimsWithinBudget
<1>1. ClaimInv => ClaimsWithinBudget
  BY DEF ClaimInv, Paid, Claims, ClaimsWithinBudget
<1> QED
  BY <1>1, InitPays, StepPays, PTL DEF Spec
=============================================================================
