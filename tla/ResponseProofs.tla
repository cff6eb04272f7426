--------------------------- MODULE ResponseProofs ---------------------------
(***************************************************************************)
(* What a response rests on, from the lines of a log to the connector, for *)
(* logs of any length, any vocabulary of lines and rule tables, any        *)
(* requests and approvals, and any crashes.                                *)
(*                                                                         *)
(* Detection, Report, Eligibility and Advice.  The two sweeps over time,   *)
(* detect_auth_bruteforce's pointers and detect_error_bursts' windows, are *)
(* recursive functions: Recursion gives them their equations, Upwards the  *)
(* induction up to a bound, and StampsAre says that the stamps they sweep  *)
(* over are the lines', ascending.  RunOK is what a run of the console     *)
(* always is: the report of its log and of what the model said, and the    *)
(* incidents its findings make.                                            *)
(*                                                                         *)
(* Benchmark, Views and what is offered.  A sum is the number of its tally *)
(* marks (SumIsTally).  A stretch of findings without a long silence is a  *)
(* cluster, and the clusters part them (ChainsPart): on that rests what    *)
(* the screens count.  What a finding shows is lines of the log            *)
(* (LinesAreCited), and the store has one incident to an id                *)
(* (StoreHasNoTwins), so that what is offered can be requested.            *)
(*                                                                         *)
(* Approvals.  FiredOnlyAfterApproval is not inductive: that the connector *)
(* fires after the approved entry is a fact about where a handler stands.  *)
(* HandlerOK says it, handler by handler; EntriesOK and CopiesOK carry     *)
(* what the ledger and the stale copies of the store may say.              *)
(***************************************************************************)
EXTENDS ApprovalsSerial, Views, Benchmark, TLAPS, FiniteSetTheorems, WellFoundedInduction

-----------------------------------------------------------------------------
(* What holds of 0, and of a number where it holds of the one before, holds  *)
(* of all; and a function may be defined that way.                           *)
LEMMA SpanIs ==
    ASSUME NEW a \in Nat, NEW b \in Nat, a <= b
    PROVE  IsFiniteSet(a..b) /\ Cardinality(a..b) = b - a + 1
  BY FS_Interval

LEMMA LeastIs ==
    ASSUME NEW S \in SUBSET Nat, S # {}
    PROVE  SetMin(S) \in S /\ \A y \in S : SetMin(S) <= y
<1>1. PICK x \in S : \A y \in S : <<y, x>> \notin OpToRel(<, Nat)
  BY WFMin, NatLessThanWellFounded, Zenon
<1>2. \A y \in S : ~(y < x)
  BY <1>1, Zenon DEF OpToRel
<1>3. \E z \in S : \A y \in S : z <= y
  BY <1>2
<1> QED BY <1>3 DEF SetMin

LEMMA GreatestIs ==
    ASSUME NEW S \in SUBSET Nat, S # {}, NEW n \in Nat, \A y \in S : y <= n
    PROVE  SetMax(S) \in S /\ \A y \in S : y <= SetMax(S)
<1> DEFINE B == {m \in Nat : \A y \in S : y <= m}
<1>1. B \in SUBSET Nat /\ n \in B
  OBVIOUS
<1>2. SetMin(B) \in B /\ \A m \in B : SetMin(B) <= m
  BY <1>1, LeastIs
<1> DEFINE b == SetMin(B)
<1>3. b \in Nat /\ \A y \in S : y <= b
  BY <1>2
<1>4. b \in S
  <2> SUFFICES ASSUME b \notin S PROVE FALSE
    OBVIOUS
  <2>1. \A y \in S : y <= b - 1
    <3> SUFFICES ASSUME NEW y \in S PROVE y <= b - 1
      OBVIOUS
    <3>1. y \in Nat /\ y <= b /\ y # b
      BY <1>3
    <3> HIDE DEF b
    <3> QED BY <1>3, <3>1
  <2>2. b > 0
    <3>1. PICK y \in S : y \in Nat /\ y <= b - 1
      BY <2>1
    <3> HIDE DEF b
    <3> QED BY <1>3, <3>1
  <2>3. b - 1 \in B
    BY <1>3, <2>1, <2>2
  <2> QED BY <1>2, <1>3, <2>3
<1>5. \E x \in S : \A y \in S : y <= x
  BY <1>3, <1>4
<1> QED BY <1>5 DEF SetMax

LEMMA Upwards ==
    ASSUME NEW n \in Nat, NEW S, 0 \in S, \A k \in 1..n : k - 1 \in S => k \in S
    PROVE  \A k \in 0..n : k \in S
<1> DEFINE B == {k \in 0..n : k \notin S}
<1> SUFFICES ASSUME B # {} PROVE FALSE
  OBVIOUS
<1>1. SetMin(B) \in B /\ \A m \in B : SetMin(B) <= m
  BY LeastIs
<1> DEFINE b == SetMin(B)
<1>2. b \in 1..n /\ b \notin S
  BY <1>1
<1>3. b - 1 \in 0..n /\ b - 1 \notin B
  BY <1>1, <1>2
<1> QED BY <1>2, <1>3

Closed(V, n, G) == \A x \in V : \A k \in 1..n : G[<<x, k>>] \in V

Goes(f, V, v, n, G) ==
    f \in [0..n -> V] /\ f[0] = v /\ \A k \in 1..n : f[k] = G[<<f[k - 1], k>>]

LEMMA Recursion ==
    ASSUME NEW V, NEW v \in V, NEW n \in Nat, NEW G, Closed(V, n, G)
    PROVE  \E f : Goes(f, V, v, n, G)
<1> DEFINE S == {m \in 0..n : \E f : Goes(f, V, v, m, G)}
<1>1. 0 \in S
  <2> DEFINE g == [k \in 0..0 |-> v]
  <2>1. g \in [0..0 -> V] /\ g[0] = v
    OBVIOUS
  <2> HIDE DEF g
  <2>2. Goes(g, V, v, 0, G)
    BY <2>1 DEF Goes
  <2> QED BY <2>2
<1>2. ASSUME NEW m \in 1..n, m - 1 \in S PROVE m \in S
  <2>1. PICK f : Goes(f, V, v, m - 1, G)
    BY <1>2
  <2> DEFINE g == [k \in 0..m |-> IF k = m THEN G[<<f[m - 1], m>>] ELSE f[k]]
  <2>2. f[m - 1] \in V
    BY <2>1 DEF Goes
  <2>3. DOMAIN g = 0..m /\ m \in 0..m /\ g[m] = G[<<f[m - 1], m>>]
    OBVIOUS
  <2>4. \A k \in 0..m - 1 : k \in 0..m /\ g[k] = f[k] /\ f[k] \in V
    BY <2>1 DEF Goes
  <2>5. g = [k \in 0..m |-> g[k]]
    OBVIOUS
  <2>6. G[<<f[m - 1], m>>] \in V /\ 0 \in 0..m - 1 /\ \A k \in 0..m : k = m \/ k \in 0..m - 1
    BY <2>2 DEF Closed
  <2> HIDE DEF g
  <2>7. g \in [0..m -> V] /\ g[0] = v
    <3>1. \A k \in 0..m : g[k] \in V
      BY <2>3, <2>4, <2>6
    <3>2. g[0] = v
      BY <2>1, <2>4, <2>6 DEF Goes
    <3> QED BY <2>5, <3>1, <3>2
  <2>8. ASSUME NEW k \in 1..m PROVE g[k] = G[<<g[k - 1], k>>]
    <3>1. k - 1 \in 0..m - 1 /\ k \in 0..m /\ (k = m \/ k \in 1..m - 1)
      OBVIOUS
    <3>2. g[k - 1] = f[k - 1]
      BY <2>4, <3>1
    <3>3. CASE k = m
      BY <2>3, <3>2, <3>3
    <3>4. CASE k \in 1..m - 1
      <4>1. f[k] = G[<<f[k - 1], k>>] /\ k \in 0..m - 1
        BY <2>1, <3>4 DEF Goes
      <4> QED BY <2>4, <3>2, <4>1
    <3> QED BY <3>1, <3>3, <3>4
  <2>9. Goes(g, V, v, m, G)
    BY <2>7, <2>8 DEF Goes
  <2> QED BY <2>9
<1>3. n \in S
  <2> HIDE DEF S
  <2> QED BY <1>1, <1>2, Upwards
<1> QED BY <1>3

-----------------------------------------------------------------------------
(* Finite sets. *)
LEMMA ImageIsFinite ==
    ASSUME NEW S, IsFiniteSet(S), NEW g, DOMAIN g = S
    PROVE  IsFiniteSet({g[x] : x \in S}) /\ Cardinality({g[x] : x \in S}) <= Cardinality(S)
<1> DEFINE T == {g[x] : x \in S}
           h == [x \in S |-> g[x]]
<1>1. h \in Surjection(S, T)
  BY DEF Surjection
<1> QED BY <1>1, FS_Surjection

LEMMA SetToSeqIs ==
    ASSUME NEW S, IsFiniteSet(S)
    PROVE  /\ SetToSeq(S) \in Seq(S) /\ Len(SetToSeq(S)) = Cardinality(S)
           /\ \A x \in S : \E k \in 1..Cardinality(S) : SetToSeq(S)[k] = x
           /\ IsInjective(SetToSeq(S))
<1> DEFINE n == Cardinality(S)
<1>1. n \in Nat /\ ExistsBijection(1..n, S)
  BY FS_CardinalityType
<1>2. PICK b : b \in Bijection(1..n, S)
  BY <1>1 DEF ExistsBijection
<1>3. b \in [1..n -> S] /\ IsInjective(b)
  BY <1>2 DEF Bijection, Injection, IsInjective
<1>4. SetToSeq(S) \in [1..n -> S] /\ IsInjective(SetToSeq(S))
  BY <1>3 DEF SetToSeq
<1>5. IsFiniteSet(1..n) /\ Cardinality(1..n) = n
  BY <1>1, FS_Interval
<1>6. SetToSeq(S) \in Injection(1..n, S)
  BY <1>4 DEF Injection
<1>7. SetToSeq(S) \in Surjection(1..n, S)
  BY <1>5, <1>6, FS_Injection
<1> HIDE DEF n
<1>8. \A x \in S : \E k \in 1..n : SetToSeq(S)[k] = x
  BY <1>7 DEF Surjection
<1> QED BY <1>1, <1>4, <1>8 DEF n

(* What comes before in time and file does so strictly, so that every line   *)
(* has its place in the order of those that have a stamp.                    *)
Lists(s, S) == \A j \in S : \E k \in 1..Cardinality(S) : s[k] = j

LEMMA SortedIs ==
    ASSUME NEW l, NEW lns, IsFiniteSet(lns), lns \subseteq Nat,
           \A i \in lns : l[i].at \in Nat \cup {NoTime}
    PROVE  LET timed == {i \in lns : l[i].at # NoTime}
               n == Cardinality(timed)
               s == Sorted(l, lns)
           IN  /\ IsFiniteSet(timed) /\ n \in Nat
               /\ s \in Seq(timed) /\ Len(s) = n
               /\ Lists(s, timed)
               /\ \A k, m \in 1..n : k < m => Before(l, s[k], s[m])
               /\ \A k \in 1..n : Cardinality({i \in timed : Before(l, i, s[k])}) = k - 1
<1> DEFINE timed == {i \in lns : l[i].at # NoTime}
           n == Cardinality(timed)
           Behind(j) == {i \in timed : Before(l, i, j)}
           R == [j \in timed |-> Cardinality(Behind(j))]
           s == Sorted(l, lns)
<1>1. IsFiniteSet(timed) /\ n \in Nat
  BY FS_Subset, FS_CardinalityType
<1>2. \A i \in timed : i \in Nat /\ l[i].at \in Nat
  OBVIOUS
<1>3. /\ \A i \in timed : ~Before(l, i, i)
      /\ \A i, j \in timed : i = j \/ Before(l, i, j) \/ Before(l, j, i)
      /\ \A i, j, k \in timed : Before(l, i, j) /\ Before(l, j, k) => Before(l, i, k)
  <2> HIDE DEF timed
  <2> QED BY <1>2 DEF Before
<1>4. ASSUME NEW j \in timed
      PROVE  IsFiniteSet(Behind(j)) /\ Cardinality(Behind(j)) \in 0..n - 1
  <2>1. IsFiniteSet(timed \ {j}) /\ Cardinality(timed \ {j}) = n - 1
    BY <1>1, FS_RemoveElement
  <2>2. Behind(j) \subseteq timed \ {j}
    BY <1>3
  <2>3. /\ IsFiniteSet(Behind(j)) /\ Cardinality(Behind(j)) <= n - 1
    BY <2>1, <2>2, FS_Subset
  <2>4. Cardinality(Behind(j)) \in Nat
    BY <2>3, FS_CardinalityType
  <2> QED BY <1>1, <2>3, <2>4
<1>5. ASSUME NEW i \in timed, NEW j \in timed, Before(l, i, j)
      PROVE  R[i] < R[j]
  <2>1. Behind(i) \subseteq Behind(j) /\ i \in Behind(j) /\ i \notin Behind(i)
    BY <1>3, <1>5
  <2>2. /\ Cardinality(Behind(i)) <= Cardinality(Behind(j))
        /\ Cardinality(Behind(i)) # Cardinality(Behind(j))
    BY <1>4, <2>1, FS_Subset
  <2>3. Cardinality(Behind(i)) \in Int /\ Cardinality(Behind(j)) \in Int
    <3>1. Cardinality(Behind(i)) \in 0..n - 1 /\ Cardinality(Behind(j)) \in 0..n - 1
      BY <1>4
    <3> HIDE DEF n, Behind
    <3> QED BY <1>1, <3>1
  <2> QED BY <2>2, <2>3
<1>6. R \in [timed -> 0..n - 1]
  BY <1>4
<1>r. \A j \in timed : R[j] = Cardinality(Behind(j))
  OBVIOUS
<1> HIDE DEF R, Behind, timed, n
<1>7. R \in Injection(timed, 0..n - 1)
  <2>1. ASSUME NEW i \in timed, NEW j \in timed, R[i] = R[j] PROVE i = j
    <3>1. R[i] \in Int /\ R[j] \in Int
      BY <1>1, <1>6
    <3> QED BY <1>3, <1>5, <2>1, <3>1
  <2> QED BY <1>6, <2>1 DEF Injection, IsInjective
<1>8. IsFiniteSet(0..n - 1) /\ Cardinality(0..n - 1) = n
  BY <1>1, FS_Interval
<1>9. R \in Surjection(timed, 0..n - 1)
  BY <1>1, <1>7, <1>8, FS_Injection DEF n
<1>10. s = [k \in 1..n |-> CHOOSE j \in timed : Cardinality(Behind(j)) = k - 1]
  BY DEF Sorted, Behind, timed, n
<1> HIDE DEF s
<1>11. \A k \in 1..n : s[k] \in timed /\ R[s[k]] = k - 1
  <2> SUFFICES ASSUME NEW k \in 1..n PROVE s[k] \in timed /\ R[s[k]] = k - 1
    OBVIOUS
  <2>1. k - 1 \in 0..n - 1
    BY <1>1
  <2>2. \E j \in timed : Cardinality(Behind(j)) = k - 1
    BY <1>9, <1>r, <2>1 DEF Surjection
  <2> QED BY <1>10, <1>r, <2>2
<1>12. s \in Seq(timed) /\ Len(s) = n
  <2>1. s \in [1..n -> timed]
    <3>1. s = [k \in 1..n |-> s[k]]
      BY <1>10
    <3> QED BY <1>11, <3>1
  <2> QED BY <1>1, <2>1
<1>13. ASSUME NEW j \in timed PROVE \E k \in 1..n : s[k] = j
  <2>1. R[j] + 1 \in 1..n /\ (R[j] + 1) - 1 = R[j]
    BY <1>1, <1>6
  <2>2. s[R[j] + 1] \in timed /\ R[s[R[j] + 1]] = R[j]
    BY <1>11, <2>1
  <2> QED BY <1>7, <2>1, <2>2 DEF Injection, IsInjective
<1>14. ASSUME NEW k \in 1..n, NEW m \in 1..n, k < m PROVE Before(l, s[k], s[m])
  <2>1. s[k] \in timed /\ s[m] \in timed /\ R[s[k]] = k - 1 /\ R[s[m]] = m - 1
    BY <1>11
  <2>2. ~(R[s[m]] < R[s[k]]) /\ s[k] # s[m]
    BY <1>1, <1>14, <2>1
  <2> QED BY <1>3, <1>5, <2>1, <2>2
<1>15. \A k \in 1..n : Cardinality(Behind(s[k])) = k - 1
  BY <1>11, <1>r
<1> QED BY <1>1, <1>12, <1>13, <1>14, <1>15 DEF s, timed, n, Lists, Behind

-----------------------------------------------------------------------------
(* The sweep over the errors, at every one of them. *)
SweepStart == [upto |-> 0, spikes |-> {}]

SweepStep(l, errs, was, k) ==
    IF Cardinality(ErrorsFrom(l, errs, k)) < MinErrors \/ errs[k] <= was.upto THEN was
    ELSE [upto |-> errs[SetMax(ErrorsFrom(l, errs, k))],
          spikes |-> was.spikes \cup {Spike(l, errs, k)}]

LEMMA SweepIs ==
    ASSUME NEW l, NEW errs \in Seq(Nat)
    PROVE  \E f : /\ SpikesAmong(l, errs) = f[Len(errs)].spikes
                  /\ f[0] = SweepStart
                  /\ \A k \in 1..Len(errs) : f[k] = SweepStep(l, errs, f[k - 1], k)
                  /\ \A k \in 0..Len(errs) : f[k].spikes \subseteq {Spike(l, errs, m) : m \in 1..Len(errs)}
<1> DEFINE n == Len(errs)
           U == {0} \cup {errs[SetMax(ErrorsFrom(l, errs, k))] : k \in 1..n}
           V == [upto : U, spikes : SUBSET {Spike(l, errs, m) : m \in 1..n}]
           G == [p \in V \X (1..n) |-> SweepStep(l, errs, p[1], p[2])]
           Sweep[k \in 0..n] ==
               IF k = 0 THEN [upto |-> 0, spikes |-> {}]
               ELSE IF \/ Cardinality(ErrorsFrom(l, errs, k)) < MinErrors
                       \/ errs[k] <= Sweep[k - 1].upto
               THEN Sweep[k - 1]
               ELSE [upto |-> errs[SetMax(ErrorsFrom(l, errs, k))],
                     spikes |-> Sweep[k - 1].spikes \cup {Spike(l, errs, k)}]
<1>1. SpikesAmong(l, errs) = Sweep[n].spikes
  BY Zenon DEF SpikesAmong
<1>2. n \in Nat /\ SweepStart \in V
  BY DEF SweepStart
<1>3. ASSUME NEW v \in V, NEW k \in 1..n PROVE SweepStep(l, errs, v, k) \in V
  BY <1>3 DEF SweepStep
<1>4. \A v \in V : \A k \in 1..n : G[<<v, k>>] = SweepStep(l, errs, v, k) /\ G[<<v, k>>] \in V
  BY <1>3
<1>5. PICK f : Goes(f, V, SweepStart, n, G)
  <2> HIDE DEF V, G, n
  <2>1. Closed(V, n, G)
    BY <1>4 DEF Closed
  <2> QED BY <1>2, <2>1, Recursion
<1>6. \A k \in 1..n : f[k] = SweepStep(l, errs, f[k - 1], k)
  <2> SUFFICES ASSUME NEW k \in 1..n PROVE f[k] = SweepStep(l, errs, f[k - 1], k)
    OBVIOUS
  <2>1. k - 1 \in 0..n
    BY <1>2
  <2>2. f[k - 1] \in V
    BY <1>5, <2>1 DEF Goes
  <2> HIDE DEF V
  <2> QED BY <1>4, <1>5, <2>2 DEF Goes
<1>7. \E g : g = [k \in 0..n |->
               IF k = 0 THEN [upto |-> 0, spikes |-> {}]
               ELSE IF \/ Cardinality(ErrorsFrom(l, errs, k)) < MinErrors
                       \/ errs[k] <= g[k - 1].upto
               THEN g[k - 1]
               ELSE [upto |-> errs[SetMax(ErrorsFrom(l, errs, k))],
                     spikes |-> g[k - 1].spikes \cup {Spike(l, errs, k)}]]
  <2> HIDE DEF V, G
  <2>1. \A k \in 0..n : k # 0 => k \in 1..n
    BY <1>2
  <2> HIDE DEF n
  <2> WITNESS f
  <2> QED BY <1>5, <1>6, <2>1 DEF Goes, SweepStep, SweepStart
<1>8. Sweep = [k \in 0..n |->
               IF k = 0 THEN [upto |-> 0, spikes |-> {}]
               ELSE IF \/ Cardinality(ErrorsFrom(l, errs, k)) < MinErrors
                       \/ errs[k] <= Sweep[k - 1].upto
               THEN Sweep[k - 1]
               ELSE [upto |-> errs[SetMax(ErrorsFrom(l, errs, k))],
                     spikes |-> Sweep[k - 1].spikes \cup {Spike(l, errs, k)}]]
  BY <1>7, Zenon
<1> HIDE DEF Sweep
<1>9. Sweep[0] = SweepStart /\ \A k \in 1..n : Sweep[k] = SweepStep(l, errs, Sweep[k - 1], k)
  <2>1. 0 \in 0..n /\ \A k \in 1..n : k \in 0..n /\ k # 0
    BY <1>2
  <2> HIDE DEF n
  <2>2. Sweep[0] = SweepStart
    BY <1>8, <2>1, Zenon DEF SweepStart
  <2>3. ASSUME NEW k \in 1..n PROVE Sweep[k] = SweepStep(l, errs, Sweep[k - 1], k)
    BY <1>8, <2>1, Zenon DEF SweepStep
  <2> QED BY <2>2, <2>3
<1>10. \A k \in 0..n : Sweep[k] \in V
  <2> DEFINE S == {k \in 0..n : Sweep[k] \in V}
  <2>1. 0 \in S
    BY <1>2, <1>9
  <2>2. ASSUME NEW k \in 1..n, k - 1 \in S PROVE k \in S
    <3>1. k \in 0..n /\ Sweep[k - 1] \in V
      BY <1>2, <2>2
    <3> HIDE DEF V, n
    <3> QED BY <1>3, <1>9, <3>1
  <2> HIDE DEF S
  <2>3. \A k \in 0..n : k \in S
    BY <1>2, <2>1, <2>2, Upwards
  <2> QED BY <2>3 DEF S
<1> QED BY <1>1, <1>9, <1>10

-----------------------------------------------------------------------------
(* Logs, and the findings of the rules in them, which are finitely many.     *)
LEMMA LinesOfLog ==
    ASSUME NEW l \in Seq(Lines)
    PROVE  /\ IsFiniteSet(DOMAIN l) /\ DOMAIN l \subseteq Nat \ {0}
           /\ \A i \in DOMAIN l : l[i] \in Lines /\ l[i].at \in Nat \cup {NoTime}
<1>1. DOMAIN l = 1..Len(l) /\ Len(l) \in Nat
  OBVIOUS
<1>2. IsFiniteSet(1..Len(l))
  BY <1>1, FS_Interval
<1> QED BY <1>1, <1>2, DetectionAssumption DEF DetectionAssumption

LEMMA KeptIs ==
    ASSUME NEW l \in Seq(Lines)
    PROVE  Kept(l) \subseteq DOMAIN l
  BY DEF Kept, Lns

LEMMA ErrorsSorted ==
    ASSUME NEW l \in Seq(Lines)
    PROVE  Sorted(l, Errors(l)) \in Seq(Nat) /\ Sorted(l, Errors(l)) \in Seq(DOMAIN l)
<1>1. Errors(l) \subseteq DOMAIN l
  BY KeptIs DEF Errors
<1>2. IsFiniteSet(Errors(l)) /\ Errors(l) \subseteq Nat
  BY <1>1, LinesOfLog, FS_Subset
<1>3. \A i \in Errors(l) : l[i].at \in Nat \cup {NoTime}
  BY <1>1, LinesOfLog
<1>4. Sorted(l, Errors(l)) \in Seq({i \in Errors(l) : l[i].at # NoTime})
  BY <1>2, <1>3, SortedIs
<1> DEFINE timed == {i \in Errors(l) : l[i].at # NoTime}
<1>5. timed \subseteq Nat /\ timed \subseteq DOMAIN l
  BY <1>1, <1>2
<1> HIDE DEF timed
<1>6. Sorted(l, Errors(l)) \in Seq(timed)
  BY <1>4 DEF timed
<1> DEFINE D == DOMAIN l
<1>7. timed \subseteq D
  BY <1>5
<1> HIDE DEF D
<1>8. Sorted(l, Errors(l)) \in Seq(D)
  BY <1>6, <1>7
<1> QED BY <1>5, <1>6, <1>8 DEF D

(* The findings of an address, which alone may earn its block, and the many *)
(* others, which are of other types.                                         *)
Blockable == {"auth_bruteforce", "auth_bruteforce_success", "possible_break_in"}

SingleLine == {"critical_service_event", "disk_pressure", "suspicious_outbound",
               "windows_event", "infra", "threat", "ioc_observed"}

Plain(l, f) ==
    /\ f.type \notin Blockable /\ f.about = Unknown /\ f.on \subseteq DOMAIN l
    /\ f.type \in SingleLine => \E i \in DOMAIN l : f.on = {i}
    /\ f.type = "suspicious_outbound" => \E i \in Kept(l) : f.on = {i}

LEMMA SpikesAre ==
    ASSUME NEW l \in Seq(Lines)
    PROVE  /\ IsFiniteSet(Spikes(l))
           /\ \A f \in Spikes(l) : Plain(l, f)
<1> DEFINE errs == Sorted(l, Errors(l))
           n == Len(errs)
           g == [m \in 1..n |-> Spike(l, errs, m)]
<1>1. errs \in Seq(Nat)
  BY ErrorsSorted
<1> HIDE DEF errs
<1>2. n \in Nat
  BY <1>1
<1>3. SpikesAmong(l, errs) \subseteq {Spike(l, errs, m) : m \in 1..n}
  <2>1. PICK f : /\ SpikesAmong(l, errs) = f[n].spikes
                 /\ f[0] = SweepStart
                 /\ \A k \in 1..n : f[k] = SweepStep(l, errs, f[k - 1], k)
                 /\ \A k \in 0..n : f[k].spikes \subseteq {Spike(l, errs, m) : m \in 1..n}
    BY <1>1, SweepIs, Zenon
  <2>2. n \in 0..n
    BY <1>2
  <2> HIDE DEF n
  <2> QED BY <2>1, <2>2
<1>4. {Spike(l, errs, m) : m \in 1..n} = {g[m] : m \in 1..n}
  OBVIOUS
<1>5. IsFiniteSet({g[m] : m \in 1..n})
  <2>1. IsFiniteSet(1..n) /\ DOMAIN g = 1..n
    BY <1>2, FS_Interval
  <2> HIDE DEF g
  <2> QED BY <2>1, ImageIsFinite
<1>6. IsFiniteSet(SpikesAmong(l, errs))
  BY <1>3, <1>4, <1>5, FS_Subset
<1>7. ASSUME NEW m \in 1..n PROVE Plain(l, Spike(l, errs, m))
  <2>1. errs \in Seq(DOMAIN l)
    BY ErrorsSorted DEF errs
  <2>2. \A k \in ErrorsFrom(l, errs, m) : errs[k] \in DOMAIN l
    BY <2>1 DEF ErrorsFrom
  <2> QED BY <2>2 DEF Spike, Finding, Plain, SingleLine, Blockable
<1> QED BY <1>3, <1>6, <1>7 DEF Spikes, errs

LEMMA SomeOfLog ==
    ASSUME NEW l \in Seq(Lines), NEW S \in SUBSET DOMAIN l, NEW g, DOMAIN g = S
    PROVE  IsFiniteSet({g[i] : i \in S})
<1>1. IsFiniteSet(S)
  BY LinesOfLog, FS_Subset
<1> QED BY <1>1, ImageIsFinite

LEMMA FailsAre ==
    ASSUME NEW l \in Seq(Lines), NEW ip
    PROVE  /\ Fails(l, ip) \subseteq DOMAIN l /\ IsFiniteSet(Fails(l, ip))
           /\ Cardinality(Fails(l, ip)) \in Nat
           /\ \A i \in Fails(l, ip) :
                 l[i].ip = ip /\ (AuthSource[l[i]] \in Failures \/ "auth_failed" \in l[i].text)
<1>1. Fails(l, ip) \subseteq DOMAIN l
  BY KeptIs DEF Fails
<1>2. IsFiniteSet(Fails(l, ip)) /\ Cardinality(Fails(l, ip)) \in Nat
  BY <1>1, LinesOfLog, FS_Subset, FS_CardinalityType
<1>3. ASSUME NEW i \in Fails(l, ip)
      PROVE  l[i].ip = ip /\ (AuthSource[l[i]] \in Failures \/ "auth_failed" \in l[i].text)
  <2>1. l[i].ip = ip /\ "auth_failed" \in Message[l[i]] /\ l[i] \in Lines
    BY <1>1, LinesOfLog DEF Fails
  <2> QED BY <2>1 DEF Message
<1> QED BY <1>1, <1>2, <1>3

LEMMA BruteForceIs ==
    ASSUME NEW l \in Seq(Lines)
    PROVE  /\ IsFiniteSet(BruteForce(l))
           /\ \A f \in BruteForce(l) : f.about \in IPv4 /\ Cardinality(Fails(l, f.about)) >= MinFailures
<1> DEFINE S == {x \in IPv4 : Cardinality(Fails(l, x)) >= MinFailures}
           Of(ip) == LET times == Stamps(l, Fails(l, ip))
                         quick == times = <<>> \/ Peak(times) >= MinFailures
                     IN  IF Compromises(l, ip) # {}
                         THEN Finding("auth_bruteforce_success", "critical", ip, Fails(l, ip))
                         ELSE Finding("auth_bruteforce", IF quick THEN "high" ELSE "medium", ip, Fails(l, ip))
           g == [ip \in S |-> Of(ip)]
           a == [i \in DOMAIN l |-> l[i].ip]
<1>1. BruteForce(l) = {Of(ip) : ip \in S}
  BY Zenon DEF BruteForce
<1>2. \A ip \in S : Of(ip).about = ip
  BY DEF Finding
<1> HIDE DEF Of
<1>3. S \subseteq {a[i] : i \in DOMAIN l}
  <2> SUFFICES ASSUME NEW x \in S PROVE \E i \in DOMAIN l : x = a[i]
    OBVIOUS
  <2>1. Cardinality(Fails(l, x)) >= 1 /\ IsFiniteSet(Fails(l, x))
    BY FailsAre, DetectionAssumption DEF DetectionAssumption
  <2>2. Fails(l, x) # {}
    BY <2>1, FS_EmptySet
  <2> QED BY <2>2, FailsAre
<1>4. IsFiniteSet({a[i] : i \in DOMAIN l})
  <2> DOMAIN a = DOMAIN l
    OBVIOUS
  <2> HIDE DEF a
  <2> QED BY SomeOfLog
<1>5. IsFiniteSet(S)
  BY <1>3, <1>4, FS_Subset
<1>6. IsFiniteSet({g[x] : x \in S})
  <2> DOMAIN g = S
    OBVIOUS
  <2> HIDE DEF g, S
  <2> QED BY <1>5, ImageIsFinite
<1>7. BruteForce(l) = {g[x] : x \in S}
  <2> HIDE DEF S
  <2> QED BY <1>1
<1> QED BY <1>1, <1>2, <1>6, <1>7

Harmless(l, F) == IsFiniteSet(F) /\ \A f \in F : Plain(l, f)

LEMMA HarmlessUnion ==
    ASSUME NEW l, NEW E, NEW F, Harmless(l, E), Harmless(l, F)
    PROVE  Harmless(l, E \cup F)
  BY FS_Union DEF Harmless

\* One finding for some of the lines.
LEMMA HarmlessLines ==
    ASSUME NEW l \in Seq(Lines), NEW S \in SUBSET DOMAIN l, NEW g, DOMAIN g = S,
           \A i \in S : Plain(l, g[i])
    PROVE  Harmless(l, {g[i] : i \in S})
  BY SomeOfLog DEF Harmless

LEMMA ResourcesHarmless ==
    ASSUME NEW l \in Seq(Lines)
    PROVE  Harmless(l, Resources(l))
<1> DEFINE A == {j \in Kept(l) : l[j].level = "CRIT"}
           B == {j \in Kept(l) : Message[l[j]] \cap {"disk_80", "disk_90"} # {}}
           C == {j \in Kept(l) : "bad_port" \in Message[l[j]]}
           a == [i \in A |-> Finding("critical_service_event",
                               IF "exhausted" \in Message[l[i]] THEN "critical" ELSE "high", Unknown, {i})]
           b == [i \in B |-> Finding("disk_pressure",
                               IF "disk_90" \in Message[l[i]] THEN "high" ELSE "medium", Unknown, {i})]
           c == [i \in C |-> Finding("suspicious_outbound", "high", Unknown, {i})]
<1>1. Resources(l) = ({a[i] : i \in A} \cup {b[i] : i \in B}) \cup {c[i] : i \in C}
  BY DEF Resources
<1>2. A \subseteq DOMAIN l /\ B \subseteq DOMAIN l /\ C \subseteq DOMAIN l
  BY KeptIs
<1>3. DOMAIN a = A /\ \A i \in A : Plain(l, a[i])
  BY <1>2 DEF Finding, Blockable, Plain, SingleLine
<1>4. DOMAIN b = B /\ \A i \in B : Plain(l, b[i])
  BY <1>2 DEF Finding, Blockable, Plain, SingleLine
<1>5. DOMAIN c = C /\ \A i \in C : Plain(l, c[i])
  BY <1>2 DEF Finding, Blockable, Plain, SingleLine
<1> HIDE DEF A, B, C, a, b, c
<1>6. Harmless(l, {a[i] : i \in A})
  BY <1>2, <1>3, HarmlessLines
<1>7. Harmless(l, {b[i] : i \in B})
  BY <1>2, <1>4, HarmlessLines
<1>8. Harmless(l, {c[i] : i \in C})
  BY <1>2, <1>5, HarmlessLines
<1> DEFINE X == {a[i] : i \in A}
           Y == {b[i] : i \in B}
           Z == {c[i] : i \in C}
<1> HIDE DEF X, Y, Z
<1>9. Harmless(l, (X \cup Y) \cup Z)
  <2>1. Harmless(l, X) /\ Harmless(l, Y) /\ Harmless(l, Z)
    BY <1>6, <1>7, <1>8 DEF X, Y, Z
  <2> QED BY <2>1, HarmlessUnion
<1> QED BY <1>1, <1>9 DEF X, Y, Z

LEMMA SpikesHarmless ==
    ASSUME NEW l \in Seq(Lines)
    PROVE  Harmless(l, Spikes(l))
  BY SpikesAre DEF Harmless

LEMMA WindowsHarmless ==
    ASSUME NEW l \in Seq(Lines)
    PROVE  Harmless(l, Windows(l))
<1> DEFINE S == Lns(l, LAMBDA r : /\ r.eid \in DOMAIN WindowsRules
                                  /\ r.eid = "process_create" => "lolbin" \in r.text)
           g == [i \in S |-> Finding("windows_event", WindowsRules[l[i].eid], Unknown, {i})]
<1>1. Windows(l) = {g[i] : i \in S}
  BY DEF Windows
<1>2. S \subseteq DOMAIN l /\ DOMAIN g = S /\ \A i \in S : Plain(l, g[i])
  BY DEF Lns, Finding, Blockable, Plain, SingleLine
<1> HIDE DEF S, g
<1>3. Harmless(l, {g[i] : i \in S})
  BY <1>2, HarmlessLines
<1> QED BY <1>1, <1>3

LEMMA CbsHarmless ==
    ASSUME NEW l \in Seq(Lines)
    PROVE  Harmless(l, Cbs(l))
<1> DEFINE S == Lns(l, LAMBDA r : OfCbs(r) /\ CbsKind(r) # "none")
           Group(i) == {j \in S : CbsKind(l[j]) = CbsKind(l[i]) /\ l[j].text = l[i].text}
           g == [i \in S |-> Finding("windows_cbs", CbsSeverity(l, Group(i), CbsKind(l[i])), Unknown, Group(i))]
<1>1. Cbs(l) = {g[i] : i \in S}
  BY DEF Cbs
<1>2. S \subseteq DOMAIN l /\ DOMAIN g = S /\ \A i \in S : Plain(l, g[i])
  BY DEF Lns, Finding, Blockable, Plain, SingleLine
<1> HIDE DEF S, g
<1>3. Harmless(l, {g[i] : i \in S})
  BY <1>2, HarmlessLines
<1> QED BY <1>1, <1>3

LEMMA InfraHarmless ==
    ASSUME NEW l \in Seq(Lines)
    PROVE  Harmless(l, Infra(l))
<1> DEFINE S == Lns(l, LAMBDA r :
                    /\ ~OfCbs(r) /\ r.format # "bgl" /\ r.text # {}
                    /\ InfraSeverity(r) # "info"
                    /\ r.eid \notin DOMAIN WindowsRules
                    /\ ~LoginLine(r)
                    /\ InfraSeverity(r) = "low" => "watchword" \in r.text)
           g == [i \in S |-> InfraAlert(i, l[i])]
<1>1. Infra(l) = {g[i] : i \in S}
  BY DEF Infra
<1>2. S \subseteq DOMAIN l /\ DOMAIN g = S /\ \A i \in S : Plain(l, g[i])
  BY DEF Lns, InfraAlert, Finding, Blockable, Plain, SingleLine
<1> HIDE DEF S, g
<1>3. Harmless(l, {g[i] : i \in S})
  BY <1>2, HarmlessLines
<1> QED BY <1>1, <1>3

LEMMA ThreatsHarmless ==
    ASSUME NEW l \in Seq(Lines)
    PROVE  Harmless(l, Threats(l))
<1> DEFINE said(r) == {s \in Severities : ("threat_" \o s) \in r.text}
           S == Lns(l, LAMBDA r : said(r) # {})
           g == [i \in S |-> Finding("threat", Worst(said(l[i])), Unknown, {i})]
<1>1. Threats(l) = {g[i] : i \in S}
  BY DEF Threats
<1>2. S \subseteq DOMAIN l /\ DOMAIN g = S /\ \A i \in S : Plain(l, g[i])
  BY DEF Lns, Finding, Blockable, Plain, SingleLine
<1> HIDE DEF S, g
<1>3. Harmless(l, {g[i] : i \in S})
  BY <1>2, HarmlessLines
<1> QED BY <1>1, <1>3

LEMMA IocsHarmless ==
    ASSUME NEW l \in Seq(Lines)
    PROVE  Harmless(l, Iocs(l))
<1> DEFINE S == Lns(l, LAMBDA r : {"ioc_context", "indicator"} \subseteq r.text)
           g == [i \in S |-> Finding("ioc_observed", "medium", Unknown, {i})]
<1>1. Iocs(l) = {g[i] : i \in S}
  BY DEF Iocs
<1>2. S \subseteq DOMAIN l /\ DOMAIN g = S /\ \A i \in S : Plain(l, g[i])
  BY DEF Lns, Finding, Blockable, Plain, SingleLine
<1> HIDE DEF S, g
<1>3. Harmless(l, {g[i] : i \in S})
  BY <1>2, HarmlessLines
<1> QED BY <1>1, <1>3

LEMMA TablesHarmless ==
    ASSUME NEW l \in Seq(Lines)
    PROVE  Harmless(l, ZkFindings(l)) /\ Harmless(l, ZkInstability(l)) /\ Harmless(l, Generic(l))
<1> DEFINE A == {r \in DOMAIN ZkThresholds : ZkHits(l, r) # {}}
           B == {r \in DOMAIN GenericBase : GenericHits(l, r) # {}}
           a == [rule \in A |-> Finding(rule, ZkSeverity(Cardinality(ZkHits(l, rule)), ZkThresholds[rule]),
                                        Unknown, ZkHits(l, rule))]
           b == [rule \in B |->
                   Finding(rule,
                     IF Cardinality(GenericHits(l, rule)) >= Often THEN Promoted[GenericBase[rule]] ELSE GenericBase[rule],
                     Unknown, GenericHits(l, rule))]
<1>1. ZkFindings(l) = {a[r] : r \in A} /\ Generic(l) = {b[r] : r \in B}
  BY DEF ZkFindings, Generic
<1>2. IsFiniteSet(A) /\ IsFiniteSet(B)
  BY FS_Subset, DetectionAssumption DEF DetectionAssumption
<1>3. /\ DOMAIN a = A /\ \A r \in A : Plain(l, a[r])
      /\ DOMAIN b = B /\ \A r \in B : Plain(l, b[r])
  BY DetectionAssumption DEF Finding, Blockable, Plain, SingleLine, ZkHits, GenericHits, Lns, DetectionAssumption
<1> HIDE DEF A, B, a, b
<1>4. Harmless(l, {a[r] : r \in A}) /\ Harmless(l, {b[r] : r \in B})
  BY <1>2, <1>3, ImageIsFinite DEF Harmless
<1>5. Harmless(l, ZkInstability(l))
  <2> DEFINE broken == ZkHits(l, "zk_broken")
             churn == UNION {ZkHits(l, r) : r \in DOMAIN ZkThresholds \cap {"zk_exit", "zk_interrupt", "zk_queue"}}
             Both(n) == Cardinality(broken) >= n /\ Cardinality(churn) >= n
             severity == IF Both(ZkMany) THEN "critical" ELSE IF Both(ZkSome) THEN "high" ELSE "medium"
             f == Finding("zk_instability", severity, Unknown, broken \cup churn)
  <2>1. ZkInstability(l) = IF broken # {} /\ churn # {} THEN {f} ELSE {}
    BY Zenon DEF ZkInstability
  <2>2. Plain(l, f)
    <3>1. broken \subseteq DOMAIN l /\ churn \subseteq DOMAIN l
      BY DEF ZkHits, Lns
    <3> HIDE DEF broken, churn
    <3> QED BY <3>1 DEF Finding, Plain, SingleLine, Blockable
  <2> HIDE DEF f, broken, churn
  <2>3. ZkInstability(l) \subseteq {f}
    BY <2>1
  <2> QED BY <2>2, <2>3, FS_Singleton, FS_Subset DEF Harmless
<1> QED BY <1>1, <1>4, <1>5

-----------------------------------------------------------------------------
(* Of the blockable types are only those who guessed and those who broke in. *)
LEMMA BreakInsAre ==
    ASSUME NEW l \in Seq(Lines)
    PROVE  /\ IsFiniteSet(BreakIns(l))
           /\ \A f \in BreakIns(l) :
                 \E i \in DOMAIN l : l[i].ip = f.about /\ "break_in" \in l[i].text
<1> DEFINE L == Lns(l, LAMBDA r : "break_in" \in r.text)
           a == [i \in L |-> l[i].ip]
           S == {a[i] : i \in L} \ {Unknown}
           g == [ip \in S |-> Finding("possible_break_in", "medium", ip,
                                      {i \in DOMAIN l : "break_in" \in l[i].text /\ l[i].ip = ip})]
<1>1. BreakIns(l) = {g[ip] : ip \in S}
  BY DEF BreakIns
<1>2. L \subseteq DOMAIN l /\ DOMAIN a = L /\ DOMAIN g = S
  BY DEF Lns
<1>3. \A ip \in S : g[ip].about = ip /\ \E i \in DOMAIN l : l[i].ip = ip /\ "break_in" \in l[i].text
  BY DEF Finding, Lns
<1> DEFINE I == {a[i] : i \in L}
<1> HIDE DEF L, a, g, S
<1>4. IsFiniteSet(I)
  BY <1>2, SomeOfLog
<1>5. IsFiniteSet(S)
  <2>1. S \subseteq I
    BY DEF S
  <2> HIDE DEF I
  <2> QED BY <1>4, <2>1, FS_Subset
<1> HIDE DEF I
<1>6. IsFiniteSet({g[ip] : ip \in S})
  BY <1>2, <1>5, ImageIsFinite
<1> QED BY <1>1, <1>3, <1>6

LEMMA FindingsAre ==
    ASSUME NEW l \in Seq(Lines)
    PROVE  /\ IsFiniteSet(Findings(l))
           /\ \A f \in Findings(l) : f \in BruteForce(l) \cup BreakIns(l) \/ Plain(l, f)
<1> DEFINE Rest == Resources(l) \cup Spikes(l) \cup Windows(l) \cup Cbs(l) \cup Infra(l) \cup Threats(l)
                     \cup Iocs(l) \cup ZkFindings(l) \cup ZkInstability(l) \cup Generic(l)
<1>1. Findings(l) = (BruteForce(l) \cup BreakIns(l)) \cup Rest
  BY DEF Findings, Detect, DetectExtra
<1>2. Harmless(l, Rest)
  BY ResourcesHarmless, SpikesHarmless, WindowsHarmless, CbsHarmless, InfraHarmless,
     ThreatsHarmless, IocsHarmless, TablesHarmless, HarmlessUnion
<1> HIDE DEF Rest
<1>3. IsFiniteSet(BruteForce(l) \cup BreakIns(l))
  BY BruteForceIs, BreakInsAre, FS_Union
<1> QED BY <1>1, <1>2, <1>3, FS_Union DEF Harmless

LEMMA AddressedIs ==
    ASSUME NEW l \in Seq(Lines), NEW f \in Findings(l), f.type \in Blockable
    PROVE  /\ AddressIn(l, f) = f.about
           /\ \/ Cardinality(Fails(l, f.about)) >= MinFailures
              \/ \E i \in DOMAIN l : l[i].ip = f.about /\ "break_in" \in l[i].text
<1>1. f \in BruteForce(l) \cup BreakIns(l)
  BY FindingsAre DEF Plain, SingleLine
<1>2. AddressIn(l, f) = f.about
  BY DEF AddressIn, Blockable
<1> QED BY <1>1, <1>2, BruteForceIs, BreakInsAre

-----------------------------------------------------------------------------
(* The report lists the findings of the rules and those of the model.        *)
LEMMA InOrderIs ==
    ASSUME NEW F, IsFiniteSet(F)
    PROVE  InOrder(F) \in Seq({f \in F : f.severity \in Severities})
<1> DEFINE T == {f \in F : f.severity \in Severities}
           Of(s) == SetToSeq({f \in F : f.severity = s})
<1>1. ASSUME NEW s \in Severities PROVE Of(s) \in Seq(T)
  <2> DEFINE G == {f \in F : f.severity = s}
  <2>1. IsFiniteSet(G) /\ G \subseteq T
    BY FS_Subset
  <2> HIDE DEF G, T
  <2>2. SetToSeq(G) \in Seq(G)
    BY <2>1, SetToSeqIs
  <2>3. SetToSeq(G) \in Seq(T)
    BY <2>1, <2>2
  <2> QED BY <2>3 DEF G
<1>2. \A s \in Severities : Of(s) \in Seq(T)
  BY <1>1
<1>3. InOrder(F) = Of("critical") \o Of("high") \o Of("medium") \o Of("low") \o Of("info")
  BY DEF InOrder
<1> HIDE DEF T, Of
<1>4. \A s, t \in Seq(T) : s \o t \in Seq(T)
  OBVIOUS
<1>5. InOrder(F) \in Seq(T)
  BY <1>2, <1>3, <1>4 DEF Severities
<1> QED BY <1>5 DEF T

\* What stays is of the rules, and is counted.
LEMMA DedupedAre ==
    ASSUME NEW l \in Seq(Lines)
    PROVE  /\ Deduped(l) \subseteq Findings(l) /\ IsFiniteSet(Deduped(l))
           /\ \A f \in Findings(l) : IsFiniteSet(f.on) => Occurring(l, f) \in Nat
           /\ \A f : f.type \notin SingleRecord \cup {"error_rate_spike", "windows_cbs"} \cup Counted
                 => Occurring(l, f) = 1
<1>1. IsFiniteSet(Findings(l))
  BY FindingsAre
<1>2. Deduped(l) \subseteq Findings(l)
  BY DEF Deduped
<1>3. ASSUME NEW f PROVE IsFiniteSet(Alike(l, f))
  <2>1. Alike(l, f) \subseteq Findings(l) \/ Alike(l, f) = {f}
    BY DEF Alike
  <2> QED BY <1>1, <2>1, FS_Subset, FS_Singleton
<1>4. ASSUME NEW f, IsFiniteSet(f.on) PROVE Occurring(l, f) \in Nat
  BY <1>3, <1>4, FS_CardinalityType DEF Occurring
<1>5. ASSUME NEW f, f.type \notin SingleRecord \cup {"error_rate_spike", "windows_cbs"} \cup Counted
      PROVE  Occurring(l, f) = 1
  <2>1. Alike(l, f) = {f} /\ Occurring(l, f) = Cardinality(Alike(l, f))
    BY <1>5 DEF Alike, Occurring
  <2> QED BY <2>1, FS_Singleton
<1> QED BY <1>1, <1>2, <1>4, <1>5, FS_Subset

LEMMA ReportIs ==
    ASSUME NEW l \in Seq(Lines), NEW said, IsFiniteSet(said)
    PROVE  /\ ReportOf(l, said) \in Seq(UNION {{Reported(l, f) : f \in Findings(l)}, {ByModel(f) : f \in said}})
           /\ \A k \in DOMAIN ReportOf(l, said) : ReportOf(l, said)[k].severity \in Severities
<1> DEFINE A == {Reported(l, f) : f \in Deduped(l)}
           told == {g \in said : ~Restates(l, g)}
           B == {ByModel(f) : f \in told}
           a == [f \in Deduped(l) |-> Reported(l, f)]
           b == [f \in told |-> ByModel(f)]
           V == {x \in A \cup B : x.severity \in Severities}
<1>1. IsFiniteSet(Deduped(l)) /\ IsFiniteSet(told)
  BY DedupedAre, FS_Subset
<1>2. A = {a[f] : f \in Deduped(l)} /\ B = {b[f] : f \in told}
  OBVIOUS
<1>3. DOMAIN a = Deduped(l) /\ DOMAIN b = told
  OBVIOUS
<1>4. ReportOf(l, said) = InOrder(A) \o InOrder(B)
  BY DEF ReportOf
<1>5. A \cup B \subseteq UNION {{Reported(l, f) : f \in Findings(l)}, {ByModel(f) : f \in said}}
  <2>1. A \subseteq {Reported(l, f) : f \in Findings(l)}
    BY DedupedAre
  <2> QED BY <2>1
<1> HIDE DEF a, b, told
<1> DEFINE X == A
           Y == B
<1>6. IsFiniteSet(X) /\ IsFiniteSet(Y)
  <2>1. IsFiniteSet({a[f] : f \in Deduped(l)}) /\ IsFiniteSet({b[f] : f \in told})
    BY <1>1, <1>3, ImageIsFinite
  <2> HIDE DEF A, B
  <2> QED BY <1>2, <2>1
<1> HIDE DEF X, Y
<1>7. {f \in X : f.severity \in Severities} \subseteq V /\ {f \in Y : f.severity \in Severities} \subseteq V
  BY DEF X, Y
<1>8. InOrder(X) \in Seq(V) /\ InOrder(Y) \in Seq(V)
  <2>1. InOrder(X) \in Seq({f \in X : f.severity \in Severities})
    BY <1>6, InOrderIs
  <2>2. InOrder(Y) \in Seq({f \in Y : f.severity \in Severities})
    BY <1>6, InOrderIs
  <2> HIDE DEF V
  <2> QED BY <1>7, <2>1, <2>2
<1>9. ReportOf(l, said) \in Seq(V)
  BY <1>4, <1>8 DEF X, Y
<1>10. \A k \in DOMAIN ReportOf(l, said) : ReportOf(l, said)[k] \in V
  BY <1>9
<1> DEFINE W == UNION {{Reported(l, f) : f \in Findings(l)}, {ByModel(f) : f \in said}}
<1>11. V \subseteq W
  BY <1>5
<1> HIDE DEF V, W
<1>12. ReportOf(l, said) \in Seq(W)
  BY <1>9, <1>11
<1> QED BY <1>10, <1>12 DEF V, W

-----------------------------------------------------------------------------
(* Incidents.                                                                *)
LEMMA WorstIs ==
    ASSUME NEW S, S \subseteq Severities, S # {}
    PROVE  Worst(S) \in S /\ \A t \in S : Rank[Worst(S)] <= Rank[t]
<1> DEFINE R == {Rank[s] : s \in S}
<1>1. \A s \in Severities : Rank[s] \in Nat
  BY DEF Rank, Severities
<1>2. R \in SUBSET Nat /\ R # {}
  BY <1>1
<1>3. SetMin(R) \in R /\ \A y \in R : SetMin(R) <= y
  BY <1>2, LeastIs
<1>4. \E s \in S : \A t \in S : Rank[s] <= Rank[t]
  BY <1>3
<1> QED BY <1>4 DEF Worst

LEMMA ChainsAreOf ==
    ASSUME NEW members, NEW c \in RolledUp(Chains(members))
    PROVE  c \subseteq members
<1>1. ASSUME NEW d \in Chains(members) PROVE d \subseteq members
  <2> DEFINE stamped == Timed(members)
             first == {f \in stamped : \A g \in stamped : Chained(stamped, f, g) \/ f.stamp < g.stamp}
             Joined(x) == IF x = first THEN x \cup (members \ stamped) ELSE x
  <2>1. stamped \subseteq members
    BY DEF Timed
  <2>2. d = members \/ \E f \in stamped : d = Joined({g \in stamped : Chained(stamped, f, g)})
    BY <1>1, Zenon DEF Chains
  <2> HIDE DEF stamped, first
  <2> QED BY <2>1, <2>2
<1> DEFINE chains == Chains(members)
           lone == {x \in chains : Cardinality(x) = 1 /\ \A f \in x : f.sev \in {"low", "info"}}
<1>2. c \in chains \/ c = UNION lone
  <2> RolledUp(chains) = IF Cardinality(lone) > 1 THEN (chains \ lone) \cup {UNION lone} ELSE chains
    BY Zenon DEF RolledUp
  <2> HIDE DEF chains, lone
  <2> QED BY DEF chains
<1> QED BY <1>1, <1>2

LEMMA EntityIs ==
    ASSUME NEW f, Entity(f)[2] = "ip"
    PROVE  Entity(f)[1] = f.ip
  BY DEF Entity

\* The findings an incident was made of.
MadeOf(i, c) ==
    /\ \A f \in c : Entity(f)[1] = i.entity /\ Entity(f)[2] = i.kind
    /\ i.ids = {f.id : f \in c}
    /\ i.severity = Worst({f.sev : f \in c})

LEMMA IncidentIs ==
    ASSUME NEW findings, NEW org, NEW i \in Derived(findings, org)
    PROVE  \E c \in SUBSET findings : MadeOf(i, c)
<1> DEFINE Of(e) == {f \in findings : Entity(f) = e}
<1>1. PICK f \in findings : \E c \in RolledUp(Chains(Of(Entity(f)))) : i = Incident(org, Entity(f), c)
  BY Zenon DEF Derived
<1>2. PICK c \in RolledUp(Chains(Of(Entity(f)))) : i = Incident(org, Entity(f), c)
  BY <1>1
<1>3. c \subseteq Of(Entity(f))
  BY ChainsAreOf
<1>4. /\ i.entity = Entity(f)[1] /\ i.kind = Entity(f)[2] /\ i.ids = {g.id : g \in c}
      /\ i.severity = Worst({g.sev : g \in c})
  BY <1>2 DEF Incident
<1>5. /\ c \in SUBSET findings
      /\ \A g \in c : Entity(g)[1] = i.entity /\ Entity(g)[2] = i.kind
  BY <1>3, <1>4
<1> QED BY <1>4, <1>5 DEF MadeOf

-----------------------------------------------------------------------------
(* A run is what the console made of a log and of what the model said.       *)
RunOK(r) ==
    \/ r = NoRun
    \/ /\ r.log \in Seq(Lines) /\ IsFiniteSet(r.said)
       /\ r.report = ReportOf(r.log, r.said) /\ r.readable \in BOOLEAN
       /\ r.events = Events(r)
       /\ \A n \in DOMAIN r.org : r.org[n] \in Levels
       /\ r.findings = Adapted(r)
       /\ r.incidents = Derived(r.findings, r.org)

AdviceInv == log \in Seq(Lines) /\ RunOK(run) /\ RunOK(before)

LEMMA RunOfIsOK ==
    ASSUME log \in Seq(Lines), NEW c \in Circumstances
    PROVE  RunOK(RunOf(c))
<1> DEFINE r == Analyzed(c)
           org == OrgContext(c.org)
           s == RunOf(c)
<1>1. r = [log |-> log, said |-> c.said, readable |-> c.readable, report |-> ReportOf(log, c.said)]
  BY DEF Analyzed
<1>2. /\ s.log = log /\ s.said = c.said /\ s.readable = c.readable /\ s.report = ReportOf(log, c.said)
      /\ s.findings = Adapted(r) /\ s.org = org /\ s.incidents = Derived(Adapted(r), org)
  BY <1>1 DEF RunOf, Opened
<1>3. Adapted(s) = Adapted(r)
  <2>1. s.report = r.report /\ s.log = r.log /\ s.readable = r.readable
    BY <1>1, <1>2
  <2> HIDE DEF r, s
  <2> QED BY <2>1 DEF Adapted, AdaptedFinding, Shown, TargetHost, Stamp
<1>4. IsFiniteSet(c.said)
  BY EligibilityAssumption DEF EligibilityAssumption
<1>5. Events(s) = Events(r) /\ s.events = Events(r)
  <2>1. s.report = r.report /\ s.log = r.log /\ s.readable = r.readable
    BY <1>1, <1>2
  <2>2. s.events = Events(r)
    BY DEF RunOf, Opened
  <2> HIDE DEF r, s
  <2> QED BY <2>1, <2>2 DEF Events, EventOf, Citers
<1>6. \A n \in DOMAIN org : org[n] \in Levels
  BY SeedAssumption DEF OrgContext, Levels, DefaultLevel
<1>7. s.readable \in BOOLEAN
  BY <1>2, EligibilityAssumption DEF EligibilityAssumption
<1> HIDE DEF s, r, org
<1> QED BY <1>2, <1>3, <1>4, <1>5, <1>6, <1>7 DEF RunOK, s

LEMMA AdviceInductive == AdviceSpec => []AdviceInv
<1>1. AdviceInit => AdviceInv
  BY DEF AdviceInit, AnalysisInit, LogInit, AdviceInv, RunOK
<1>2. AdviceInv /\ [AdviceNext]_adviceVars => AdviceInv'
  <2> SUFFICES ASSUME AdviceInv, [AdviceNext]_adviceVars PROVE AdviceInv'
    OBVIOUS
  <2>1. CASE ReadLine /\ UNCHANGED before
    <3>1. PICK r \in Lines : log' = Append(log, r)
      BY <2>1 DEF ReadLine, LogNext, Read
    <3>2. log' \in Seq(Lines) /\ run' = run /\ before' = before
      BY <2>1, <3>1 DEF ReadLine, AdviceInv
    <3> QED BY <3>2 DEF AdviceInv, RunOK
  <2>2. CASE (\E c \in Circumstances : Publish(c)) /\ before' = run
    <3>1. PICK c \in Circumstances : run' = RunOf(c) /\ log' = <<>> /\ before' = run
      BY <2>2 DEF Publish
    <3>2. RunOK(RunOf(c)) /\ RunOK(run)
      BY RunOfIsOK DEF AdviceInv
    <3>3. log' \in Seq(Lines)
      BY <3>1
    <3> QED BY <3>1, <3>2, <3>3 DEF AdviceInv, RunOK
  <2>3. CASE Reopen
    BY <2>3 DEF Reopen, AdviceInv, RunOK
  <2>4. CASE UNCHANGED adviceVars
    BY <2>4 DEF adviceVars, analysisVars, AdviceInv, RunOK
  <2> QED BY <2>1, <2>2, <2>3, <2>4 DEF AdviceNext
<1> QED BY <1>1, <1>2, PTL DEF AdviceSpec

(* A finding of the console by a rule is one of the log's, about the address *)
(* and as severe as the rule said.                                           *)
LEMMA RuleFindingIs ==
    ASSUME RunOK(run), NEW f \in run.findings, f.id[1] = "detector"
    PROVE  /\ run.log \in Seq(Lines)
           /\ \E x \in Findings(run.log) :
                 f.type = x.type /\ f.sev = x.severity /\ f.ip = AddressIn(run.log, x)
<1>1. run # NoRun
  BY DEF NoRun
<1>2. /\ run.log \in Seq(Lines) /\ IsFiniteSet(run.said)
      /\ run.report = ReportOf(run.log, run.said) /\ run.findings = Adapted(run)
  BY <1>1 DEF RunOK
<1>3. PICK k \in DOMAIN run.report : f = AdaptedFinding(run, run.report[k], k, Shown(run, run.report[k]))
  BY <1>2 DEF Adapted
<1> DEFINE g == run.report[k]
<1>4. f.id = <<g.source, k>> /\ f.type = g.type /\ f.sev = g.severity /\ f.ip = g.ip
  BY <1>3 DEF AdaptedFinding
<1>5. g \in UNION {{Reported(run.log, x) : x \in Findings(run.log)}, {ByModel(m) : m \in run.said}}
  <2> DEFINE V == UNION {{Reported(run.log, x) : x \in Findings(run.log)}, {ByModel(m) : m \in run.said}}
  <2>1. run.report \in Seq(V)
    BY <1>2, ReportIs
  <2> HIDE DEF V
  <2>2. g \in V
    BY <2>1
  <2> QED BY <2>2 DEF V
<1>6. g.source = "detector"
  BY <1>4
<1>7. PICK x \in Findings(run.log) : g = Reported(run.log, x)
  <2>1. \A m \in run.said : ByModel(m).source = "llm"
    BY DEF ByModel
  <2> HIDE DEF g
  <2> QED BY <1>5, <1>6, <2>1
<1>8. g.type = x.type /\ g.severity = x.severity /\ g.ip = AddressIn(run.log, x)
  BY <1>7 DEF Reported
<1> HIDE DEF g
<1> QED BY <1>2, <1>4, <1>8

LEMMA SeverityAdapted ==
    ASSUME RunOK(run), NEW f \in run.findings
    PROVE  f.sev \in Severities
<1>1. run # NoRun
  BY DEF NoRun
<1>2. /\ run.log \in Seq(Lines) /\ IsFiniteSet(run.said)
      /\ run.report = ReportOf(run.log, run.said) /\ run.findings = Adapted(run)
  BY <1>1 DEF RunOK
<1>3. PICK k \in DOMAIN run.report : f = AdaptedFinding(run, run.report[k], k, Shown(run, run.report[k]))
  BY <1>2 DEF Adapted
<1>4. f.sev = run.report[k].severity
  BY <1>3 DEF AdaptedFinding
<1> QED BY <1>2, <1>4, ReportIs

LEMMA IdsAreUnique ==
    ASSUME RunOK(run), NEW f \in run.findings, NEW g \in run.findings, f.id = g.id
    PROVE  f = g
<1>1. run # NoRun
  BY DEF NoRun
<1>2. run.findings = Adapted(run)
  BY <1>1 DEF RunOK
<1>3. PICK k \in DOMAIN run.report : f = AdaptedFinding(run, run.report[k], k, Shown(run, run.report[k]))
  BY <1>2 DEF Adapted
<1>4. PICK m \in DOMAIN run.report : g = AdaptedFinding(run, run.report[m], m, Shown(run, run.report[m]))
  BY <1>2 DEF Adapted
<1>5. f.id = <<run.report[k].source, k>> /\ g.id = <<run.report[m].source, m>>
  BY <1>3, <1>4 DEF AdaptedFinding
<1> QED BY <1>3, <1>4, <1>5

(* An incident of the loaded run that rules alone made and that a runbook    *)
(* would answer by blocking its address (catalog.eligible) is of an address  *)
(* the loaded run's own log shows to fail to log in often enough or to be    *)
(* flagged as a break-in, and one of the rules' findings about that address  *)
(* is as severe as the runbook's floor, whatever chained the findings, rolled*)
(* them up, and derived the incident's severity.                             *)
THEOREM BlocksAreEarned == AdviceSpec => []BlockIsEarned
<1>1. ASSUME AdviceInv PROVE BlockIsEarned
  <2> SUFFICES ASSUME NEW book \in Runbooks, NEW i \in run.incidents,
                      book.kinds = {"ip"}, Eligible(book, i), ByRulesAlone(i)
               PROVE  /\ Attacked(i)
                      /\ \E f \in Findings(run.log) :
                           Rank[f.severity] <= Rank[book.floor] /\ AddressIn(run.log, f) = i.entity
    BY DEF BlockIsEarned
  <2>1. RunOK(run) /\ run.incidents = Derived(run.findings, run.org)
    BY <1>1 DEF AdviceInv, RunOK, NoRun
  <2>0. PICK c \in SUBSET run.findings : MadeOf(i, c)
    BY <2>1, IncidentIs
  <2>2. /\ \A f \in c : Entity(f)[1] = i.entity /\ Entity(f)[2] = i.kind
        /\ i.ids = {f.id : f \in c}
        /\ i.severity = Worst({f.sev : f \in c})
    BY <2>0 DEF MadeOf
  <2>3. Members(i) = c
    BY <2>1, <2>2, IdsAreUnique DEF Members
  <2>4. /\ \E f \in c : f.type \in book.rules
        /\ i.kind = "ip"
        /\ Rank[i.severity] <= Rank[book.floor]
    <3>1. /\ \E f \in Members(i) : f.type \in book.rules
          /\ i.kind \in book.kinds
          /\ Rank[i.severity] <= Rank[book.floor]
      BY DEF Eligible, Missing
    <3> QED BY <2>3, <3>1
  <2>5. \A f \in c : /\ f.ip = i.entity
                     /\ \E x \in Findings(run.log) :
                           f.type = x.type /\ f.sev = x.severity /\ AddressIn(run.log, x) = i.entity
    <3> SUFFICES ASSUME NEW f \in c
                 PROVE  /\ f.ip = i.entity
                        /\ \E x \in Findings(run.log) :
                              f.type = x.type /\ f.sev = x.severity /\ AddressIn(run.log, x) = i.entity
      OBVIOUS
    <3>1. f.ip = i.entity
      BY <2>2, <2>4, EntityIs
    <3>2. f.id[1] = "detector"
      BY <2>3 DEF ByRulesAlone
    <3> QED BY <2>1, <3>1, <3>2, RuleFindingIs
  <2>6. PICK f \in c : f.type \in book.rules
    BY <2>4
  <2>7. run.log \in Seq(Lines)
    BY <2>1, <2>3, <2>6, RuleFindingIs DEF ByRulesAlone
  <2>8. PICK x \in Findings(run.log) : f.type = x.type /\ AddressIn(run.log, x) = i.entity
    BY <2>5
  <2>9. x.type \in Blockable
    BY <2>6, <2>8, EligibilityAssumption DEF EligibilityAssumption, Blockable
  <2>10. Attacked(i)
    <3>1. /\ x.about = i.entity
          /\ \/ Cardinality(Fails(run.log, x.about)) >= MinFailures
             \/ \E n \in DOMAIN run.log : run.log[n].ip = x.about /\ "break_in" \in run.log[n].text
      BY <2>7, <2>8, <2>9, AddressedIs
    <3>2. CASE Cardinality(Fails(run.log, i.entity)) >= MinFailures
      <4> DEFINE D == {n \in DOMAIN run.log : /\ run.log[n].ip = i.entity
                                              /\ AuthSource[run.log[n]] \in Failures
                                                 \/ "auth_failed" \in run.log[n].text}
      <4>1. Fails(run.log, i.entity) \subseteq D
        BY <2>7, FailsAre
      <4>2. IsFiniteSet(D)
        BY <2>7, LinesOfLog, FS_Subset
      <4>3. Cardinality(Fails(run.log, i.entity)) <= Cardinality(D)
            /\ Cardinality(D) \in Nat /\ Cardinality(Fails(run.log, i.entity)) \in Nat
        <5> HIDE DEF D
        <5> QED BY <4>1, <4>2, FS_Subset, FS_CardinalityType
      <4>4. MinFailures \in Nat
        BY DetectionAssumption DEF DetectionAssumption
      <4>5. Cardinality(D) >= MinFailures
        <5> HIDE DEF D
        <5> QED BY <3>2, <4>3, <4>4
      <4> QED BY <4>5 DEF Attacked
    <3> QED BY <3>1, <3>2 DEF Attacked
  <2>11. \E y \in Findings(run.log) :
            Rank[y.severity] <= Rank[book.floor] /\ AddressIn(run.log, y) = i.entity
    <3>1. {h.sev : h \in c} \subseteq Severities /\ {h.sev : h \in c} # {}
      BY <2>1, <2>6, SeverityAdapted
    <3>2. Worst({h.sev : h \in c}) \in {h.sev : h \in c}
      BY <3>1, WorstIs
    <3>3. PICK w \in c : w.sev = i.severity
      BY <2>2, <3>2
    <3> QED BY <2>4, <2>5, <3>3
  <2> QED BY <2>10, <2>11
<1> QED BY <1>1, AdviceInductive, PTL

-----------------------------------------------------------------------------
LEMMA SameSize ==
    ASSUME NEW S, IsFiniteSet(S), NEW T, NEW h \in [S -> T],
           \A x, y \in S : h[x] = h[y] => x = y, \A z \in T : \E x \in S : h[x] = z
    PROVE  IsFiniteSet(T) /\ Cardinality(T) = Cardinality(S)
<1>1. h \in Bijection(S, T)
  BY DEF Bijection, Injection, Surjection, IsInjective
<1> QED BY <1>1, FS_Bijection DEF ExistsBijection

(* What the sweep leaves, for errors wherever they stand: the spikes are     *)
(* windows with enough in them, and each such window is a spike or begins    *)
(* above the end of one before it.                                           *)
Enough(l, errs, k) == ~(Cardinality(ErrorsFrom(l, errs, k)) < MinErrors)

SpikeEnd(l, errs, k) == errs[SetMax(ErrorsFrom(l, errs, k))]

LEMMA SpikesSwept ==
    ASSUME NEW l, NEW errs \in Seq(Nat), \A k \in 1..Len(errs) : errs[k] \in Nat \ {0}
    PROVE  /\ \A x \in SpikesAmong(l, errs) :
                \E k \in 1..Len(errs) : Enough(l, errs, k) /\ x = Spike(l, errs, k)
           /\ \A k \in 1..Len(errs) : Enough(l, errs, k) =>
                \/ Spike(l, errs, k) \in SpikesAmong(l, errs)
                \/ \E p \in 1..Len(errs) :
                      /\ p < k /\ Spike(l, errs, p) \in SpikesAmong(l, errs)
                      /\ Enough(l, errs, p) /\ errs[k] <= SpikeEnd(l, errs, p)
<1>1. PICK f : /\ SpikesAmong(l, errs) = f[Len(errs)].spikes
               /\ f[0] = SweepStart
               /\ \A k \in 1..Len(errs) : f[k] = SweepStep(l, errs, f[k - 1], k)
               /\ \A k \in 0..Len(errs) : f[k].spikes \subseteq {Spike(l, errs, m) : m \in 1..Len(errs)}
  BY SweepIs, Zenon
<1> DEFINE n == Len(errs)
           B(k) == Enough(l, errs, k)
           E(k) == SpikeEnd(l, errs, k)
           K(k) == Spike(l, errs, k)
<1>2. n \in Nat /\ \A k \in 1..n : errs[k] \in Nat \ {0}
  OBVIOUS
<1>3. \A k \in 1..n :
        f[k] = IF ~B(k) \/ errs[k] <= f[k - 1].upto THEN f[k - 1]
               ELSE [upto |-> E(k), spikes |-> f[k - 1].spikes \cup {K(k)}]
  BY <1>1, Zenon DEF SweepStep, Enough, SpikeEnd
<1>4. f[0].upto = 0 /\ f[0].spikes = {}
  BY <1>1 DEF SweepStart
<1> HIDE DEF n, B, E, K
<1> DEFINE Windows1(k) == \A x \in f[k].spikes : \E m \in 1..k : B(m) /\ x = K(m)
           Covered(k, m) == \/ K(m) \in f[k].spikes
                            \/ \E p \in 1..m - 1 : K(p) \in f[k].spikes /\ B(p) /\ errs[m] <= E(p)
           End(k) == \/ f[k].upto = 0
                     \/ \E p \in 1..k : K(p) \in f[k].spikes /\ B(p) /\ f[k].upto = E(p)
           All(k) == \A m \in 1..k : B(m) => Covered(k, m)
           S == {k \in 0..n : Windows1(k) /\ All(k) /\ End(k)}
<1>5. 0 \in S
  BY <1>2, <1>4
<1>6. ASSUME NEW k \in 1..n, k - 1 \in S PROVE k \in S
  <2>1. /\ k \in 0..n /\ k \in Nat /\ \A m \in 1..k : m = k \/ m \in 1..k - 1
        /\ \A m \in 1..k - 1 : m \in 1..k
    BY <1>2
  <2>2. Windows1(k - 1) /\ All(k - 1) /\ End(k - 1)
    BY <1>6
  <2>3. CASE ~B(k) \/ errs[k] <= f[k - 1].upto
    <3>1. f[k] = f[k - 1]
      BY <1>3, <2>3
    <3>2. Windows1(k) /\ End(k)
      BY <2>1, <2>2, <3>1
    <3>3. ASSUME B(k) PROVE Covered(k, k)
      <4>1. errs[k] <= f[k - 1].upto
        BY <2>3, <3>3
      <4>2. f[k - 1].upto # 0
        BY <1>2, <4>1
      <4>3. PICK p \in 1..k - 1 : K(p) \in f[k - 1].spikes /\ B(p) /\ f[k - 1].upto = E(p)
        BY <2>2, <4>2
      <4> QED BY <3>1, <4>1, <4>3
    <3>4. All(k)
      BY <2>1, <2>2, <3>1, <3>3
    <3> QED BY <2>1, <3>2, <3>4
  <2>4. CASE B(k) /\ ~(errs[k] <= f[k - 1].upto)
    <3>1. f[k].upto = E(k) /\ f[k].spikes = f[k - 1].spikes \cup {K(k)}
      <4>1. f[k] = [upto |-> E(k), spikes |-> f[k - 1].spikes \cup {K(k)}]
        BY <1>3, <2>4, Zenon
      <4> QED BY <4>1
    <3>2. k \in 1..k
      BY <2>1
    <3>3. Windows1(k)
      BY <2>1, <2>2, <2>4, <3>1, <3>2
    <3>4. End(k)
      BY <2>4, <3>1, <3>2
    <3>5. All(k)
      <4>1. ASSUME NEW m \in 1..k - 1, B(m) PROVE Covered(k, m)
        <5>1. Covered(k - 1, m)
          BY <2>2, <4>1
        <5> QED BY <3>1, <5>1
      <4>2. Covered(k, k)
        BY <3>1
      <4> QED BY <2>1, <4>1, <4>2
    <3> QED BY <2>1, <3>3, <3>4, <3>5
  <2> QED BY <2>3, <2>4
<1>7. n \in S
  <2> HIDE DEF S
  <2>1. \A k \in 0..n : k \in S
    BY <1>2, <1>5, <1>6, Upwards
  <2> QED BY <1>2, <2>1
<1>8. \A m \in 1..n : \A p \in 1..m - 1 : p \in 1..n /\ p < m
  BY <1>2
<1>9. SpikesAmong(l, errs) = f[n].spikes
  BY <1>1 DEF n
<1>10. /\ \A x \in SpikesAmong(l, errs) : \E k \in 1..n : B(k) /\ x = K(k)
       /\ \A k \in 1..n : B(k) =>
            \/ K(k) \in SpikesAmong(l, errs)
            \/ \E p \in 1..n : p < k /\ K(p) \in SpikesAmong(l, errs) /\ B(p) /\ errs[k] <= E(p)
  BY <1>7, <1>8, <1>9
<1> QED BY <1>10 DEF n, B, E, K

(* Where the errors rise in the file too, the spikes do not overlap.         *)
LEMMA SpikesApart ==
    ASSUME NEW l, NEW errs \in Seq(Nat), \A k, m \in 1..Len(errs) : k < m => errs[k] < errs[m],
           \A k \in 1..Len(errs) : l[errs[k]].at \in Nat
    PROVE  \A x, y \in SpikesAmong(l, errs) : x = y \/ x.on \cap y.on = {}
<1>1. PICK f : /\ SpikesAmong(l, errs) = f[Len(errs)].spikes
               /\ f[0] = SweepStart
               /\ \A k \in 1..Len(errs) : f[k] = SweepStep(l, errs, f[k - 1], k)
               /\ \A k \in 0..Len(errs) : f[k].spikes \subseteq {Spike(l, errs, m) : m \in 1..Len(errs)}
  BY SweepIs, Zenon
<1> DEFINE n == Len(errs)
           B(k) == Enough(l, errs, k)
           E(k) == SpikeEnd(l, errs, k)
           K(k) == Spike(l, errs, k)
<1>2. n \in Nat /\ \A k \in 1..n : errs[k] \in Nat
  OBVIOUS
<1>3. \A k \in 1..n :
        f[k] = IF ~B(k) \/ errs[k] <= f[k - 1].upto THEN f[k - 1]
               ELSE [upto |-> E(k), spikes |-> f[k - 1].spikes \cup {K(k)}]
  BY <1>1, Zenon DEF SweepStep, Enough, SpikeEnd
<1>4. f[0].upto = 0 /\ f[0].spikes = {}
  BY <1>1 DEF SweepStart
<1>5. ASSUME NEW k \in 1..n
      PROVE  /\ E(k) \in Nat /\ errs[k] <= E(k)
             /\ \A i \in K(k).on : errs[k] <= i /\ i <= E(k) /\ i \in Nat
  <2> DEFINE W == ErrorsFrom(l, errs, k)
             hi == SetMax(W)
  <2>1. W \subseteq k..n /\ k \in W
    <3>1. l[errs[k]].at \in Nat /\ ErrorWindow \in Nat
      BY DetectionAssumption DEF DetectionAssumption
    <3>2. l[errs[k]].at - l[errs[k]].at <= ErrorWindow
      BY <3>1
    <3> QED BY <1>2, <3>2 DEF ErrorsFrom
  <2>2. hi \in W /\ \A m \in W : m <= hi
    <3>1. W \in SUBSET Nat /\ \A m \in W : m <= n
      BY <1>2, <2>1
    <3> HIDE DEF W
    <3> QED BY <1>2, <2>1, <3>1, GreatestIs
  <2>3. K(k).on = {errs[m] : m \in W}
    BY DEF Spike, Finding
  <2> HIDE DEF W, hi, n
  <2>4. ASSUME NEW m \in W PROVE errs[k] <= errs[m] /\ errs[m] <= errs[hi] /\ errs[m] \in Nat
    <3>1. m \in 1..n /\ hi \in 1..n /\ k <= m /\ m <= hi
      BY <1>2, <2>1, <2>2
    <3>2. errs[k] \in Nat /\ errs[m] \in Nat /\ errs[hi] \in Nat
      BY <1>2, <3>1
    <3>3. (k < m => errs[k] < errs[m]) /\ (m < hi => errs[m] < errs[hi])
      BY <3>1 DEF n
    <3> QED BY <1>2, <3>1, <3>2, <3>3
  <2>5. E(k) = errs[hi]
    BY DEF SpikeEnd, hi, W
  <2> QED BY <2>1, <2>2, <2>3, <2>4, <2>5
<1> HIDE DEF n, B, E, K
<1> DEFINE Below(k) == \A x \in f[k].spikes : \A i \in x.on : i \in Nat /\ i <= f[k].upto
           Apart(k) == \A x, y \in f[k].spikes : x = y \/ x.on \cap y.on = {}
           S == {k \in 0..n : f[k].upto \in Nat /\ Below(k) /\ Apart(k)}
<1>6. 0 \in S
  BY <1>2, <1>4
<1>7. ASSUME NEW k \in 1..n, k - 1 \in S PROVE k \in S
  <2>1. k \in 0..n
    BY <1>2
  <2>2. f[k - 1].upto \in Nat /\ Below(k - 1) /\ Apart(k - 1)
    BY <1>7
  <2>3. CASE ~B(k) \/ errs[k] <= f[k - 1].upto
    <3>1. f[k] = f[k - 1]
      BY <1>3, <2>3
    <3> QED BY <2>1, <2>2, <3>1
  <2>4. CASE B(k) /\ ~(errs[k] <= f[k - 1].upto)
    <3>1. f[k].upto = E(k) /\ f[k].spikes = f[k - 1].spikes \cup {K(k)}
      <4>1. f[k] = [upto |-> E(k), spikes |-> f[k - 1].spikes \cup {K(k)}]
        BY <1>3, <2>4, Zenon
      <4> QED BY <4>1
    <3>2. /\ E(k) \in Nat /\ errs[k] \in Nat /\ errs[k] <= E(k) /\ f[k - 1].upto < errs[k]
          /\ \A i \in K(k).on : errs[k] <= i /\ i <= E(k) /\ i \in Nat
      BY <1>2, <1>5, <2>2, <2>4
    <3>3. \A x \in f[k - 1].spikes : \A i \in x.on : i \in Nat /\ i < errs[k]
      BY <2>2, <3>2
    <3>4. Below(k)
      BY <3>1, <3>2, <3>3
    <3>5. \A x \in f[k - 1].spikes : x.on \cap K(k).on = {}
      BY <3>2, <3>3
    <3>6. Apart(k)
      BY <2>2, <3>1, <3>5
    <3> QED BY <2>1, <3>1, <3>2, <3>4, <3>6
  <2> QED BY <2>3, <2>4
<1>8. n \in S
  <2> HIDE DEF S
  <2>1. \A k \in 0..n : k \in S
    BY <1>2, <1>6, <1>7, Upwards
  <2> QED BY <1>2, <2>1
<1>9. SpikesAmong(l, errs) = f[n].spikes
  BY <1>1 DEF n
<1> QED BY <1>8, <1>9

\* Whoever reads it, a log is one of lines.
LEMMA LogsAreOfLines ==
    (LogSpec => [](log \in Seq(Lines))) /\ (AdviceSpec => [](log \in Seq(Lines)))
<1>1. LogInit => log \in Seq(Lines)
  BY DEF LogInit
<1>2. log \in Seq(Lines) /\ [LogNext]_log => (log \in Seq(Lines))'
  BY DEF LogNext, Read
<1>3. AdviceInv => log \in Seq(Lines)
  BY DEF AdviceInv
<1>4. AdviceSpec => [](log \in Seq(Lines))
  BY <1>3, AdviceInductive, PTL
<1> QED BY <1>1, <1>2, <1>4, PTL DEF LogSpec

-----------------------------------------------------------------------------
(* The two pointers of the brute-force rule.                                 *)
SlideStart == [first |-> 1, peak |-> 0]

First(times, from, j) ==
    CHOOSE i \in from..j : /\ times[j] - times[i] <= FailureWindow
                           /\ \A k \in from..(i - 1) : times[j] - times[k] > FailureWindow

SlideStep(times, was, j) ==
    [first |-> First(times, was.first, j),
     peak |-> IF j - First(times, was.first, j) + 1 > was.peak
              THEN j - First(times, was.first, j) + 1 ELSE was.peak]

LEMMA FirstIs ==
    ASSUME NEW times \in Seq(Nat), NEW j \in 1..Len(times), NEW from \in 1..j
    PROVE  LET i == First(times, from, j)
           IN  /\ i \in from..j /\ times[j] - times[i] <= FailureWindow
               /\ \A k \in from..(i - 1) : times[j] - times[k] > FailureWindow
<1> DEFINE B == {i \in from..j : times[j] - times[i] <= FailureWindow}
           b == SetMin(B)
<1>0. FailureWindow \in Nat
  BY DetectionAssumption DEF DetectionAssumption
<1>1. FailureWindow \in Nat /\ \A k \in 1..j : times[k] \in Nat
  BY <1>0
<1>2. j \in B
  <2>1. j \in from..j /\ times[j] \in Nat
    BY <1>1
  <2>2. \A x \in Nat : x - x <= FailureWindow
    BY <1>0
  <2> QED BY <2>1, <2>2
<1>3. b \in B /\ \A y \in B : b <= y
  <2>1. B \in SUBSET Nat /\ B # {}
    BY <1>2
  <2> HIDE DEF B
  <2> QED BY <2>1, LeastIs
<1> HIDE DEF b
<1>4. /\ b \in from..j /\ times[j] - times[b] <= FailureWindow
      /\ \A k \in from..(b - 1) : times[j] - times[k] > FailureWindow
  <2>1. b \in from..j /\ times[j] - times[b] <= FailureWindow
    BY <1>3
  <2>2. ASSUME NEW k \in from..(b - 1) PROVE times[j] - times[k] > FailureWindow
    <3>1. k \in from..j /\ ~(b <= k) /\ k \in 1..j
      BY <2>1
    <3>2. k \notin B
      BY <1>3, <3>1
    <3>3. times[j] \in Nat /\ times[k] \in Nat
      BY <1>1, <3>1
    <3> QED BY <1>1, <3>1, <3>2, <3>3
  <2> QED BY <2>1, <2>2
<1>5. \E i \in from..j : /\ times[j] - times[i] <= FailureWindow
                         /\ \A k \in from..(i - 1) : times[j] - times[k] > FailureWindow
  BY <1>4
<1> HIDE DEF B
<1> QED BY <1>5, Zenon DEF First

LEMMA PeakIs ==
    ASSUME NEW times \in Seq(Nat)
    PROVE  \E f : /\ Peak(times) = f[Len(times)].peak
                  /\ f[0] = SlideStart
                  /\ \A j \in 1..Len(times) : f[j] = SlideStep(times, f[j - 1], j)
                  /\ \A j \in 1..Len(times) : f[j - 1].first \in 1..j /\ f[j].first \in 1..j
                  /\ \A j \in 0..Len(times) : f[j].peak \in Nat
<1> DEFINE n == Len(times)
           V == [first : Nat \ {0}, peak : Nat]
           G == [p \in V \X (1..n) |-> IF p[1].first <= p[2] THEN SlideStep(times, p[1], p[2]) ELSE p[1]]
           Slide[j \in 0..n] ==
            IF j = 0 THEN [first |-> 1, peak |-> 0]
            ELSE LET was == Slide[j - 1]
                     first == CHOOSE i \in was.first..j :
                                /\ times[j] - times[i] <= FailureWindow
                                /\ \A k \in was.first..(i - 1) : times[j] - times[k] > FailureWindow
                     size == j - first + 1
                 IN  [first |-> first, peak |-> IF size > was.peak THEN size ELSE was.peak]
<1>1. Peak(times) = Slide[n].peak
  BY Zenon DEF Peak
<1>2. n \in Nat /\ SlideStart \in V
  BY DEF SlideStart
<1>3. ASSUME NEW v \in V, NEW j \in 1..n, v.first <= j
      PROVE  SlideStep(times, v, j) \in V /\ SlideStep(times, v, j).first \in 1..j
  <2>1. v.first \in 1..j /\ v.peak \in Nat
    BY <1>3
  <2>2. First(times, v.first, j) \in v.first..j
    BY <2>1, FirstIs
  <2> QED BY <2>1, <2>2 DEF SlideStep
<1>4. \A v \in V : \A j \in 1..n :
         /\ G[<<v, j>>] \in V
         /\ v.first <= j => G[<<v, j>>] = SlideStep(times, v, j)
  BY <1>3
<1>5. PICK f : Goes(f, V, SlideStart, n, G)
  <2> HIDE DEF V, G, n
  <2>1. Closed(V, n, G)
    BY <1>4 DEF Closed
  <2> QED BY <1>2, <2>1, Recursion
<1>6. \A j \in 0..n : f[j] \in V
  <2> HIDE DEF V, G, n
  <2> QED BY <1>5 DEF Goes
<1> DEFINE S == {j \in 0..n : f[j].first <= j + 1}
<1>7. 0 \in S
  BY <1>2, <1>5 DEF Goes, SlideStart
<1>8. ASSUME NEW j \in 1..n, j - 1 \in S PROVE f[j] = SlideStep(times, f[j - 1], j) /\ f[j].first \in 1..j
  <2>1. f[j - 1] \in V /\ f[j - 1].first <= j
    BY <1>2, <1>6, <1>8
  <2>2. f[j] = G[<<f[j - 1], j>>]
    BY <1>5 DEF Goes
  <2> HIDE DEF V, G
  <2> QED BY <1>3, <1>4, <2>1, <2>2
<1>9. \A j \in 0..n : j \in S
  <2>1. ASSUME NEW j \in 1..n, j - 1 \in S PROVE j \in S
    <3>1. f[j].first \in 1..j /\ j \in 0..n
      BY <1>2, <1>8, <2>1
    <3> QED BY <3>1
  <2> HIDE DEF S, n
  <2> QED BY <1>2, <1>7, <2>1, Upwards
<1>10. \A j \in 1..n : f[j] = SlideStep(times, f[j - 1], j) /\ f[j].first \in 1..j /\ f[j - 1].first \in 1..j
  <2> SUFFICES ASSUME NEW j \in 1..n
               PROVE  f[j] = SlideStep(times, f[j - 1], j) /\ f[j].first \in 1..j /\ f[j - 1].first \in 1..j
    OBVIOUS
  <2>0. j - 1 \in 0..n
    BY <1>2
  <2>1. j - 1 \in S
    <3> HIDE DEF S, n
    <3> QED BY <1>9, <2>0
  <2>2. f[j - 1].first <= j /\ f[j - 1] \in V
    BY <1>2, <1>6, <2>1
  <2>3. f[j - 1].first \in 1..j
    BY <2>2
  <2> HIDE DEF S, V, n
  <2> QED BY <1>8, <2>1, <2>3

<1>11. \E g : g = [j \in 0..n |->
               IF j = 0 THEN [first |-> 1, peak |-> 0]
               ELSE LET was == g[j - 1]
                        first == CHOOSE i \in was.first..j :
                                   /\ times[j] - times[i] <= FailureWindow
                                   /\ \A k \in was.first..(i - 1) : times[j] - times[k] > FailureWindow
                        size == j - first + 1
                    IN  [first |-> first, peak |-> IF size > was.peak THEN size ELSE was.peak]]
  <2> HIDE DEF V, G, S
  <2>1. \A j \in 0..n : j # 0 => j \in 1..n
    BY <1>2
  <2> HIDE DEF n
  <2> WITNESS f
  <2> QED BY <1>5, <1>10, <2>1 DEF Goes, SlideStep, SlideStart, First
<1>12. Slide = [j \in 0..n |->
               IF j = 0 THEN [first |-> 1, peak |-> 0]
               ELSE LET was == Slide[j - 1]
                        first == CHOOSE i \in was.first..j :
                                   /\ times[j] - times[i] <= FailureWindow
                                   /\ \A k \in was.first..(i - 1) : times[j] - times[k] > FailureWindow
                        size == j - first + 1
                    IN  [first |-> first, peak |-> IF size > was.peak THEN size ELSE was.peak]]
  BY <1>11, Zenon
<1> HIDE DEF Slide

<1>13. Slide[0] = SlideStart /\ \A j \in 1..n : Slide[j] = SlideStep(times, Slide[j - 1], j)
  <2>1. 0 \in 0..n /\ \A j \in 1..n : j \in 0..n /\ j # 0
    BY <1>2
  <2> HIDE DEF n
  <2>2. Slide[0] = SlideStart
    BY <1>12, <2>1, Zenon DEF SlideStart
  <2>3. ASSUME NEW j \in 1..n PROVE Slide[j] = SlideStep(times, Slide[j - 1], j)
    BY <1>12, <2>1, Zenon DEF SlideStep, First
  <2> QED BY <2>2, <2>3
<1>14. Slide[n] = f[n]
  <2> DEFINE E == {j \in 0..n : Slide[j] = f[j]}
  <2>1. 0 \in E
    BY <1>2, <1>5, <1>13 DEF Goes
  <2>2. ASSUME NEW j \in 1..n, j - 1 \in E PROVE j \in E
    <3>1. Slide[j - 1] = f[j - 1] /\ j \in 0..n
      BY <1>2, <2>2
    <3>2. Slide[j] = SlideStep(times, f[j - 1], j)
      BY <1>13, <3>1
    <3> QED BY <1>10, <3>1, <3>2
  <2> HIDE DEF E, n
  <2>3. n \in E
    <3>1. \A j \in 0..n : j \in E
      BY <1>2, <2>1, <2>2, Upwards
    <3> QED BY <1>2, <3>1
  <2> QED BY <2>3 DEF E
<1>15. f[0] = SlideStart /\ \A j \in 0..n : f[j].peak \in Nat
  <2> HIDE DEF n, G
  <2> QED BY <1>5, <1>6 DEF Goes
<1> HIDE DEF S, V, G, n
<1> QED BY <1>1, <1>10, <1>14, <1>15 DEF n

-----------------------------------------------------------------------------
(* Windows of time.  Many of some lines lie in a window that starts at one   *)
(* of them exactly if their stamps, in order, are close that often.          *)
Ascending(times) == \A k, m \in 1..Len(times) : k < m => times[k] <= times[m]

Close(times, window, many) ==
    \E k, m \in 1..Len(times) : k <= m /\ times[m] - times[k] <= window /\ m - k + 1 >= many

Near(l, lns, t, window) == {i \in lns : l[i].at # NoTime /\ l[i].at - t \in 0..window}

Crowded(l, lns, window, many) ==
    \E t \in {l[i].at : i \in lns} \ {NoTime} : Cardinality(Near(l, lns, t, window)) >= many

LEMMA StampsAre ==
    ASSUME NEW l \in Seq(Lines), NEW lns, lns \subseteq DOMAIN l
    PROVE  LET s == Sorted(l, lns)
               times == Stamps(l, lns)
           IN  /\ times \in Seq(Nat) /\ Ascending(times) /\ Len(s) = Len(times) /\ Len(times) \in Nat
               /\ \A k \in 1..Len(times) : s[k] \in lns /\ times[k] = l[s[k]].at
               /\ \A k, m \in 1..Len(times) : s[k] = s[m] => k = m
               /\ \A i \in lns : l[i].at # NoTime => \E k \in 1..Len(times) : s[k] = i
<1> DEFINE s == Sorted(l, lns)
           times == Stamps(l, lns)
           timed == {i \in lns : l[i].at # NoTime}
           n == Cardinality(timed)
<1>1. IsFiniteSet(lns) /\ lns \subseteq Nat /\ \A i \in lns : l[i].at \in Nat \cup {NoTime}
  BY LinesOfLog, FS_Subset
<1>2. /\ n \in Nat /\ s \in Seq(timed) /\ Len(s) = n
      /\ \A k, m \in 1..n : k < m => Before(l, s[k], s[m])
  <2>1. n \in Nat /\ s \in Seq(timed) /\ Len(s) = n
    BY <1>1, SortedIs
  <2>2. \A k, m \in 1..n : k < m => Before(l, s[k], s[m])
    BY <1>1, SortedIs
  <2> QED BY <2>1, <2>2
<1>3. Lists(s, timed)
  BY <1>1, SortedIs
<1>4. times = [k \in DOMAIN s |-> l[s[k]].at]
  BY DEF Stamps
<1> HIDE DEF s, times, n
<1>5. \A k \in 1..n : s[k] \in lns /\ l[s[k]].at \in Nat /\ s[k] \in Nat
  <2>1. \A k \in 1..n : s[k] \in timed
    BY <1>2
  <2> QED BY <1>1, <2>1
<1>6. DOMAIN times = 1..n /\ \A k \in 1..n : times[k] = l[s[k]].at /\ times[k] \in Nat
  BY <1>2, <1>4, <1>5
<1>7. times \in Seq(Nat) /\ Len(times) = n
  <2>1. n \in Nat
    BY <1>2
  <2>2. times \in [1..n -> Nat]
    BY <1>4, <1>6
  <2> QED BY <2>1, <2>2
<1>8. \A k, m \in 1..n : k < m => times[k] <= times[m] /\ s[k] # s[m]
  <2> SUFFICES ASSUME NEW k \in 1..n, NEW m \in 1..n, k < m
               PROVE  times[k] <= times[m] /\ s[k] # s[m]
    OBVIOUS
  <2>1. Before(l, s[k], s[m])
    BY <1>2
  <2>2. s[k] \in Nat /\ s[m] \in Nat /\ times[k] \in Nat /\ times[m] \in Nat
    BY <1>5, <1>6
  <2>3. times[k] = l[s[k]].at /\ times[m] = l[s[m]].at
    BY <1>6
  <2> QED BY <2>1, <2>2, <2>3 DEF Before
<1>9. \A k, m \in 1..n : s[k] = s[m] => k = m
  BY <1>2, <1>8
<1>10. \A i \in lns : l[i].at # NoTime => \E k \in 1..n : s[k] = i
  BY <1>3 DEF Lists, n
<1> QED BY <1>2, <1>5, <1>6, <1>7, <1>8, <1>9, <1>10 DEF Ascending, s, times

LEMMA CrowdedIs ==
    ASSUME NEW l \in Seq(Lines), NEW lns, lns \subseteq DOMAIN l,
           NEW window \in Nat, NEW many \in Nat \ {0}
    PROVE  Crowded(l, lns, window, many) <=> Close(Stamps(l, lns), window, many)
<1> DEFINE s == Sorted(l, lns)
           a == Stamps(l, lns)
           n == Len(a)
           About(t) == Near(l, lns, t, window)
<1>1. /\ a \in Seq(Nat) /\ Ascending(a) /\ n \in Nat
      /\ \A k \in 1..n : s[k] \in lns /\ a[k] = l[s[k]].at
      /\ \A k, m \in 1..n : s[k] = s[m] => k = m
      /\ \A i \in lns : l[i].at # NoTime => \E k \in 1..n : s[k] = i
  BY StampsAre
<1>2. \A k \in 1..n : a[k] \in Nat
  BY <1>1
<1>3. NoTime \notin Nat
  BY DetectionAssumption DEF DetectionAssumption
<1>4. \A t : IsFiniteSet(About(t)) /\ Cardinality(About(t)) \in Nat
  BY LinesOfLog, FS_Subset, FS_CardinalityType DEF Near
<1>0. n \in Nat
  BY <1>1
<1> HIDE DEF s, a, n
<1>5. ASSUME NEW t \in {l[i].at : i \in lns} \ {NoTime}, Cardinality(About(t)) >= many
      PROVE  Close(a, window, many)
  <2> DEFINE K == {k \in 1..n : a[k] - t \in 0..window}
             lo == SetMin(K)
             hi == SetMax(K)
             g == [k \in K |-> s[k]]
             I == {g[k] : k \in K}
  <2>1. t \in Nat
    BY LinesOfLog
  <2>2. IsFiniteSet(1..n)
    BY <1>0, FS_Interval
  <2>3. IsFiniteSet(K) /\ Cardinality(K) \in Nat
    BY <2>2, FS_Subset, FS_CardinalityType
  <2>4. About(t) \subseteq I
    <3> SUFFICES ASSUME NEW i \in About(t) PROVE \E k \in K : s[k] = i
      OBVIOUS
    <3>1. i \in lns /\ l[i].at # NoTime /\ l[i].at - t \in 0..window
      BY DEF Near
    <3>2. PICK k \in 1..n : s[k] = i
      BY <1>1, <3>1
    <3>3. a[k] - t \in 0..window
      BY <1>1, <3>1, <3>2
    <3> QED BY <3>2, <3>3
  <2>5. IsFiniteSet(I) /\ Cardinality(I) <= Cardinality(K) /\ Cardinality(I) \in Nat
    <3>1. DOMAIN g = K
      OBVIOUS
    <3> HIDE DEF g, K
    <3> QED BY <2>3, <3>1, ImageIsFinite, FS_CardinalityType
  <2>6. Cardinality(K) >= many
    <3>1. Cardinality(About(t)) <= Cardinality(I)
      <4> HIDE DEF I, About
      <4> QED BY <2>4, <2>5, FS_Subset
    <3> HIDE DEF I, About, K
    <3> QED BY <1>4, <1>5, <2>3, <2>5, <3>1
  <2>7. K # {}
    <3>1. Cardinality(K) # 0
      <4> HIDE DEF K
      <4> QED BY <2>3, <2>6
    <3>2. Cardinality({}) = 0
      BY FS_EmptySet
    <3> HIDE DEF K
    <3> QED BY <3>1, <3>2
  <2>8. lo \in K /\ hi \in K /\ \A k \in K : k \in lo..hi
    <3>1. K \in SUBSET Nat /\ n \in Nat /\ \A k \in K : k <= n
      BY <1>1
    <3> HIDE DEF K, n
    <3>2. lo \in K /\ \A k \in K : lo <= k
      BY <2>7, <3>1, LeastIs
    <3>3. hi \in K /\ \A k \in K : k <= hi
      BY <2>7, <3>1, GreatestIs
    <3> HIDE DEF lo, hi
    <3> QED BY <3>1, <3>2, <3>3
  <2> HIDE DEF lo, hi
  <2>9. lo \in 1..n /\ hi \in 1..n /\ a[hi] - t \in 0..window /\ a[lo] - t \in 0..window /\ lo \in lo..hi
    BY <2>8
  <2>10. a[hi] - a[lo] <= window /\ lo <= hi
    <3>1. a[hi] \in Nat /\ a[lo] \in Nat
      BY <1>2, <2>9
    <3>2. lo \in Nat /\ hi \in Nat
      BY <1>0, <2>9
    <3>3. a[hi] <= t + window /\ t <= a[lo]
      <4>1. \A x \in Nat : x - t \in 0..window => x <= t + window /\ t <= x
        BY <2>1
      <4> QED BY <2>9, <3>1, <4>1
    <3> QED BY <2>1, <2>9, <3>1, <3>2, <3>3
  <2>11. hi - lo + 1 >= many
    <3>1. K \subseteq lo..hi
      BY <2>8
    <3>2. lo \in Nat /\ hi \in Nat /\ lo <= hi
      BY <1>1, <2>9, <2>10
    <3>3. IsFiniteSet(lo..hi) /\ Cardinality(lo..hi) = hi - lo + 1
      BY <3>2, SpanIs
    <3> HIDE DEF K
    <3>4. Cardinality(K) <= hi - lo + 1
      BY <3>1, <3>3, FS_Subset
    <3> QED BY <2>3, <2>6, <3>2, <3>4
  <2> QED BY <2>9, <2>10, <2>11 DEF Close, n
<1>6. ASSUME Close(a, window, many)
      PROVE  Crowded(l, lns, window, many)
  <2>1. PICK k \in 1..n, m \in 1..n : k <= m /\ a[m] - a[k] <= window /\ m - k + 1 >= many
    BY <1>6 DEF Close, n
  <2> DEFINE t == a[k]
             g == [p \in k..m |-> s[p]]
  <2>2. t \in Nat /\ t \in {l[i].at : i \in lns} \ {NoTime}
    <3>1. t \in Nat /\ s[k] \in lns /\ t = l[s[k]].at
      BY <1>1, <1>2
    <3> HIDE DEF t
    <3> QED BY <1>3, <3>1
  <2>3. IsFiniteSet(k..m) /\ Cardinality(k..m) = m - k + 1
    BY <1>1, <2>1, FS_Interval
  <2>4. ASSUME NEW p \in k..m PROVE p \in 1..n /\ s[p] \in About(t)
    <3>1. p \in 1..n /\ k <= p /\ p <= m
      BY <1>1
    <3>2. a[k] <= a[p] /\ a[p] <= a[m]
      <4>1. k = p \/ k < p
        BY <1>1, <3>1
      <4>2. p = m \/ p < m
        BY <1>1, <3>1
      <4>3. a[k] \in Nat /\ a[p] \in Nat /\ a[m] \in Nat
        BY <1>2, <3>1
      <4>4. a[k] <= a[p]
        BY <1>1, <3>1, <4>1, <4>3 DEF Ascending, n
      <4>5. a[p] <= a[m]
        BY <1>1, <3>1, <4>2, <4>3 DEF Ascending, n
      <4> QED BY <4>4, <4>5
    <3>3. a[p] - t \in 0..window /\ a[p] # NoTime
      BY <1>2, <1>3, <2>1, <3>1, <3>2
    <3> QED BY <1>1, <3>1, <3>3 DEF Near
  <2>5. g \in Injection(k..m, About(t))
    <3> HIDE DEF About, t
    <3> QED BY <1>1, <2>4 DEF Injection, IsInjective
  <2>6. m - k + 1 <= Cardinality(About(t))
    <3> HIDE DEF About, t, g
    <3> QED BY <1>4, <2>3, <2>5, FS_Injection
  <2>7. Cardinality(About(t)) >= many
    <3> HIDE DEF About, t
    <3> QED BY <1>1, <1>4, <2>1, <2>6
  <2> QED BY <2>2, <2>7 DEF Crowded
<1>7. Crowded(l, lns, window, many) => Close(a, window, many)
  BY <1>5 DEF Crowded
<1> QED BY <1>6, <1>7 DEF a

(* The peak of the two pointers is as high as the stamps are close.          *)
LEMMA PeakFound ==
    ASSUME NEW times \in Seq(Nat), Ascending(times), NEW many \in Nat \ {0}
    PROVE  Peak(times) \in Nat /\ (Peak(times) >= many <=> Close(times, FailureWindow, many))
<1> DEFINE n == Len(times)
           Fits(k, m) == k <= m /\ times[m] - times[k] <= FailureWindow /\ m - k + 1 >= many
<1>1. PICK f : /\ Peak(times) = f[n].peak
               /\ f[0] = SlideStart
               /\ \A j \in 1..n : f[j] = SlideStep(times, f[j - 1], j)
               /\ \A j \in 1..n : f[j - 1].first \in 1..j /\ f[j].first \in 1..j
               /\ \A j \in 0..n : f[j].peak \in Nat
  BY PeakIs
<1>0. FailureWindow \in Nat
  BY DetectionAssumption DEF DetectionAssumption
<1>2. n \in Nat /\ FailureWindow \in Nat /\ \A k \in 1..n : times[k] \in Nat
  BY <1>0
<1> DEFINE Past(j) == \A k \in 1..j : k < f[j].first => times[j] - times[k] > FailureWindow
           Found(j) == f[j].peak >= many <=> \E k, m \in 1..j : Fits(k, m)
           S == {j \in 0..n : Past(j) /\ Found(j)}
<1>3. 0 \in S
  BY <1>1, <1>2 DEF SlideStart
<1>4. ASSUME NEW j \in 1..n, j - 1 \in S PROVE j \in S
  <2> DEFINE from == f[j - 1].first
             first == First(times, from, j)
             size == j - first + 1
  <2>1. /\ f[j].first = first
        /\ f[j].peak = IF size > f[j - 1].peak THEN size ELSE f[j - 1].peak
    <3>1. f[j] = SlideStep(times, f[j - 1], j)
      BY <1>1
    <3> QED BY <3>1 DEF SlideStep
  <2>2. from \in 1..j /\ j - 1 \in 0..n /\ j \in 0..n /\ f[j - 1].peak \in Nat
    BY <1>1, <1>2
  <2>3. /\ first \in from..j /\ times[j] - times[first] <= FailureWindow
        /\ \A k \in from..(first - 1) : times[j] - times[k] > FailureWindow
    <3> HIDE DEF from
    <3> QED BY <2>2, FirstIs
  <2>4. Past(j - 1) /\ Found(j - 1)
    BY <1>4
  <2> HIDE DEF from, first
  <2>5. first \in 1..j /\ size \in Nat
    <3>1. first \in from..j
      BY <2>3
    <3> QED BY <2>2, <3>1
  <2>6. Past(j)
    <3> SUFFICES ASSUME NEW k \in 1..j, k < first PROVE times[j] - times[k] > FailureWindow
      BY <2>1
    <3>1. CASE k >= from
      <4>1. k \in from..(first - 1)
        BY <1>2, <2>2, <2>5, <3>1
      <4> QED BY <2>3, <4>1
    <3>2. CASE k < from
      <4>1. k \in 1..j - 1 /\ j - 1 \in 1..n /\ j - 1 < j
        BY <1>2, <2>2, <3>2
      <4>2. times[j - 1] - times[k] > FailureWindow
        <5>1. k < f[j - 1].first
          BY <3>2 DEF from
        <5> QED BY <2>4, <4>1, <5>1
      <4>3. times[j - 1] <= times[j]
        BY <4>1 DEF Ascending
      <4>4. times[j - 1] \in Nat /\ times[j] \in Nat /\ times[k] \in Nat
        BY <1>2, <4>1
      <4> QED BY <1>2, <4>2, <4>3, <4>4
    <3> QED BY <2>2, <3>1, <3>2
  <2>7. (\E k \in 1..j : Fits(k, j)) <=> size >= many
    <3>1. ASSUME size >= many PROVE Fits(first, j)
      BY <1>2, <2>3, <2>5, <3>1
    <3>2. ASSUME NEW k \in 1..j, Fits(k, j) PROVE size >= many
      <4>1. ~(k < first)
        <5>1. ~(times[j] - times[k] > FailureWindow)
          <6>1. times[j] \in Nat /\ times[k] \in Nat
            BY <1>2
          <6> QED BY <1>2, <3>2, <6>1
        <5> QED BY <2>1, <2>6, <5>1
      <4> QED BY <1>2, <2>5, <3>2, <4>1
    <3> QED BY <2>5, <3>1, <3>2
  <2> HIDE DEF Fits
  <2>8. (\E k, m \in 1..j : Fits(k, m)) <=> (\E k, m \in 1..j - 1 : Fits(k, m)) \/ (\E k \in 1..j : Fits(k, j))
    <3>1. ASSUME NEW k \in 1..j, NEW m \in 1..j, Fits(k, m)
          PROVE  (\E p, q \in 1..j - 1 : Fits(p, q)) \/ (\E p \in 1..j : Fits(p, j))
      <4>1. CASE m = j
        BY <3>1, <4>1
      <4>2. CASE m < j
        <5>1. k <= m
          BY <3>1 DEF Fits
        <5>2. k \in 1..j - 1 /\ m \in 1..j - 1
          BY <1>2, <4>2, <5>1
        <5> QED BY <3>1, <5>2
      <4> QED BY <1>2, <4>1, <4>2
    <3>2. \A k \in 1..j - 1 : k \in 1..j
      BY <1>2
    <3>3. j \in 1..j
      BY <1>2
    <3> QED BY <3>1, <3>2, <3>3
  <2>9. f[j].peak >= many <=> f[j - 1].peak >= many \/ size >= many
    <3> HIDE DEF size
    <3> QED BY <2>1, <2>2, <2>5
  <2>10. Found(j)
    BY <2>4, <2>7, <2>8, <2>9
  <2> QED BY <2>2, <2>6, <2>10
<1>5. n \in S
  <2> HIDE DEF S, n
  <2>1. \A j \in 0..n : j \in S
    BY <1>2, <1>3, <1>4, Upwards
  <2> QED BY <1>2, <2>1
<1>6. Found(n) /\ f[n].peak \in Nat
  BY <1>1, <1>2, <1>5
<1>7. (\E k, m \in 1..n : Fits(k, m)) <=> Close(times, FailureWindow, many)
  BY DEF Close
<1> HIDE DEF Fits, n
<1> QED BY <1>1, <1>6, <1>7

(* The errors in order of time, and the bursts they open.                    *)
LEMMA SeqWider ==
    ASSUME NEW S, NEW T, S \subseteq T, NEW s \in Seq(S)
    PROVE  s \in Seq(T)
  OBVIOUS

LEMMA BurstsAre ==
    ASSUME log \in Seq(Lines)
    PROVE  LET errs == Sorted(log, Errors(log))
           IN  /\ errs \in Seq(Nat)
               /\ \A k \in 1..Len(errs) : /\ errs[k] \in DOMAIN log /\ errs[k] \in Nat \ {0}
                                          /\ log[errs[k]].at \in Nat
               /\ \A k, m \in 1..Len(errs) : k < m => Before(log, errs[k], errs[m])
               /\ \A i \in Bursts : \E k \in 1..Len(errs) : errs[k] = i
               /\ \A k \in 1..Len(errs) : /\ Spike(log, errs, k).on = Burst(errs[k])
                                          /\ Enough(log, errs, k) <=> errs[k] \in Bursts
<1> DEFINE errs == Sorted(log, Errors(log))
           timed == {i \in Errors(log) : log[i].at # NoTime}
           n == Cardinality(timed)
<1>1. /\ IsFiniteSet(Errors(log)) /\ Errors(log) \subseteq Nat \ {0} /\ Errors(log) \subseteq DOMAIN log
      /\ \A i \in Errors(log) : log[i].at \in Nat \cup {NoTime}
  <2>1. Errors(log) \subseteq DOMAIN log
    BY KeptIs DEF Errors
  <2> QED BY <2>1, LinesOfLog, FS_Subset
<1>2. Errors(log) \subseteq Nat
  BY <1>1
<1>3. n \in Nat /\ errs \in Seq(timed) /\ Len(errs) = n
  BY <1>1, <1>2, SortedIs
<1>4. \A k, m \in 1..n : k < m => Before(log, errs[k], errs[m])
  BY <1>1, <1>2, SortedIs
<1>5. \A j \in timed : \E k \in 1..n : errs[k] = j
  <2>1. Lists(errs, timed)
    BY <1>1, <1>2, SortedIs
  <2> HIDE DEF errs, timed
  <2> QED BY <2>1, Zenon DEF Lists
<1>6. \A i \in timed : /\ i \in Errors(log) /\ i \in DOMAIN log /\ i \in Nat \ {0}
                       /\ log[i].at \in Nat /\ log[i].at # NoTime
  BY <1>1
<1> HIDE DEF errs, n
<1>7. errs \in Seq(Nat) /\ \A k \in 1..n : errs[k] \in timed
  <2>1. timed \subseteq Nat
    BY <1>6
  <2> HIDE DEF timed
  <2>2. errs \in Seq(Nat)
    BY <1>3, <2>1, SeqWider
  <2>3. \A k \in 1..n : errs[k] \in timed
    BY <1>3
  <2> QED BY <2>2, <2>3
<1>8. ErrorWindow \in Nat /\ MinErrors \in Nat
  BY DetectionAssumption DEF DetectionAssumption
<1>9. ASSUME NEW k \in 1..n
      PROVE  /\ Spike(log, errs, k).on = Burst(errs[k])
             /\ Enough(log, errs, k) <=> errs[k] \in Bursts
  <2> DEFINE W == ErrorsFrom(log, errs, k)
             T == Burst(errs[k])
             h == [m \in W |-> errs[m]]
  <2>1. W = {m \in k..n : log[errs[m]].at - log[errs[k]].at <= ErrorWindow}
    BY <1>3 DEF ErrorsFrom
  <2>2. T = {j \in timed : ~Before(log, j, errs[k]) /\ log[j].at - log[errs[k]].at <= ErrorWindow}
    BY DEF Burst
  <2>3. IsFiniteSet(W) /\ \A m \in W : m \in 1..n
    <3>1. IsFiniteSet(k..n) /\ \A m \in k..n : m \in 1..n
      BY <1>3, FS_Interval
    <3>2. W \subseteq k..n
      BY <2>1
    <3> QED BY <3>1, <3>2, FS_Subset
  <2>4. ASSUME NEW m \in 1..n PROVE m < k <=> Before(log, errs[m], errs[k])
    <3>1. errs[k] \in timed /\ errs[m] \in timed
      BY <1>7
    <3>2. errs[k] \in Nat /\ errs[m] \in Nat /\ log[errs[k]].at \in Nat /\ log[errs[m]].at \in Nat
      BY <1>6, <3>1
    <3>3. (m < k => Before(log, errs[m], errs[k])) /\ (k < m => Before(log, errs[k], errs[m]))
      BY <1>4
    <3>4. m < k \/ k < m \/ k = m
      BY <1>3
    <3>5. Before(log, errs[k], errs[m]) \/ k = m => ~Before(log, errs[m], errs[k])
      BY <3>2 DEF Before
    <3> QED BY <1>3, <3>3, <3>4, <3>5
  <2> HIDE DEF W, T, timed
  <2>5. \A m \in W : errs[m] \in T
    <3> SUFFICES ASSUME NEW m \in W PROVE errs[m] \in T
      OBVIOUS
    <3>1. m \in 1..n /\ ~(m < k) /\ log[errs[m]].at - log[errs[k]].at <= ErrorWindow
      BY <1>3, <2>1, <2>3
    <3> QED BY <1>7, <2>2, <2>4, <3>1
  <2>6. \A j \in T : \E m \in W : errs[m] = j
    <3> SUFFICES ASSUME NEW j \in T PROVE \E m \in W : errs[m] = j
      OBVIOUS
    <3>1. j \in timed /\ ~Before(log, j, errs[k]) /\ log[j].at - log[errs[k]].at <= ErrorWindow
      BY <2>2
    <3>2. PICK m \in 1..n : errs[m] = j
      BY <1>5, <3>1
    <3>3. ~(m < k)
      BY <2>4, <3>1, <3>2
    <3>4. m \in k..n
      BY <1>3, <3>2, <3>3
    <3> QED BY <2>1, <3>1, <3>2, <3>4
  <2>7. \A x, y \in W : h[x] = h[y] => x = y
    <3> SUFFICES ASSUME NEW x \in W, NEW y \in W, errs[x] = errs[y] PROVE x = y
      OBVIOUS
    <3>1. x \in 1..n /\ y \in 1..n
      BY <2>3
    <3>2. errs[x] \in Nat /\ errs[y] \in Nat
      BY <1>6, <1>7, <3>1
    <3>3. log[errs[x]].at \in Nat
      BY <1>6, <1>7, <3>1
    <3>4. ~Before(log, errs[x], errs[y]) /\ ~Before(log, errs[y], errs[x])
      BY <3>2, <3>3 DEF Before
    <3> QED BY <1>3, <1>4, <3>1, <3>4
  <2>8. Cardinality(T) = Cardinality(W)
    <3>1. h \in [W -> T] /\ \A z \in T : \E x \in W : h[x] = z
      BY <2>5, <2>6
    <3> HIDE DEF h
    <3> QED BY <2>3, <2>7, <3>1, SameSize
  <2>9. Cardinality(W) \in Nat
    BY <2>3, FS_CardinalityType
  <2>10. Spike(log, errs, k).on = {errs[m] : m \in W}
    BY DEF Spike, Finding, W
  <2>11. Enough(log, errs, k) <=> Cardinality(T) >= MinErrors
    BY <1>8, <2>8, <2>9 DEF Enough, W
  <2>12. errs[k] \in Errors(log) /\ log[errs[k]].at # NoTime
    BY <1>6, <1>7
  <2>13. Enough(log, errs, k) <=> errs[k] \in Bursts
    BY <2>11, <2>12 DEF Bursts, T
  <2>14. Spike(log, errs, k).on = T
    BY <2>5, <2>6, <2>10
  <2> QED BY <2>13, <2>14 DEF T
<1>10. \A i \in Bursts : \E k \in 1..n : errs[k] = i
  BY <1>5 DEF Bursts
<1> HIDE DEF timed
<1> QED BY <1>3, <1>4, <1>6, <1>7, <1>9, <1>10 DEF errs

LEMMA BurstReported ==
    ASSUME log \in Seq(Lines)
    PROVE  BurstIsReported
<1> DEFINE errs == Sorted(log, Errors(log))
           n == Len(errs)
           W(k) == ErrorsFrom(log, errs, k)
<1>1. /\ errs \in Seq(Nat) /\ n \in Nat
      /\ \A k \in 1..n : errs[k] \in DOMAIN log /\ errs[k] \in Nat \ {0} /\ log[errs[k]].at \in Nat
      /\ \A k, m \in 1..n : k < m => Before(log, errs[k], errs[m])
      /\ \A i \in Bursts : \E k \in 1..n : errs[k] = i
      /\ \A k \in 1..n : /\ Spike(log, errs, k).on = Burst(errs[k])
                         /\ Enough(log, errs, k) <=> errs[k] \in Bursts
  BY BurstsAre
<1>2. Spikes(log) = SpikesAmong(log, errs)
  BY DEF Spikes
<1> HIDE DEF errs
<1>3. /\ \A x \in Spikes(log) : \E k \in 1..n : Enough(log, errs, k) /\ x = Spike(log, errs, k)
      /\ \A k \in 1..n : Enough(log, errs, k) =>
           \/ Spike(log, errs, k) \in Spikes(log)
           \/ \E p \in 1..n : /\ p < k /\ Spike(log, errs, p) \in Spikes(log)
                             /\ Enough(log, errs, p) /\ errs[k] <= SpikeEnd(log, errs, p)
  BY <1>1, <1>2, SpikesSwept
<1>4. \A x \in Spikes(log) : \E i \in Bursts : x.on = Burst(i)
  <2> SUFFICES ASSUME NEW x \in Spikes(log) PROVE \E i \in Bursts : x.on = Burst(i)
    OBVIOUS
  <2>1. PICK k \in 1..n : Enough(log, errs, k) /\ x = Spike(log, errs, k)
    BY <1>3
  <2>2. errs[k] \in Bursts /\ x.on = Burst(errs[k])
    BY <1>1, <2>1
  <2> QED BY <2>2
<1>5. ASSUME NEW p \in 1..n, NEW k \in 1..n, p < k, Spike(log, errs, p) \in Spikes(log),
             errs[k] <= SpikeEnd(log, errs, p)
      PROVE  Passed(errs[k])
  <2> DEFINE hi == SetMax(W(p))
             x == Spike(log, errs, p)
  <2>1. W(p) \subseteq p..n /\ p \in W(p)
    <3>1. log[errs[p]].at \in Nat /\ ErrorWindow \in Nat
      BY <1>1, DetectionAssumption DEF DetectionAssumption
    <3>2. log[errs[p]].at - log[errs[p]].at <= ErrorWindow
      BY <3>1
    <3> QED BY <1>1, <3>2 DEF ErrorsFrom
  <2>2. hi \in W(p) /\ \A m \in W(p) : m <= hi
    <3>1. W(p) \in SUBSET Nat /\ (\A m \in W(p) : m <= n) /\ W(p) # {}
      BY <1>1, <2>1
    <3> HIDE DEF W
    <3> QED BY <1>1, <3>1, GreatestIs
  <2>3. x.on = {errs[m] : m \in W(p)}
    BY DEF Spike, Finding
  <2>4. SpikeEnd(log, errs, p) = errs[hi]
    BY DEF SpikeEnd
  <2> HIDE DEF W, hi, n
  <2>5. ASSUME NEW m \in W(p) PROVE ~Before(log, errs[hi], errs[m])
    <3>1. m \in 1..n /\ hi \in 1..n /\ m <= hi
      BY <1>1, <2>1, <2>2
    <3>2. /\ errs[m] \in Nat /\ errs[hi] \in Nat
          /\ log[errs[m]].at \in Nat /\ log[errs[hi]].at \in Nat
      BY <1>1, <3>1
    <3>3. m = hi \/ Before(log, errs[m], errs[hi])
      BY <1>1, <3>1
    <3> QED BY <3>2, <3>3 DEF Before
  <2>6. Before(log, errs[p], errs[k]) /\ errs[k] <= errs[hi]
    BY <1>1, <1>5, <2>4
  <2>7. errs[p] \in x.on /\ errs[hi] \in x.on /\ \A j \in x.on : ~Before(log, errs[hi], j)
    BY <2>1, <2>2, <2>3, <2>5
  <2> HIDE DEF x
  <2> QED BY <1>5, <2>6, <2>7 DEF Passed, x
<1>6. \A i \in Bursts : Passed(i) \/ \E x \in Spikes(log) : x.on = Burst(i)
  <2> SUFFICES ASSUME NEW i \in Bursts, ~Passed(i) PROVE \E x \in Spikes(log) : x.on = Burst(i)
    OBVIOUS
  <2>1. PICK k \in 1..n : errs[k] = i
    BY <1>1
  <2>2. Enough(log, errs, k) /\ Spike(log, errs, k).on = Burst(i)
    BY <1>1, <2>1
  <2>3. Spike(log, errs, k) \in Spikes(log)
    BY <1>3, <1>5, <2>1, <2>2
  <2> QED BY <2>2, <2>3
<1>7. ASSUME InOrderOfTime
      PROVE  \A x, y \in Spikes(log) : x = y \/ x.on \cap y.on = {}
  <2>1. ASSUME NEW k \in 1..n, NEW m \in 1..n, k < m PROVE errs[k] < errs[m]
    <3>1. Before(log, errs[k], errs[m])
      BY <1>1, <2>1
    <3>2. /\ errs[k] \in DOMAIN log /\ errs[m] \in DOMAIN log /\ errs[k] \in Nat /\ errs[m] \in Nat
          /\ log[errs[k]].at \in Nat /\ log[errs[m]].at \in Nat
      BY <1>1
    <3>3. log[errs[k]].at # NoTime /\ log[errs[m]].at # NoTime
      BY <3>2, DetectionAssumption DEF DetectionAssumption
    <3>4. errs[m] < errs[k] => log[errs[m]].at <= log[errs[k]].at
      BY <1>7, <3>2, <3>3 DEF InOrderOfTime
    <3>5. ASSUME ~(errs[k] < errs[m]) PROVE FALSE
      <4>1. log[errs[k]].at < log[errs[m]].at
        BY <3>1, <3>5 DEF Before
      <4>2. errs[k] # errs[m]
        BY <3>2, <4>1
      <4> QED BY <3>2, <3>4, <3>5, <4>1, <4>2
    <3> QED BY <3>5
  <2>2. \A k \in 1..n : log[errs[k]].at \in Nat
    BY <1>1
  <2> QED BY <1>1, <1>2, <2>1, <2>2, SpikesApart
<1> QED BY <1>4, <1>6, <1>7, Zenon DEF BurstIsReported

(* Of the log alone and of the log a console analyzes, detect_error_bursts   *)
(* reports bursts of errors and nothing else, each once in a log in order of *)
(* time; and a burst it does not report begins above the end, in the file,   *)
(* of one that begins before it.                                             *)
THEOREM BurstsAreReported ==
    (LogSpec => []BurstIsReported) /\ (AdviceSpec => []BurstIsReported)
<1>1. log \in Seq(Lines) => BurstIsReported
  BY BurstReported
<1> QED BY <1>1, LogsAreOfLines, PTL

LEMMA FirstSpoken ==
    ASSUME NEW r \in Lines
    PROVE  /\ AuthSource[r] \in {"none", "failed_password", "invalid_user", "pam_failure", "accepted_password",
                                 "windows_4625", "windows_4624", "csv_fail", "csv_ok"}
           /\ "failed_password" \in r.text => AuthSource[r] = "failed_password"
           /\ AuthSource[r] # "none" => Speaks(r, AuthSource[r])
           /\ AuthSource[r] = "none" => ~Speaks(r, "windows_4625") /\ ~Speaks(r, "csv_fail")
<1> DEFINE spoken == {k \in DOMAIN Vocabularies : Speaks(r, Vocabularies[k])}
           k == SetMin(spoken)
<1>1. AuthSource[r] = IF spoken = {} THEN "none" ELSE Vocabularies[k]
  BY Zenon DEF AuthSource
<1>2. DOMAIN Vocabularies = 1..8
  BY DEF Vocabularies
<1>3. /\ Vocabularies[1] = "failed_password" /\ Vocabularies[2] = "invalid_user"
      /\ Vocabularies[3] = "pam_failure" /\ Vocabularies[4] = "accepted_password"
      /\ Vocabularies[5] = "windows_4625" /\ Vocabularies[6] = "windows_4624"
      /\ Vocabularies[7] = "csv_fail" /\ Vocabularies[8] = "csv_ok"
  BY DEF Vocabularies
<1>4. CASE spoken = {}
  <2>1. AuthSource[r] = "none" /\ \A m \in 1..8 : ~Speaks(r, Vocabularies[m])
    BY <1>1, <1>2, <1>4
  <2>2. ~Speaks(r, "failed_password") /\ ~Speaks(r, "windows_4625") /\ ~Speaks(r, "csv_fail")
    BY <1>3, <2>1
  <2>3. "failed_password" \notin r.text
    BY <2>2 DEF Speaks
  <2> QED BY <2>1, <2>2, <2>3
<1>5. CASE spoken # {}
  <2>1. k \in spoken /\ \A m \in spoken : k <= m
    <3>1. spoken \in SUBSET Nat
      BY <1>2
    <3> HIDE DEF spoken
    <3> QED BY <1>5, <3>1, LeastIs
  <2>2. AuthSource[r] = Vocabularies[k]
    BY <1>1, <1>5
  <2> HIDE DEF k
  <2>3. k \in 1..8 /\ Speaks(r, Vocabularies[k])
    BY <1>2, <2>1
  <2>4. AuthSource[r] \in {"failed_password", "invalid_user", "pam_failure", "accepted_password",
                           "windows_4625", "windows_4624", "csv_fail", "csv_ok"}
    BY <1>3, <2>2, <2>3
  <2>5. ASSUME "failed_password" \in r.text PROVE AuthSource[r] = "failed_password"
    <3>1. Speaks(r, Vocabularies[1])
      BY <1>3, <2>5 DEF Speaks
    <3>2. 1 \in spoken
      BY <1>2, <3>1
    <3>3. k = 1
      BY <2>1, <2>3, <3>2
    <3> QED BY <1>3, <2>2, <3>3
  <2> QED BY <2>2, <2>3, <2>4, <2>5
<1> QED BY <1>4, <1>5

(* Every guess is a failure the rules count, and what they count is a try.   *)
LEMMA FailsBetween ==
    ASSUME log \in Seq(Lines), NEW ip \in IPv4
    PROVE  Guesses(ip) \subseteq Fails(log, ip) /\ Fails(log, ip) \subseteq Tries(ip)
<1>1. ip # Unknown
  BY DetectionAssumption DEF DetectionAssumption
<1>2. ASSUME NEW i \in Guesses(ip) PROVE i \in Fails(log, ip)
  <2> DEFINE r == log[i]
  <2>1. i \in DOMAIN log /\ r \in Lines /\ r.ip = ip
    BY LinesOfLog DEF Guesses
  <2>2. "failed_password" \in r.text \/ (Failed(r) /\ ~ReadsOtherwise(r))
    BY DEF Guesses
  <2> HIDE DEF r
  <2>3. AuthSource[r] \notin Companions /\ (AuthSource[r] \in Failures \/ (AuthSource[r] = "none" /\ "auth_failed" \in r.text))
    <3>1. CASE "failed_password" \in r.text
      BY <2>1, <3>1, FirstSpoken DEF Companions, Failures
    <3>2. CASE Failed(r) /\ ~ReadsOtherwise(r)
      <4>1. CASE AuthSource[r] = "none"
        <5>1. ~Speaks(r, "windows_4625") /\ ~Speaks(r, "csv_fail")
          BY <2>1, <4>1, FirstSpoken
        <5>2. r.eid # "logon_failed" /\ "csv_fail" \notin r.text
          BY <1>1, <2>1, <5>1 DEF Speaks
        <5> QED BY <3>2, <4>1, <5>2 DEF Failed, Companions
      <4>2. CASE AuthSource[r] # "none"
        <5>1. Speaks(r, AuthSource[r])
          BY <2>1, <4>2, FirstSpoken
        <5>2. AuthSource[r] \notin {"invalid_user", "pam_failure", "accepted_password", "windows_4624", "csv_ok"}
          <6>1. ~Speaks(r, "invalid_user") /\ ~Speaks(r, "pam_failure") /\ ~Speaks(r, "accepted_password")
            BY <3>2 DEF Speaks, ReadsOtherwise, Companions
          <6>2. ~Speaks(r, "windows_4624") /\ ~Speaks(r, "csv_ok")
            BY <3>2 DEF Speaks, ReadsOtherwise, Companions
          <6> QED BY <5>1, <6>1, <6>2
        <5> QED BY <2>1, <4>2, <5>2, FirstSpoken DEF Failures, Companions
      <4> QED BY <4>1, <4>2
    <3> QED BY <2>2, <3>1, <3>2
  <2>4. i \in Kept(log)
    BY <2>1, <2>3 DEF Kept, Lns, r
  <2>5. "auth_failed" \in Message[r]
    BY <2>1, <2>3 DEF Message, Successes, Failures
  <2> QED BY <2>1, <2>4, <2>5 DEF Fails, r
<1>3. ASSUME NEW i \in Fails(log, ip) PROVE i \in Tries(ip)
  <2> DEFINE r == log[i]
  <2>1. i \in DOMAIN log /\ r \in Lines /\ r.ip = ip /\ (AuthSource[r] \in Failures \/ "auth_failed" \in r.text)
    BY FailsAre, LinesOfLog
  <2> HIDE DEF r
  <2>2. r.text \cap (Companions \cup {"failed_password"}) # {} \/ Failed(r)
    <3>1. CASE AuthSource[r] \in Failures
      <4>1. Speaks(r, AuthSource[r])
        BY <2>1, <3>1, FirstSpoken DEF Failures
      <4> QED BY <3>1, <4>1 DEF Failures, Speaks, Companions, Failed
    <3>2. CASE "auth_failed" \in r.text
      BY <3>2 DEF Failed
    <3> QED BY <2>1, <3>1, <3>2
  <2> QED BY <2>1, <2>2 DEF Tries, r
<1> QED BY <1>2, <1>3

\* More lines are no less crowded.
LEMMA MoreCrowded ==
    ASSUME NEW l \in Seq(Lines), NEW few, NEW more, few \subseteq more, more \subseteq DOMAIN l,
           NEW window, NEW many \in Nat, Crowded(l, few, window, many)
    PROVE  Crowded(l, more, window, many)
<1>1. PICK t \in {l[i].at : i \in few} \ {NoTime} : Cardinality(Near(l, few, t, window)) >= many
  BY Zenon DEF Crowded
<1>2. t \in {l[i].at : i \in more} \ {NoTime}
  OBVIOUS
<1>3. Near(l, few, t, window) \subseteq Near(l, more, t, window)
  BY DEF Near
<1>4. IsFiniteSet(Near(l, more, t, window))
  BY LinesOfLog, FS_Subset DEF Near
<1>5. Cardinality(Near(l, few, t, window)) <= Cardinality(Near(l, more, t, window))
      /\ Cardinality(Near(l, few, t, window)) \in Nat /\ Cardinality(Near(l, more, t, window)) \in Nat
  BY <1>3, <1>4, FS_Subset, FS_CardinalityType
<1>6. Cardinality(Near(l, more, t, window)) >= many
  BY <1>1, <1>5
<1> QED BY <1>2, <1>6, Zenon DEF Crowded

LEMMA DenseIsCrowded ==
    ASSUME NEW lns
    PROVE  Dense(lns) <=> Crowded(log, lns, FailureWindow, MinFailures)
  BY Zenon DEF Dense, Crowded, Near

LEMMA AttacksAre ==
    ASSUME log \in Seq(Lines), NEW ip \in IPv4
    PROVE  LET times == Stamps(log, Fails(log, ip))
               quick == times = <<>> \/ Peak(times) >= MinFailures
           IN  /\ Attacks(ip) # {} <=> Cardinality(Fails(log, ip)) >= MinFailures
               /\ Cardinality(Attacks(ip)) <= 1
               /\ \A f \in Attacks(ip) :
                     f.severity = IF Compromises(log, ip) # {} THEN "critical"
                                  ELSE IF quick THEN "high" ELSE "medium"
<1> DEFINE Of(x) ==
             LET times == Stamps(log, Fails(log, x))
                 quick == times = <<>> \/ Peak(times) >= MinFailures
             IN  IF Compromises(log, x) # {}
                 THEN Finding("auth_bruteforce_success", "critical", x, Fails(log, x))
                 ELSE Finding("auth_bruteforce", IF quick THEN "high" ELSE "medium", x, Fails(log, x))
           S == {x \in IPv4 : Cardinality(Fails(log, x)) >= MinFailures}
<1>1. BruteForce(log) = {Of(x) : x \in S}
  BY Zenon DEF BruteForce
<1>2. \A x : Of(x).about = x
  BY DEF Finding
<1>3. Of(ip).severity = IF Compromises(log, ip) # {} THEN "critical"
                        ELSE IF \/ Stamps(log, Fails(log, ip)) = <<>>
                                \/ Peak(Stamps(log, Fails(log, ip))) >= MinFailures
                        THEN "high" ELSE "medium"
  BY DEF Finding
<1> HIDE DEF Of
<1>4. Attacks(ip) = IF ip \in S THEN {Of(ip)} ELSE {}
  BY <1>1, <1>2 DEF Attacks
<1>5. Cardinality(Attacks(ip)) <= 1
  <2>1. Cardinality({}) = 0 /\ Cardinality({Of(ip)}) = 1
    BY FS_EmptySet, FS_Singleton
  <2> HIDE DEF S
  <2> QED BY <1>4, <2>1
<1>6. Attacks(ip) # {} <=> Cardinality(Fails(log, ip)) >= MinFailures
  BY <1>4
<1>7. \A f \in Attacks(ip) : f = Of(ip)
  BY <1>4
<1> QED BY <1>3, <1>5, <1>6, <1>7

(* An address that tried to log in often enough, by lines that can be read   *)
(* in one way only, has one finding; none has one who did not try that often *)
(* by any reading; and its severity is high if the tries were close in time, *)
(* and then only, or if none of them has a stamp (detect_auth_bruteforce).   *)
THEOREM BruteForceIsReported ==
    (LogSpec => []AttackersReported) /\ (AdviceSpec => []AttackersReported)
<1>1. log \in Seq(Lines) => AttackersReported
  <2> SUFFICES ASSUME log \in Seq(Lines), NEW ip \in IPv4
               PROVE  /\ Cardinality(Attacks(ip)) <= 1
                      /\ Cardinality(Guesses(ip)) >= MinFailures => Attacks(ip) # {}
                      /\ Attacks(ip) # {} => Cardinality(Tries(ip)) >= MinFailures
                      /\ \A f \in Attacks(ip) :
                          /\ Dense(Guesses(ip)) => f.severity \in {"critical", "high"}
                          /\ f.severity = "high" => Dense(Tries(ip)) \/ Untimed(Guesses(ip))
    BY DEF AttackersReported
  <2> DEFINE F == Fails(log, ip)
             G == Guesses(ip)
             T == Tries(ip)
             times == Stamps(log, F)
  <2>1. G \subseteq F /\ F \subseteq T /\ T \subseteq DOMAIN log /\ F \subseteq DOMAIN log
    BY FailsBetween, FailsAre DEF Tries
  <2>2. MinFailures \in Nat \ {0} /\ FailureWindow \in Nat
    BY DetectionAssumption DEF DetectionAssumption
  <2>3. /\ Attacks(ip) # {} <=> Cardinality(F) >= MinFailures
        /\ Cardinality(Attacks(ip)) <= 1
        /\ \A f \in Attacks(ip) :
              f.severity = IF Compromises(log, ip) # {} THEN "critical"
                           ELSE IF times = <<>> \/ Peak(times) >= MinFailures THEN "high" ELSE "medium"
    BY AttacksAre
  <2>4. /\ times \in Seq(Nat) /\ Ascending(times)
        /\ \A i \in F : log[i].at # NoTime => \E k \in 1..Len(times) : Sorted(log, F)[k] = i
    BY <2>1, StampsAre
  <2> HIDE DEF F, G, T, times
  <2>5. /\ Cardinality(G) <= Cardinality(F) /\ Cardinality(F) <= Cardinality(T)
        /\ Cardinality(G) \in Nat /\ Cardinality(F) \in Nat /\ Cardinality(T) \in Nat
    <3>1. IsFiniteSet(T) /\ IsFiniteSet(F) /\ IsFiniteSet(G)
      BY <2>1, LinesOfLog, FS_Subset
    <3> QED BY <2>1, <3>1, FS_Subset, FS_CardinalityType
  <2>6. Peak(times) >= MinFailures <=> Dense(F)
    <3>1. Peak(times) >= MinFailures <=> Close(times, FailureWindow, MinFailures)
      BY <2>2, <2>4, PeakFound
    <3>2. Crowded(log, F, FailureWindow, MinFailures) <=> Close(times, FailureWindow, MinFailures)
      BY <2>1, <2>2, CrowdedIs DEF times
    <3> QED BY <3>1, <3>2, DenseIsCrowded
  <2>7. (Dense(G) => Dense(F)) /\ (Dense(F) => Dense(T))
    BY <2>1, <2>2, MoreCrowded, DenseIsCrowded
  <2>8. times = <<>> => Untimed(G)
    <3>1. ASSUME times = <<>>, NEW i \in G PROVE log[i].at = NoTime
      <4>1. i \in F /\ Len(times) = 0
        BY <2>1, <3>1
      <4> QED BY <2>4, <4>1
    <3> QED BY <3>1 DEF Untimed
  <2>9. \A f \in Attacks(ip) :
          /\ Dense(G) => f.severity \in {"critical", "high"}
          /\ f.severity = "high" => Dense(T) \/ Untimed(G)
    BY <2>3, <2>6, <2>7, <2>8
  <2>10. Cardinality(G) >= MinFailures => Attacks(ip) # {}
    BY <2>2, <2>3, <2>5
  <2>11. Attacks(ip) # {} => Cardinality(T) >= MinFailures
    BY <2>2, <2>3, <2>5
  <2> QED BY <2>3, <2>9, <2>10, <2>11 DEF G, T
<1> QED BY <1>1, LogsAreOfLines, PTL

-----------------------------------------------------------------------------
(* A sum of counts is the number of the tally marks, as many of each key as *)
(* it has counts: what is known of finite sets is then known of sums.       *)
Marks(f, x) == {x} \X (1..f[x])

Tally(f, S) == UNION {Marks(f, x) : x \in S}

Counts(f) == IsFiniteSet(DOMAIN f) /\ \A x \in DOMAIN f : f[x] \in Nat

LEMMA MarksAre ==
    ASSUME NEW f, NEW x, f[x] \in Nat
    PROVE  IsFiniteSet(Marks(f, x)) /\ Cardinality(Marks(f, x)) = f[x]
<1>1. IsFiniteSet({x}) /\ Cardinality({x}) = 1
  BY FS_Singleton
<1>2. IsFiniteSet(1..f[x]) /\ Cardinality(1..f[x]) = f[x]
  <2> DEFINE n == f[x]
  <2> HIDE DEF n
  <2>1. n \in Nat => IsFiniteSet(1..n) /\ Cardinality(1..n) = n
    BY FS_Interval
  <2> QED BY <2>1 DEF n
<1>3. /\ IsFiniteSet({x} \X (1..f[x]))
      /\ Cardinality({x} \X (1..f[x])) = Cardinality({x}) * Cardinality(1..f[x])
  BY <1>1, <1>2, FS_Product
<1>4. 1 * f[x] = f[x]
  OBVIOUS
<1> QED BY <1>1, <1>2, <1>3, <1>4 DEF Marks

LEMMA TallyIsFinite ==
    ASSUME NEW f, Counts(f), NEW S \in SUBSET DOMAIN f
    PROVE  IsFiniteSet(Tally(f, S)) /\ Cardinality(Tally(f, S)) \in Nat
<1> DEFINE g == [x \in S |-> Marks(f, x)]
<1>1. IsFiniteSet(S)
  BY FS_Subset DEF Counts
<1>2. DOMAIN g = S /\ \A x \in S : g[x] = Marks(f, x)
  OBVIOUS
<1>3. IsFiniteSet({g[x] : x \in S})
  <2> HIDE DEF g
  <2> QED BY <1>1, <1>2, ImageIsFinite
<1>4. {g[x] : x \in S} = {Marks(f, x) : x \in S}
  OBVIOUS
<1>5. IsFiniteSet(Tally(f, S))
  BY <1>3, <1>4, MarksAre, FS_UNION DEF Tally, Counts
<1> QED BY <1>5, FS_CardinalityType

LEMMA TallyGrows ==
    ASSUME NEW f, Counts(f), NEW S \in SUBSET DOMAIN f, NEW x \in S
    PROVE  Cardinality(Tally(f, S)) = f[x] + Cardinality(Tally(f, S \ {x}))
<1> DEFINE T == Tally(f, S \ {x})
<1>1. Tally(f, S) = Marks(f, x) \cup T /\ Marks(f, x) \cap T = {}
  BY DEF Tally, Marks
<1>2. IsFiniteSet(T) /\ Cardinality(T) \in Nat
  BY TallyIsFinite
<1>3. IsFiniteSet(Marks(f, x)) /\ Cardinality(Marks(f, x)) = f[x] /\ f[x] \in Nat
  BY MarksAre DEF Counts
<1>4. Cardinality({}) = 0
  BY FS_EmptySet
<1> HIDE DEF T
<1>5. Cardinality(Marks(f, x) \cup T) = f[x] + Cardinality(T) - Cardinality({})
  BY <1>1, <1>2, <1>3, FS_Union
<1> QED BY <1>1, <1>2, <1>3, <1>4, <1>5 DEF T

LEMMA SumIsTally ==
    ASSUME NEW f, Counts(f)
    PROVE  SumFunction(f) = Cardinality(Tally(f, DOMAIN f)) /\ SumFunction(f) \in Nat
<1> DEFINE D == DOMAIN f
           Pick(s) == CHOOSE y \in s : TRUE
           Adds(r) == r = [s \in SUBSET D |-> IF s = {} THEN 0 ELSE f[Pick(s)] + r[s \ {Pick(s)}]]
           iter == CHOOSE r : Adds(r)
           c == [s \in SUBSET D |-> Cardinality(Tally(f, s))]
<1>1. SumFunction(f) = iter[D]
  BY DEF SumFunction, SumFunctionOnSet, FoldFunction, FoldFunctionOnSet, MapThenFoldSet
<1>2. \A s \in SUBSET D : s # {} => Pick(s) \in s /\ s \ {Pick(s)} \in SUBSET D
  OBVIOUS
<1>3. Cardinality(Tally(f, {})) = 0
  BY FS_EmptySet DEF Tally
<1>4. Adds(c)
  <2>1. ASSUME NEW s \in SUBSET D
        PROVE  c[s] = IF s = {} THEN 0 ELSE f[Pick(s)] + c[s \ {Pick(s)}]
    <3>1. CASE s = {}
      BY <1>3, <3>1
    <3>2. CASE s # {}
      <4>1. Pick(s) \in s /\ s \ {Pick(s)} \in SUBSET D
        BY <1>2, <3>2
      <4> HIDE DEF Pick
      <4>2. Cardinality(Tally(f, s)) = f[Pick(s)] + Cardinality(Tally(f, s \ {Pick(s)}))
        BY <4>1, TallyGrows
      <4> QED BY <3>2, <4>1, <4>2
    <3> QED BY <3>1, <3>2
  <2> HIDE DEF Pick, D
  <2> QED BY <2>1
<1>5. Adds(iter)
  BY <1>4
<1> HIDE DEF iter
<1>6. \A s \in SUBSET D : iter[s] = IF s = {} THEN 0 ELSE f[Pick(s)] + iter[s \ {Pick(s)}]
  <2> HIDE DEF Pick, D
  <2> QED BY <1>5
<1> HIDE DEF Pick
<1>7. IsFiniteSet(D) /\ Cardinality(D) \in Nat
  BY FS_CardinalityType DEF Counts
<1> DEFINE n == Cardinality(D)
           K == {k \in 0..n : \A s \in SUBSET D : Cardinality(s) = k => iter[s] = c[s]}
<1>8. 0 \in K
  <2>0. 0 \in 0..n
    BY <1>7
  <2> SUFFICES ASSUME NEW s \in SUBSET D, Cardinality(s) = 0 PROVE iter[s] = c[s]
    BY <2>0
  <2>1. s = {}
    BY <1>7, FS_Subset, FS_EmptySet
  <2> QED BY <1>3, <1>6, <2>1
<1>9. ASSUME NEW k \in 1..n, k - 1 \in K PROVE k \in K
  <2>0. k \in 0..n
    OBVIOUS
  <2> SUFFICES ASSUME NEW s \in SUBSET D, Cardinality(s) = k PROVE iter[s] = c[s]
    BY <2>0
  <2>1. IsFiniteSet(s) /\ s # {}
    BY <1>7, FS_Subset, FS_EmptySet
  <2> DEFINE x == Pick(s)
  <2>2. x \in s /\ s \ {x} \in SUBSET D
    BY <1>2, <2>1
  <2>3. Cardinality(s \ {x}) = k - 1
    BY <2>1, <2>2, FS_RemoveElement
  <2>4. iter[s \ {x}] = c[s \ {x}]
    BY <1>9, <2>2, <2>3
  <2>5. iter[s] = f[x] + c[s \ {x}]
    BY <1>6, <2>1, <2>4
  <2> HIDE DEF x
  <2> QED BY <2>2, <2>5, TallyGrows
<1>10. n \in K
  <2> HIDE DEF K
  <2> QED BY <1>7, <1>8, <1>9, Upwards
<1>11. iter[D] = c[D]
  BY <1>10
<1> QED BY <1>1, <1>11, TallyIsFinite

LEMMA Halves ==
    ASSUME NEW A, NEW B, IsFiniteSet(A), IsFiniteSet(B), A \cap B = {}
    PROVE  /\ IsFiniteSet(A \cup B) /\ Cardinality(A) \in Nat /\ Cardinality(B) \in Nat
           /\ Cardinality(A \cup B) = Cardinality(A) + Cardinality(B)
<1>1. Cardinality(A) \in Nat /\ Cardinality(B) \in Nat /\ Cardinality({}) = 0
  BY FS_CardinalityType, FS_EmptySet
<1>2. /\ IsFiniteSet(A \cup B)
      /\ Cardinality(A \cup B) = Cardinality(A) + Cardinality(B) - Cardinality(A \cap B)
  BY FS_Union, Zenon
<1>3. Cardinality(A \cap B) = 0
  BY FS_EmptySet, Zenon
<1>4. \A m, n \in Nat : m + n - 0 = m + n
  OBVIOUS
<1> QED BY <1>1, <1>2, <1>3, <1>4, Zenon

(* Sizes of sets are added up by putting the sets together.                  *)
Together(P) == UNION {{x} \X P[x] : x \in DOMAIN P}

LEMMA SumOfSizes ==
    ASSUME NEW P, IsFiniteSet(DOMAIN P), \A x \in DOMAIN P : IsFiniteSet(P[x])
    PROVE  LET f == [x \in DOMAIN P |-> Cardinality(P[x])]
           IN  /\ IsFiniteSet(Together(P)) /\ Cardinality(Together(P)) \in Nat
               /\ Counts(f) /\ SumFunction(f) = Cardinality(Together(P))
<1> DEFINE D == DOMAIN P
           f == [x \in D |-> Cardinality(P[x])]
           Numbers(x, g) == g \in Bijection(1..f[x], P[x])
           b == [x \in D |-> CHOOSE g : Numbers(x, g)]
           T == Tally(f, D)
           h == [m \in T |-> <<m[1], b[m[1]][m[2]]>>]
<1>1. ASSUME NEW x \in D PROVE f[x] \in Nat /\ Numbers(x, b[x])
  <2>1. Cardinality(P[x]) \in Nat /\ ExistsBijection(1..Cardinality(P[x]), P[x])
    BY FS_CardinalityType
  <2>2. \E g : Numbers(x, g)
    BY <2>1 DEF ExistsBijection
  <2> HIDE DEF Numbers
  <2> QED BY <2>1, <2>2
<1>2. Counts(f) /\ DOMAIN f = D
  BY <1>1 DEF Counts
<1>3. IsFiniteSet(T) /\ SumFunction(f) = Cardinality(T)
  <2> HIDE DEF f
  <2> QED BY <1>2, SumIsTally, TallyIsFinite
<1>4. \A m \in T : m[1] \in D /\ m[2] \in 1..f[m[1]] /\ m = <<m[1], m[2]>>
  BY DEF Tally, Marks
<1>5. \A x \in D : \A j \in 1..f[x] : <<x, j>> \in T
  BY DEF Tally, Marks
<1> HIDE DEF T, b, f
<1>6. h = [m \in T |-> h[m]] /\ \A m \in T : h[m] = <<m[1], b[m[1]][m[2]]>>
  OBVIOUS
<1> HIDE DEF h
<1>7. \A x \in D : /\ \A j \in 1..f[x] : b[x][j] \in P[x]
                   /\ \A j, k \in 1..f[x] : b[x][j] = b[x][k] => j = k
                   /\ \A z \in P[x] : \E j \in 1..f[x] : b[x][j] = z
  BY <1>1 DEF Bijection, Injection, Surjection, IsInjective
<1> HIDE DEF Numbers
<1>8. h \in [T -> Together(P)]
  <2>1. \A m \in T : h[m] \in Together(P)
    BY <1>4, <1>6, <1>7 DEF Together
  <2> QED BY <1>6, <2>1
<1>9. \A m, n \in T : h[m] = h[n] => m = n
  <2> SUFFICES ASSUME NEW m \in T, NEW n \in T, h[m] = h[n] PROVE m = n
    OBVIOUS
  <2>1. m[1] = n[1] /\ b[m[1]][m[2]] = b[n[1]][n[2]]
    BY <1>6
  <2>2. m[2] = n[2]
    BY <1>4, <1>7, <2>1
  <2> QED BY <1>4, <2>1, <2>2
<1>10. \A z \in Together(P) : \E m \in T : h[m] = z
  <2> SUFFICES ASSUME NEW x \in D, NEW y \in P[x] PROVE \E m \in T : h[m] = <<x, y>>
    BY DEF Together
  <2>1. PICK j \in 1..f[x] : b[x][j] = y
    BY <1>7
  <2>2. <<x, j>> \in T /\ h[<<x, j>>] = <<x, y>>
    BY <1>5, <1>6, <2>1
  <2> QED BY <2>2
<1>11. IsFiniteSet(Together(P)) /\ Cardinality(Together(P)) = Cardinality(T)
  BY <1>3, <1>8, <1>9, <1>10, SameSize
<1>12. Cardinality(Together(P)) \in Nat
  BY <1>11, FS_CardinalityType
<1> QED BY <1>2, <1>3, <1>11, <1>12 DEF f

LEMMA SumOn ==
    ASSUME NEW f, Counts(f), NEW S \in SUBSET DOMAIN f
    PROVE  LET g == [x \in S |-> f[x]] IN Counts(g) /\ SumFunction(g) = Cardinality(Tally(f, S))
<1> DEFINE g == [x \in S |-> f[x]]
<1>1. Counts(g) /\ DOMAIN g = S
  BY FS_Subset DEF Counts
<1>2. Tally(g, S) = Tally(f, S)
  BY DEF Tally, Marks
<1> HIDE DEF g
<1>3. SumFunction(g) = Cardinality(Tally(f, S))
  BY <1>1, <1>2, SumIsTally
<1> QED BY <1>1, <1>3 DEF g

LEMMA SumSame ==
    ASSUME NEW f, Counts(f), NEW g, DOMAIN f = DOMAIN g, \A x \in DOMAIN f : f[x] = g[x]
    PROVE  Counts(g) /\ SumFunction(f) = SumFunction(g)
<1>1. Counts(g)
  BY DEF Counts
<1>2. Tally(f, DOMAIN f) = Tally(g, DOMAIN g)
  BY DEF Tally, Marks
<1> QED BY <1>1, <1>2, SumIsTally

LEMMA SumIsAtMost ==
    ASSUME NEW f, Counts(f), NEW g, Counts(g), DOMAIN f = DOMAIN g,
           \A x \in DOMAIN f : f[x] <= g[x]
    PROVE  SumFunction(f) <= SumFunction(g)
<1>1. Tally(f, DOMAIN f) \subseteq Tally(g, DOMAIN g)
  <2> SUFFICES ASSUME NEW x \in DOMAIN f, NEW j \in 1..f[x] PROVE <<x, j>> \in Tally(g, DOMAIN g)
    BY DEF Tally, Marks
  <2>1. j \in 1..g[x]
    BY DEF Counts
  <2> QED BY <2>1 DEF Tally, Marks
<1>2. IsFiniteSet(Tally(g, DOMAIN g))
  BY TallyIsFinite
<1> QED BY <1>1, <1>2, SumIsTally, FS_Subset

LEMMA SumAdds ==
    ASSUME NEW f, Counts(f), NEW g, Counts(g), NEW h, Counts(h),
           DOMAIN f = DOMAIN h, DOMAIN g = DOMAIN h, \A x \in DOMAIN h : h[x] = f[x] + g[x]
    PROVE  SumFunction(h) = SumFunction(f) + SumFunction(g)
<1> DEFINE D == DOMAIN h
           P == [x \in D |-> (f[x] + 1)..h[x]]
           p == [x \in D |-> Cardinality(P[x])]
<1>1. ASSUME NEW x \in D
      PROVE  /\ P[x] = (f[x] + 1)..h[x] /\ IsFiniteSet(P[x]) /\ Cardinality(P[x]) = g[x]
             /\ 1..h[x] = (1..f[x]) \cup P[x] /\ (1..f[x]) \cap P[x] = {}
  <2>1. f[x] \in Nat /\ g[x] \in Nat /\ h[x] = f[x] + g[x] /\ P[x] = (f[x] + 1)..h[x]
    BY DEF Counts
  <2>2. IsFiniteSet((f[x] + 1)..h[x]) /\ Cardinality((f[x] + 1)..h[x]) = g[x]
    <3>1. \A a, b \in Nat : /\ IsFiniteSet((a + 1)..(a + b))
                            /\ Cardinality((a + 1)..(a + b)) = b
      BY FS_Interval
    <3> QED BY <2>1, <3>1
  <2> HIDE DEF P
  <2> QED BY <2>1, <2>2
<1>2. DOMAIN P = D /\ IsFiniteSet(D)
  BY DEF Counts
<1>3. DOMAIN p = D /\ \A x \in D : p[x] = g[x]
  BY <1>1
<1> HIDE DEF P, p
<1>4. SumFunction(g) = Cardinality(Together(P)) /\ IsFiniteSet(Together(P))
  <2>1. SumFunction([x \in DOMAIN P |-> Cardinality(P[x])]) = Cardinality(Together(P))
        /\ IsFiniteSet(Together(P))
    BY <1>1, <1>2, SumOfSizes
  <2>2. SumFunction(p) = SumFunction(g)
    BY <1>3, SumSame
  <2> QED BY <1>2, <2>1, <2>2 DEF p
<1>5. Tally(h, D) = Tally(f, D) \cup Together(P) /\ Tally(f, D) \cap Together(P) = {}
  BY <1>1, <1>2 DEF Tally, Marks, Together
<1>6. IsFiniteSet(Tally(f, D)) /\ SumFunction(f) = Cardinality(Tally(f, D))
      /\ SumFunction(h) = Cardinality(Tally(h, D))
  BY SumIsTally, TallyIsFinite
<1>7. Cardinality(Tally(h, D)) = Cardinality(Tally(f, D)) + Cardinality(Together(P)) - Cardinality({})
  BY <1>4, <1>5, <1>6, FS_Union
<1>8. SumFunction(f) \in Nat /\ SumFunction(g) \in Nat /\ Cardinality({}) = 0
  BY SumIsTally, FS_EmptySet
<1> QED BY <1>4, <1>6, <1>7, <1>8

(* The sums of the classes make up the sum.                                  *)
LEMMA SumByClass ==
    ASSUME NEW f, Counts(f), NEW C, IsFiniteSet(C), NEW c, \A x \in DOMAIN f : c[x] \in C
    PROVE  LET Of(y) == {x \in DOMAIN f : c[x] = y}
               s == [y \in C |-> SumFunction([x \in Of(y) |-> f[x]])]
           IN  Counts(s) /\ SumFunction(s) = SumFunction(f)
<1> DEFINE D == DOMAIN f
           Of(y) == {x \in D : c[x] = y}
           P == [y \in C |-> Tally(f, Of(y))]
           s == [y \in C |-> SumFunction([x \in Of(y) |-> f[x]])]
           p == [y \in C |-> Cardinality(P[y])]
           M == Together(P)
           h == [m \in M |-> m[2]]
<1>1. \A y \in C : P[y] = Tally(f, Of(y)) /\ IsFiniteSet(P[y])
  BY TallyIsFinite
<1>2. s = p
  <2>1. \A y \in C : SumFunction([x \in Of(y) |-> f[x]]) = Cardinality(P[y])
    BY <1>1, SumOn
  <2> HIDE DEF P, Of
  <2> QED BY <2>1
<1>3. DOMAIN P = C
  OBVIOUS
<1> HIDE DEF P
<1>4. Counts(p) /\ SumFunction(p) = Cardinality(M) /\ IsFiniteSet(M)
  <2>1. LET q == [y \in DOMAIN P |-> Cardinality(P[y])]
        IN  IsFiniteSet(Together(P)) /\ Counts(q) /\ SumFunction(q) = Cardinality(Together(P))
    BY <1>1, <1>3, SumOfSizes
  <2> QED BY <1>3, <2>1
<1>5. \A m \in M : m[1] \in C /\ m[2] \in P[m[1]] /\ m = <<m[1], m[2]>>
  BY <1>3 DEF Together
<1>6. \A y \in C : \A m \in P[y] : m[1] \in D /\ c[m[1]] = y /\ m \in Tally(f, D)
  BY <1>1 DEF Tally, Marks
<1>7. \A m \in Tally(f, D) : m \in P[c[m[1]]] /\ c[m[1]] \in C
  BY <1>1 DEF Tally, Marks
<1>8. \A y \in C : \A m \in P[y] : <<y, m>> \in M
  BY <1>3 DEF Together
<1>9. \A m \in M : h[m] = m[2]
  OBVIOUS
<1> DEFINE T == Tally(f, D)
<1>10. h \in [M -> T]
  BY <1>5, <1>6
<1> HIDE DEF h, M, T
<1>11. \A m, n \in M : h[m] = h[n] => m = n
  BY <1>5, <1>6, <1>9
<1>12. \A z \in T : \E m \in M : h[m] = z
  BY <1>7, <1>8, <1>9 DEF T
<1>13. Cardinality(T) = Cardinality(M)
  BY <1>4, <1>10, <1>11, <1>12, SameSize
<1>14. Cardinality(T) = SumFunction(f)
  BY SumIsTally DEF T
<1> QED BY <1>2, <1>4, <1>13, <1>14

-----------------------------------------------------------------------------
(* The referee.  Of every log are finitely many findings to score.           *)
LEMMA ReportForIs ==
    ASSUME NEW l \in Seq(Lines)
    PROVE  IsFiniteSet(ReportFor(l))
<1> DEFINE g == [f \in Deduped(l) |-> Citing(l, Reported(l, f))]
<1>1. ReportFor(l) = {g[f] : f \in Deduped(l)} /\ DOMAIN g = Deduped(l)
  BY DEF ReportFor
<1>2. IsFiniteSet(Deduped(l))
  BY DedupedAre
<1> HIDE DEF g
<1> QED BY <1>1, <1>2, ImageIsFinite

\* The findings that cite a malicious line.
TrueOf(C, lines) == {g \in C : Hits(g, lines) # {}}

OfType(C, t) == {g \in C : g.type = t}

LEMMA ScoredIs ==
    ASSUME NEW C, NEW lines
    PROVE  LET s == Scored(C, lines)
               T == TrueOf(C, lines)
           IN  /\ s.findings = Cardinality(C) /\ s.totals.true_positives = Cardinality(T)
               /\ s.totals.precision_defined <=> Cardinality(T) + Cardinality(C \ T) > 0
               /\ s.totals.recall_defined = (Cardinality(lines) > 0)
               /\ s.false_positives = C \ T
  BY DEF Scored, Score, Ratio, TrueOf

LEMMA MissesAre ==
    ASSUME NEW C, NEW lines
    PROVE  Scored(C, lines).misses = lines \ UNION {Hits(g, lines) : g \in TrueOf(C, lines)}
  BY DEF Scored, Score, Ratio, TrueOf

LEMMA PerRuleIs ==
    ASSUME NEW C, NEW lines
    PROVE  LET per_rule == Scored(C, lines).per_rule
           IN  /\ DOMAIN per_rule = {g.type : g \in C}
               /\ \A t \in DOMAIN per_rule : per_rule[t] = Cardinality(OfType(TrueOf(C, lines), t))
  BY DEF Scored, Score, Ratio, TrueOf, OfType

\* A scenario that is scored, and what is published of it.
Scorable(manifest, report) ==
    IsFiniteSet(report) /\ IsFiniteSet(manifest.malicious) /\ manifest.band \in Bands

LEMMA TrueIsFinite ==
    ASSUME NEW C, IsFiniteSet(C), NEW lines
    PROVE  /\ IsFiniteSet(TrueOf(C, lines)) /\ Cardinality(TrueOf(C, lines)) \in Nat
           /\ \A t : /\ IsFiniteSet(OfType(TrueOf(C, lines), t))
                     /\ Cardinality(OfType(TrueOf(C, lines), t)) \in Nat
<1>1. IsFiniteSet(TrueOf(C, lines))
  BY FS_Subset DEF TrueOf
<1>2. \A t : IsFiniteSet(OfType(TrueOf(C, lines), t))
  BY <1>1, FS_Subset DEF OfType
<1> QED BY <1>1, <1>2, FS_CardinalityType

Recalled(e, kept, true, t) ==
    /\ t \in DOMAIN e.by_rule <=> OfType(true, t) # {}
    /\ DOMAIN e.rules_by_rule = DOMAIN e.by_rule
    /\ t \in DOMAIN e.by_rule =>
         /\ e.rules_by_rule[t].total = Cardinality(OfType(true, t))
         /\ e.by_rule[t].kept = Cardinality(OfType(kept, t))

LEMMA ByRuleIs ==
    ASSUME NEW manifest, NEW report, Scorable(manifest, report), NEW system, NEW t
    PROVE  LET kept == KeptBy(system, manifest, report)
           IN  Recalled(ScorePair(manifest, report, system),
                        TrueOf(kept, manifest.malicious), TrueOf(report, manifest.malicious), t)
<1> DEFINE lines == manifest.malicious
           kept == KeptBy(system, manifest, report)
           rules == Scored(report, lines)
           learned == Scored(kept, lines)
           e == ScorePair(manifest, report, system)
           T == TrueOf(report, lines)
           K == TrueOf(kept, lines)
<1>1. /\ e.rules_by_rule = RecallByRule(rules.per_rule, rules.per_rule)
      /\ e.by_rule = RecallByRule(rules.per_rule, learned.per_rule)
  BY DEF ScorePair
<1> HIDE DEF kept
<1>2. /\ DOMAIN rules.per_rule = {g.type : g \in report}
      /\ \A x \in DOMAIN rules.per_rule : rules.per_rule[x] = Cardinality(OfType(T, x))
      /\ DOMAIN learned.per_rule = {g.type : g \in kept}
      /\ \A x \in DOMAIN learned.per_rule : learned.per_rule[x] = Cardinality(OfType(K, x))
  <2>1. /\ DOMAIN rules.per_rule = {g.type : g \in report}
        /\ \A x \in DOMAIN rules.per_rule : rules.per_rule[x] = Cardinality(OfType(T, x))
    BY PerRuleIs
  <2>2. /\ DOMAIN learned.per_rule = {g.type : g \in kept}
        /\ \A x \in DOMAIN learned.per_rule : learned.per_rule[x] = Cardinality(OfType(K, x))
    BY PerRuleIs
  <2> QED BY <2>1, <2>2
<1>3. T \subseteq report /\ K \subseteq kept /\ kept \subseteq report
  BY DEF TrueOf, KeptBy, kept
<1>4. IsFiniteSet(report) /\ IsFiniteSet(kept)
  BY <1>3, FS_Subset DEF Scorable
<1>5. \A x : /\ IsFiniteSet(OfType(T, x)) /\ Cardinality(OfType(T, x)) \in Nat
             /\ IsFiniteSet(OfType(K, x)) /\ Cardinality(OfType(K, x)) \in Nat
  BY <1>4, TrueIsFinite
<1> HIDE DEF rules, learned, e, T, K, kept
<1>6. DOMAIN e.rules_by_rule = {x \in {g.type : g \in report} : Cardinality(OfType(T, x)) > 0}
      /\ DOMAIN e.by_rule = DOMAIN e.rules_by_rule
  BY <1>1, <1>2 DEF RecallByRule
<1>7. t \in DOMAIN e.by_rule <=> OfType(T, t) # {}
  <2>1. OfType(T, t) # {} => t \in {g.type : g \in report}
    BY <1>3 DEF OfType
  <2>2. Cardinality(OfType(T, t)) > 0 <=> OfType(T, t) # {}
    BY <1>5, FS_EmptySet
  <2> QED BY <1>6, <2>1, <2>2
<1>8. ASSUME t \in DOMAIN e.by_rule
      PROVE  /\ e.rules_by_rule[t].total = Cardinality(OfType(T, t))
             /\ e.by_rule[t].kept = Cardinality(OfType(K, t))
  <2>1. t \in DOMAIN rules.per_rule /\ rules.per_rule[t] > 0
        /\ rules.per_rule[t] = Cardinality(OfType(T, t))
    BY <1>2, <1>6, <1>8
  <2>2. e.rules_by_rule[t].total = rules.per_rule[t]
    BY <1>1, <2>1 DEF RecallByRule, FindingRecall
  <2>3. e.by_rule[t].kept = IF t \in DOMAIN learned.per_rule THEN learned.per_rule[t] ELSE 0
    BY <1>1, <2>1 DEF RecallByRule, FindingRecall
  <2>4. CASE t \in DOMAIN learned.per_rule
    BY <1>2, <2>1, <2>2, <2>3, <2>4
  <2>5. CASE t \notin DOMAIN learned.per_rule
    <3>1. OfType(K, t) = {}
      BY <1>2, <1>3, <2>5 DEF OfType
    <3> QED BY <2>1, <2>2, <2>3, <2>5, <3>1, FS_EmptySet
  <2> QED BY <2>4, <2>5
<1> QED BY <1>6, <1>7, <1>8 DEF Recalled, e, T, K, kept

\* A scenario as it is published.
Published(e, manifest, report, kept) ==
    LET true == TrueOf(report, manifest.malicious)
        keptTrue == TrueOf(kept, manifest.malicious)
    IN  /\ e.manifest = manifest /\ e.report = report
        /\ IsFiniteSet(report) /\ kept \subseteq report
        /\ true \subseteq report /\ keptTrue = true \cap kept
        /\ e.rules.totals.true_positives = Cardinality(true)
        /\ e.learned.totals.true_positives = Cardinality(keptTrue)
        /\ e.finding_recall.kept = Cardinality(keptTrue)
        /\ e.finding_recall.total = Cardinality(true)
        /\ e.dropped = true \ kept
        /\ e.rules.false_positives = report \ true
        /\ e.learned.false_positives = kept \ keptTrue
        /\ IsFiniteSet(e.learned.misses) /\ e.rules.misses \subseteq e.learned.misses

LEMMA PairIs ==
    ASSUME NEW manifest, NEW report, Scorable(manifest, report), NEW system
    PROVE  LET e == ScorePair(manifest, report, system)
           IN  Published(e, manifest, report, KeptBy(system, manifest, report)) /\ ScenarioIsWhole(e)
<1> DEFINE lines == manifest.malicious
           kept == KeptBy(system, manifest, report)
           rules == Scored(report, lines)
           learned == Scored(kept, lines)
           e == ScorePair(manifest, report, system)
           T == TrueOf(report, lines)
           K == TrueOf(kept, lines)
<1>1. /\ e.manifest = manifest /\ e.report = report /\ e.rules = rules /\ e.learned = learned
      /\ e.finding_recall = FindingRecall(learned.totals.true_positives, rules.totals.true_positives)
      /\ e.dropped = Dropped(system, manifest, report)
  BY DEF ScorePair
<1>2. e.dropped = T \ kept /\ kept \subseteq report
  BY <1>1 DEF Dropped, TrueOf, KeptBy
<1>3. T \subseteq report /\ K = T \cap kept
  BY <1>2 DEF TrueOf
<1> HIDE DEF kept, e, lines
<1>4. /\ rules.totals.true_positives = Cardinality(T) /\ rules.false_positives = report \ T
      /\ rules.totals.recall_defined = (Cardinality(lines) > 0)
  BY ScoredIs
<1>5. /\ learned.totals.true_positives = Cardinality(K) /\ learned.false_positives = kept \ K
      /\ learned.totals.recall_defined = (Cardinality(lines) > 0)
      /\ learned.findings = Cardinality(kept)
      /\ learned.totals.precision_defined <=> Cardinality(K) + Cardinality(kept \ K) > 0
  BY ScoredIs
<1>m. /\ rules.misses = lines \ UNION {Hits(g, lines) : g \in T}
      /\ learned.misses = lines \ UNION {Hits(g, lines) : g \in K}
  BY MissesAre
<1> HIDE DEF rules, learned, T, K
<1>6. rules.misses \subseteq learned.misses /\ IsFiniteSet(learned.misses)
  <2>1. rules.misses \subseteq learned.misses
    BY <1>3, <1>m
  <2>2. IsFiniteSet(lines \ UNION {Hits(g, lines) : g \in K})
    BY FS_Subset DEF Scorable, lines
  <2> QED BY <1>m, <2>1, <2>2
<1>7. /\ IsFiniteSet(report) /\ IsFiniteSet(kept) /\ IsFiniteSet(T) /\ IsFiniteSet(K)
      /\ Cardinality(kept) \in Nat /\ Cardinality(K) \in Nat
      /\ IsFiniteSet(kept \ K) /\ Cardinality(kept \ K) \in Nat
      /\ IsFiniteSet(e.dropped) /\ Cardinality(e.dropped) \in Nat /\ Cardinality(T) \in Nat
  BY <1>2, <1>3, FS_Subset, FS_CardinalityType DEF Scorable
<1>8. e.finding_recall.kept = Cardinality(K) /\ e.finding_recall.total = Cardinality(T)
  BY <1>1, <1>4, <1>5 DEF FindingRecall
<1>9. Cardinality(K) + Cardinality(e.dropped) = Cardinality(T)
  <2>1. K \cup e.dropped = T /\ K \cap e.dropped = {}
    BY <1>2, <1>3
  <2> QED BY <1>7, <2>1, Halves
<1>10. learned.findings = 0 <=> ~learned.totals.precision_defined
  <2>1. kept = K \cup (kept \ K) /\ K \cap (kept \ K) = {}
    BY <1>3
  <2>2. Cardinality(kept) = Cardinality(K) + Cardinality(kept \ K)
    BY <1>7, <2>1, Halves
  <2> QED BY <1>5, <1>7, <2>2
<1>11. Published(e, manifest, report, kept)
  BY <1>1, <1>2, <1>3, <1>4, <1>5, <1>6, <1>7, <1>8 DEF Published, T, K, lines
<1>12. ScenarioIsWhole(e)
  <2>1. e.learned.false_positives \subseteq e.rules.false_positives
    BY <1>1, <1>2, <1>3, <1>4, <1>5
  <2> QED BY <1>1, <1>4, <1>5, <1>6, <1>8, <1>9, <1>10, <2>1 DEF ScenarioIsWhole
<1> QED BY <1>11, <1>12 DEF e, kept

\* A run of the benchmark: as many scenarios as there are.
PublishedRun(p, system) ==
    /\ IsFiniteSet(DOMAIN p)
    /\ \A k \in DOMAIN p :
         LET e == p[k]
         IN  /\ Published(e, e.manifest, e.report, KeptBy(system, e.manifest, e.report))
             /\ e.manifest.band \in Bands

LEMMA ManifestsAre ==
    ASSUME NEW pairs, NEW system, IsFiniteSet(DOMAIN pairs),
           \A k \in DOMAIN pairs : Scorable(pairs[k].manifest, pairs[k].report)
    PROVE  LET p == ScoreManifests(pairs, system)
           IN  /\ PublishedRun(p, system) /\ \A k \in DOMAIN p : ScenarioIsWhole(p[k])
               /\ \A k \in DOMAIN p : \A t :
                    Recalled(p[k], TrueOf(KeptBy(system, p[k].manifest, p[k].report), p[k].manifest.malicious),
                             TrueOf(p[k].report, p[k].manifest.malicious), t)
<1> DEFINE p == ScoreManifests(pairs, system)
<1>1. /\ DOMAIN p = DOMAIN pairs
      /\ \A k \in DOMAIN p : p[k] = ScorePair(pairs[k].manifest, pairs[k].report, system)
  BY DEF ScoreManifests
<1> HIDE DEF p
<1>2. ASSUME NEW k \in DOMAIN p
      PROVE  /\ p[k].manifest = pairs[k].manifest /\ p[k].report = pairs[k].report
             /\ Published(p[k], p[k].manifest, p[k].report, KeptBy(system, p[k].manifest, p[k].report))
             /\ p[k].manifest.band \in Bands /\ ScenarioIsWhole(p[k])
             /\ Scorable(p[k].manifest, p[k].report)
  <2> DEFINE manifest == pairs[k].manifest
             report == pairs[k].report
             e == ScorePair(manifest, report, system)
  <2>1. Scorable(manifest, report) /\ p[k] = e
    BY <1>1
  <2> HIDE DEF manifest, report
  <2>2. Published(e, manifest, report, KeptBy(system, manifest, report)) /\ ScenarioIsWhole(e)
    BY <2>1, PairIs
  <2> HIDE DEF e
  <2>3. e.manifest = manifest /\ e.report = report
    BY <2>2 DEF Published
  <2>4. manifest.band \in Bands
    BY <2>1 DEF Scorable
  <2> QED BY <2>1, <2>2, <2>3, <2>4 DEF manifest, report
<1>3. ASSUME NEW k \in DOMAIN p, NEW t
      PROVE  Recalled(p[k], TrueOf(KeptBy(system, p[k].manifest, p[k].report), p[k].manifest.malicious),
                      TrueOf(p[k].report, p[k].manifest.malicious), t)
  <2> DEFINE manifest == p[k].manifest
             report == p[k].report
  <2>1. Scorable(manifest, report) /\ p[k] = ScorePair(manifest, report, system)
    BY <1>1, <1>2
  <2> HIDE DEF manifest, report
  <2>2. Recalled(ScorePair(manifest, report, system), TrueOf(KeptBy(system, manifest, report), manifest.malicious),
                 TrueOf(report, manifest.malicious), t)
    BY <2>1, ByRuleIs
  <2> QED BY <2>1, <2>2 DEF manifest, report
<1>4. PublishedRun(p, system)
  BY <1>1, <1>2 DEF PublishedRun
<1>5. \A k \in DOMAIN p : ScenarioIsWhole(p[k])
  BY <1>2
<1> QED BY <1>3, <1>4, <1>5 DEF p

\* The true findings kept and those dropped are those the rules made.
LEMMA NoneIsLost ==
    ASSUME NEW p, NEW system, PublishedRun(p, system)
    PROVE  LET dropped == UNION {{<<k, g>> : g \in p[k].dropped} : k \in DOMAIN p}
           IN  SumFunction([k \in DOMAIN p |-> p[k].learned.totals.true_positives]) + Cardinality(dropped)
                 = SumFunction([k \in DOMAIN p |-> p[k].rules.totals.true_positives])
<1> DEFINE D == DOMAIN p
           f == [k \in D |-> p[k].learned.totals.true_positives]
           h == [k \in D |-> p[k].rules.totals.true_positives]
           P == [k \in D |-> p[k].dropped]
           g == [k \in D |-> Cardinality(P[k])]
           dropped == UNION {{<<k, x>> : x \in p[k].dropped} : k \in D}
<1>1. ASSUME NEW k \in D
      PROVE  /\ IsFiniteSet(p[k].dropped)
             /\ f[k] \in Nat /\ h[k] \in Nat /\ g[k] \in Nat /\ h[k] = f[k] + g[k]
  <2> DEFINE e == p[k]
             kept == KeptBy(system, e.manifest, e.report)
             T == TrueOf(e.report, e.manifest.malicious)
  <2>1. Published(e, e.manifest, e.report, kept)
    BY DEF PublishedRun
  <2> HIDE DEF e, kept
  <2>2. /\ e.learned.totals.true_positives = Cardinality(T \cap kept)
        /\ e.rules.totals.true_positives = Cardinality(T)
        /\ e.dropped = T \ kept /\ IsFiniteSet(T)
    BY <2>1, FS_Subset DEF Published
  <2> HIDE DEF T
  <2>3. T = (T \cap kept) \cup (T \ kept) /\ (T \cap kept) \cap (T \ kept) = {}
    OBVIOUS
  <2>4. IsFiniteSet(T \cap kept) /\ IsFiniteSet(T \ kept)
    BY <2>2, FS_Subset
  <2>5. Cardinality((T \cap kept) \cup (T \ kept)) = Cardinality(T \cap kept) + Cardinality(T \ kept)
        /\ Cardinality(T \cap kept) \in Nat /\ Cardinality(T \ kept) \in Nat
    BY <2>3, <2>4, Halves
  <2>6. Cardinality(T) = Cardinality(T \cap kept) + Cardinality(T \ kept) /\ Cardinality(T) \in Nat
    BY <2>2, <2>3, <2>5, FS_CardinalityType
  <2> QED BY <2>2, <2>4, <2>5, <2>6 DEF e
<1>2. IsFiniteSet(D)
  BY DEF PublishedRun
<1>3. DOMAIN P = D /\ \A k \in D : P[k] = p[k].dropped
  OBVIOUS
<1>4. Together(P) = dropped
  BY DEF Together
<1> HIDE DEF P
<1>5. SumFunction(g) = Cardinality(Together(P))
  BY <1>1, <1>2, <1>3, SumOfSizes
<1>6. Counts(f) /\ Counts(g) /\ Counts(h) /\ DOMAIN f = D /\ DOMAIN g = D /\ DOMAIN h = D
  BY <1>1, <1>2 DEF Counts
<1> HIDE DEF f, g, h, dropped
<1>7. SumFunction(h) = SumFunction(f) + SumFunction(g)
  BY <1>1, <1>6, SumAdds
<1> QED BY <1>4, <1>5, <1>7 DEF f, h, dropped

\* So it is of every rule.
LEMMA NoneOfARuleIsLost ==
    ASSUME NEW p, NEW system, PublishedRun(p, system), NEW t,
           \A k \in DOMAIN p :
              Recalled(p[k], TrueOf(KeptBy(system, p[k].manifest, p[k].report), p[k].manifest.malicious),
                       TrueOf(p[k].report, p[k].manifest.malicious), t)
    PROVE  LET dropped == UNION {{<<k, g>> : g \in p[k].dropped} : k \in DOMAIN p}
               kept == [k \in DOMAIN p |-> IF t \in DOMAIN p[k].by_rule THEN p[k].by_rule[t].kept ELSE 0]
               total == [k \in DOMAIN p |->
                           IF t \in DOMAIN p[k].rules_by_rule THEN p[k].rules_by_rule[t].total ELSE 0]
           IN  SumFunction(kept) + Cardinality({d \in dropped : d[2].type = t}) = SumFunction(total)
<1> DEFINE D == DOMAIN p
           f == [k \in D |-> IF t \in DOMAIN p[k].by_rule THEN p[k].by_rule[t].kept ELSE 0]
           h == [k \in D |-> IF t \in DOMAIN p[k].rules_by_rule THEN p[k].rules_by_rule[t].total ELSE 0]
           P == [k \in D |-> OfType(p[k].dropped, t)]
           g == [k \in D |-> Cardinality(P[k])]
           dropped == UNION {{<<k, x>> : x \in p[k].dropped} : k \in D}
<1>1. ASSUME NEW k \in D
      PROVE  /\ IsFiniteSet(OfType(p[k].dropped, t))
             /\ f[k] \in Nat /\ h[k] \in Nat /\ g[k] \in Nat /\ h[k] = f[k] + g[k]
  <2> DEFINE e == p[k]
             kept == KeptBy(system, e.manifest, e.report)
             T == TrueOf(e.report, e.manifest.malicious)
             K == TrueOf(kept, e.manifest.malicious)
             A == OfType(K, t)
             B == OfType(e.dropped, t)
  <2>1. Published(e, e.manifest, e.report, kept) /\ Recalled(e, K, T, t)
    BY DEF PublishedRun
  <2> HIDE DEF e, kept
  <2>2. K = T \cap kept /\ e.dropped = T \ kept /\ IsFiniteSet(T)
    BY <2>1, FS_Subset DEF Published
  <2> HIDE DEF T, K
  <2>3. OfType(T, t) = A \cup B /\ A \cap B = {} /\ OfType(T, t) \subseteq T
    BY <2>2 DEF OfType
  <2>4. IsFiniteSet(OfType(T, t)) /\ IsFiniteSet(A) /\ IsFiniteSet(B)
    BY <2>2, <2>3, FS_Subset
  <2>5. /\ Cardinality(A) \in Nat /\ Cardinality(B) \in Nat
        /\ Cardinality(OfType(T, t)) = Cardinality(A) + Cardinality(B)
    BY <2>3, <2>4, Halves
  <2> HIDE DEF A, B
  <2>6. IF t \in DOMAIN e.by_rule
        THEN /\ t \in DOMAIN e.rules_by_rule /\ e.by_rule[t].kept = Cardinality(A)
             /\ e.rules_by_rule[t].total = Cardinality(A) + Cardinality(B)
        ELSE t \notin DOMAIN e.rules_by_rule /\ Cardinality(A) = 0 /\ Cardinality(B) = 0
    BY <2>1, <2>3, <2>5, FS_EmptySet DEF Recalled, A
  <2>7. g[k] = Cardinality(B)
    BY DEF e, B
  <2> HIDE DEF g
  <2>8. f[k] = Cardinality(A) /\ h[k] = Cardinality(A) + Cardinality(B)
    BY <2>5, <2>6 DEF e
  <2> QED BY <2>4, <2>5, <2>7, <2>8 DEF e, B
<1>2. IsFiniteSet(D)
  BY DEF PublishedRun
<1>3. DOMAIN P = D /\ \A k \in D : P[k] = OfType(p[k].dropped, t)
  OBVIOUS
<1>4. Together(P) = {d \in dropped : d[2].type = t}
  BY DEF Together, OfType
<1> HIDE DEF P
<1>5. SumFunction(g) = Cardinality(Together(P))
  BY <1>1, <1>2, <1>3, SumOfSizes
<1>6. Counts(f) /\ Counts(g) /\ Counts(h) /\ DOMAIN f = D /\ DOMAIN g = D /\ DOMAIN h = D
  BY <1>1, <1>2 DEF Counts
<1> HIDE DEF f, g, h, dropped
<1>7. SumFunction(h) = SumFunction(f) + SumFunction(g)
  BY <1>1, <1>6, SumAdds
<1> QED BY <1>4, <1>5, <1>7 DEF f, h, dropped

\* Each false positive is counted under one format.
LEMMA FormatsAddUp ==
    ASSUME NEW p, IsFiniteSet(DOMAIN p), NEW f, DOMAIN f = DOMAIN p, \A k \in DOMAIN p : f[k] \in Nat
    PROVE  LET formats == {p[k].manifest.format : k \in DOMAIN p}
               Of(x) == {k \in DOMAIN p : p[k].manifest.format = x}
           IN  SumFunction([x \in formats |-> SumFunction([k \in Of(x) |-> f[k]])]) = SumFunction(f)
<1> DEFINE D == DOMAIN p
           c == [k \in D |-> p[k].manifest.format]
           C == {c[k] : k \in D}
           Of(x) == {k \in DOMAIN p : p[k].manifest.format = x}
<1>1. C = {p[k].manifest.format : k \in D} /\ DOMAIN c = D
  OBVIOUS
<1>2. \A x : {k \in DOMAIN f : c[k] = x} = Of(x)
  OBVIOUS
<1>3. Counts(f)
  BY DEF Counts
<1> HIDE DEF c
<1>4. IsFiniteSet(C) /\ \A k \in DOMAIN f : c[k] \in C
  BY <1>1, ImageIsFinite
<1> HIDE DEF C
<1>5. SumFunction([x \in C |-> SumFunction([k \in {z \in DOMAIN f : c[z] = x} |-> f[k]])]) = SumFunction(f)
  BY <1>3, <1>4, SumByClass
<1>6. \A x : [k \in {z \in DOMAIN f : c[z] = x} |-> f[k]] = [k \in Of(x) |-> f[k]]
  BY <1>2
<1> HIDE DEF Of
<1>7. SumFunction([x \in C |-> SumFunction([k \in Of(x) |-> f[k]])]) = SumFunction(f)
  BY <1>5, <1>6
<1> QED BY <1>1, <1>7 DEF Of

\* A decision that is robust is that of every band.
LEMMA RobustIs ==
    ASSUME NEW system, NEW g, Robust(system, g), NEW a \in Bands, NEW b \in Bands,
           ModelPositive(system, g, a)
    PROVE  ModelPositive(system, g, b)
<1> DEFINE d == [x \in Bands |-> ModelPositive(system, g, x)]
           S == {d[x] : x \in Bands}
<1>1. IsFiniteSet(Bands)
  <2>1. IsFiniteSet({"low"}) /\ IsFiniteSet({"standard"}) /\ IsFiniteSet({"crown-jewel"})
    BY FS_Singleton
  <2>2. IsFiniteSet(({"low"} \cup {"standard"}) \cup {"crown-jewel"})
    BY <2>1, FS_Union
  <2>3. Bands = ({"low"} \cup {"standard"}) \cup {"crown-jewel"}
    BY DEF Bands
  <2> QED BY <2>2, <2>3
<1>2. S = {ModelPositive(system, g, x) : x \in Bands} /\ DOMAIN d = Bands
      /\ d[a] = ModelPositive(system, g, a) /\ d[b] = ModelPositive(system, g, b)
  OBVIOUS
<1>3. Cardinality(S) = 1
  BY <1>2 DEF Robust
<1> HIDE DEF d
<1>4. IsFiniteSet(S)
  BY <1>1, <1>2, ImageIsFinite
<1>5. PICK x : S = {x}
  BY <1>3, <1>4, FS_Singleton
<1>6. d[a] = d[b]
  BY <1>5
<1> QED BY <1>2, <1>6

RobustOf(system, J) == {g \in J : Robust(system, g)}
FlippingOf(system, J) == {g \in J : ~Robust(system, g)}
KeptAt(system, J, b) == {g \in J : ModelPositive(system, g, b)}

LEMMA JudgedIs ==
    ASSUME NEW p, NEW system, PublishedRun(p, system), NEW k \in DOMAIN p
    PROVE  LET e == p[k]
               J == Judged(system, e, TRUE)
               Q == Judged(system, e, FALSE)
           IN  /\ IsFiniteSet(J) /\ Cardinality(J) = e.learned.totals.true_positives
               /\ IsFiniteSet(Q)
               /\ IsFiniteSet(e.rules.false_positives) /\ IsFiniteSet(e.learned.false_positives)
               /\ Cardinality(e.rules.false_positives)
                    = Cardinality(Q) + Cardinality(e.learned.false_positives)
               /\ IsFiniteSet(e.report \ (e.dropped \cup e.rules.false_positives))
               /\ \A b \in Bands :
                    /\ RobustOf(system, J) \subseteq KeptAt(system, J, b)
                    /\ KeptAt(system, Q, b) \subseteq FlippingOf(system, Q)
                    /\ e.manifest.band = b =>
                         e.report \ (e.dropped \cup e.rules.false_positives) \subseteq KeptAt(system, J, b)
<1> DEFINE e == p[k]
           own == e.manifest.band
           lines == e.manifest.malicious
           kept == KeptBy(system, e.manifest, e.report)
           T == TrueOf(e.report, lines)
           K == TrueOf(kept, lines)
           J == Judged(system, e, TRUE)
           Q == Judged(system, e, FALSE)
<1>1. Published(e, e.manifest, e.report, kept) /\ own \in Bands
  BY DEF PublishedRun
<1> HIDE DEF e
<1>2. /\ e.learned.totals.true_positives = Cardinality(K) /\ K = T \cap kept
      /\ IsFiniteSet(e.report) /\ T \subseteq e.report /\ kept \subseteq e.report
      /\ e.dropped = T \ kept /\ e.rules.false_positives = e.report \ T
      /\ e.learned.false_positives = kept \ K
  BY <1>1 DEF Published
<1>3. /\ \A g \in e.report : g \in T <=> Hits(g, lines) # {}
      /\ \A g \in e.report : g \in kept <=> ModelPositive(system, g, own)
  BY DEF TrueOf, KeptBy
<1>4. \A g \in e.report : (g \in T) \in BOOLEAN /\ ModelPositive(system, g, own) \in BOOLEAN
  BY DEF ModelPositive
<1>5. J = T \cap kept /\ Q = (e.report \ T) \ kept
  <2>1. \A g \in e.report : g \in J <=> g \in T /\ g \in kept
    BY <1>3, <1>4 DEF Judged
  <2>2. \A g \in e.report : g \in Q <=> g \notin T /\ g \notin kept
    BY <1>3, <1>4 DEF Judged
  <2>3. J \subseteq e.report /\ Q \subseteq e.report
    BY DEF Judged
  <2> HIDE DEF J, Q, T, kept
  <2> QED BY <1>2, <2>1, <2>2, <2>3
<1> HIDE DEF J, Q, T, K, kept
<1>6. /\ IsFiniteSet(J) /\ IsFiniteSet(Q) /\ IsFiniteSet(kept \ K) /\ IsFiniteSet(e.report \ T)
      /\ IsFiniteSet(e.report \ (e.dropped \cup e.rules.false_positives))
  BY <1>2, <1>5, FS_Subset
<1>7. Cardinality(e.report \ T) = Cardinality(Q) + Cardinality(kept \ K)
  <2>1. Q \cup (kept \ K) = e.report \ T /\ Q \cap (kept \ K) = {}
    BY <1>2, <1>5
  <2>2. Cardinality(Q \cup (kept \ K)) = Cardinality(Q) + Cardinality(kept \ K)
    BY <1>6, <2>1, Halves
  <2> QED BY <2>1, <2>2
<1>8. ASSUME NEW b \in Bands
      PROVE  /\ RobustOf(system, J) \subseteq KeptAt(system, J, b)
             /\ KeptAt(system, Q, b) \subseteq FlippingOf(system, Q)
             /\ own = b => e.report \ (e.dropped \cup e.rules.false_positives) \subseteq KeptAt(system, J, b)
  <2>1. \A g \in J : ModelPositive(system, g, own)
    BY <1>2, <1>3, <1>5
  <2>2. \A g \in Q : ~ModelPositive(system, g, own)
    BY <1>2, <1>3, <1>5
  <2>3. ASSUME NEW g \in J, Robust(system, g) PROVE ModelPositive(system, g, b)
    BY <1>1, <2>1, <2>3, RobustIs
  <2>4. ASSUME NEW g \in Q, ModelPositive(system, g, b) PROVE ~Robust(system, g)
    BY <1>1, <2>2, <2>4, RobustIs
  <2>5. e.report \ (e.dropped \cup e.rules.false_positives) = J
    BY <1>2, <1>5
  <2> QED BY <2>1, <2>3, <2>4, <2>5 DEF RobustOf, FlippingOf, KeptAt
<1>9. /\ Cardinality(J) = e.learned.totals.true_positives
      /\ IsFiniteSet(e.rules.false_positives) /\ IsFiniteSet(e.learned.false_positives)
      /\ Cardinality(e.rules.false_positives) = Cardinality(Q) + Cardinality(e.learned.false_positives)
  BY <1>2, <1>5, <1>6, <1>7
<1> QED BY <1>6, <1>8, <1>9 DEF e, J, Q

\* A bucket counts every one of its findings as robust or as flipping.
Whole(q, p, system, kept) ==
    LET J(k) == Judged(system, p[k], kept)
    IN  /\ q.total = SumFunction([k \in DOMAIN p |-> Cardinality(J(k))])
        /\ q.robust = SumFunction([k \in DOMAIN p |-> Cardinality(RobustOf(system, J(k)))])
        /\ q.flipping = SumFunction([k \in DOMAIN p |-> Cardinality(FlippingOf(system, J(k)))])
        /\ \A b \in Bands :
             q.kept_at[b] = SumFunction([k \in DOMAIN p |-> Cardinality(KeptAt(system, J(k), b))])
        /\ q.robust + q.flipping = q.total

LEMMA BucketIs ==
    ASSUME NEW p, NEW system, NEW kept, IsFiniteSet(DOMAIN p),
           \A k \in DOMAIN p : IsFiniteSet(Judged(system, p[k], kept))
    PROVE  Whole(Bucket(system, p, kept), p, system, kept)
<1> DEFINE D == DOMAIN p
           J(k) == Judged(system, p[k], kept)
           q == Bucket(system, p, kept)
           f == [k \in D |-> Cardinality(RobustOf(system, J(k)))]
           g == [k \in D |-> Cardinality(FlippingOf(system, J(k)))]
           h == [k \in D |-> Cardinality(J(k))]
<1>1. q.total = SumFunction(h) /\ q.robust = SumFunction(f) /\ q.flipping = SumFunction(g)
  BY DEF Bucket, SumOver, RobustOf, FlippingOf
<1>2. \A b \in Bands :
        q.kept_at[b] = SumFunction([k \in DOMAIN p |-> Cardinality(KeptAt(system, J(k), b))])
  BY DEF Bucket, SumOver, KeptAt
<1>3. ASSUME NEW k \in D
      PROVE  f[k] \in Nat /\ g[k] \in Nat /\ h[k] \in Nat /\ h[k] = f[k] + g[k]
  <2> DEFINE A == RobustOf(system, J(k))
             B == FlippingOf(system, J(k))
  <2>1. A \cup B = J(k) /\ A \cap B = {}
    BY DEF RobustOf, FlippingOf
  <2>2. IsFiniteSet(A) /\ IsFiniteSet(B)
    BY <2>1, FS_Subset
  <2>3. Cardinality(A \cup B) = Cardinality(A) + Cardinality(B)
        /\ Cardinality(A) \in Nat /\ Cardinality(B) \in Nat
    BY <2>1, <2>2, Halves
  <2>4. f[k] = Cardinality(A) /\ g[k] = Cardinality(B) /\ h[k] = Cardinality(J(k))
    OBVIOUS
  <2>5. Cardinality(J(k)) = Cardinality(A) + Cardinality(B)
    BY <2>1, <2>3
  <2> HIDE DEF A, B, f, g, h, J
  <2> QED BY <2>3, <2>4, <2>5
<1>4. Counts(f) /\ Counts(g) /\ Counts(h) /\ DOMAIN f = D /\ DOMAIN g = D /\ DOMAIN h = D
  BY <1>3 DEF Counts
<1>5. SumFunction(h) = SumFunction(f) + SumFunction(g)
  <2> HIDE DEF f, g, h
  <2> QED BY <1>3, <1>4, SumAdds
<1>6. SumFunction(h) \in Nat /\ SumFunction(f) \in Nat /\ SumFunction(g) \in Nat
  <2> HIDE DEF f, g, h
  <2> QED BY <1>4, SumIsTally
<1> HIDE DEF q, J
<1>7. q.robust + q.flipping = q.total
  <2> HIDE DEF f, g, h
  <2> QED BY <1>1, <1>5
<1> QED BY <1>1, <1>2, <1>7 DEF J, q, Whole

\* A sum of sizes of smaller sets is no larger.
LEMMA SizesGrow ==
    ASSUME NEW D, IsFiniteSet(D), NEW A, NEW B,
           DOMAIN A = D, DOMAIN B = D, \A k \in D : A[k] \subseteq B[k] /\ IsFiniteSet(B[k])
    PROVE  LET a == [k \in D |-> Cardinality(A[k])]
               b == [k \in D |-> Cardinality(B[k])]
           IN  SumFunction(a) <= SumFunction(b) /\ SumFunction(a) \in Nat /\ SumFunction(b) \in Nat
<1> DEFINE a == [k \in D |-> Cardinality(A[k])]
           b == [k \in D |-> Cardinality(B[k])]
<1>1. ASSUME NEW k \in D PROVE a[k] \in Nat /\ b[k] \in Nat /\ a[k] <= b[k]
  BY FS_Subset, FS_CardinalityType
<1>2. Counts(a) /\ Counts(b) /\ DOMAIN a = D /\ DOMAIN b = D
  BY <1>1 DEF Counts
<1> HIDE DEF a, b
<1>3. SumFunction(a) <= SumFunction(b)
  BY <1>1, <1>2, SumIsAtMost
<1>4. SumFunction(a) \in Nat /\ SumFunction(b) \in Nat
  BY <1>2, SumIsTally
<1> QED BY <1>3, <1>4 DEF a, b

\* The lines missed by the rules are missed by the learned system.
LEMMA MissesAreOrdered ==
    ASSUME NEW p, NEW system, PublishedRun(p, system)
    PROVE  SumFunction([k \in DOMAIN p |-> Cardinality(p[k].rules.misses)])
             <= SumFunction([k \in DOMAIN p |-> Cardinality(p[k].learned.misses)])
<1> DEFINE A == [k \in DOMAIN p |-> p[k].rules.misses]
           B == [k \in DOMAIN p |-> p[k].learned.misses]
<1>1. \A k \in DOMAIN p : A[k] \subseteq B[k] /\ IsFiniteSet(B[k])
  BY DEF PublishedRun, Published
<1>2. IsFiniteSet(DOMAIN p) /\ DOMAIN A = DOMAIN p /\ DOMAIN B = DOMAIN p
  BY DEF PublishedRun
<1>3. SumFunction([k \in DOMAIN p |-> Cardinality(A[k])])
        <= SumFunction([k \in DOMAIN p |-> Cardinality(B[k])])
  <2> HIDE DEF A, B
  <2> QED BY <1>1, <1>2, SizesGrow
<1> QED BY <1>3

\* The findings the model kept rightly, and those it dropped rightly.
LEMMA TrueDetectionsAre ==
    ASSUME NEW p, NEW system, PublishedRun(p, system)
    PROVE  LET kept == Bucket(system, p, TRUE)
               sound(e) == e.report \ (e.dropped \cup e.rules.false_positives)
           IN  /\ kept.total = SumFunction([k \in DOMAIN p |-> p[k].learned.totals.true_positives])
               /\ kept.robust + kept.flipping = kept.total
               /\ \A b \in Bands :
                    /\ kept.kept_at[b] \in kept.robust..kept.total
                    /\ kept.kept_at[b] >= SumFunction([k \in DOMAIN p |->
                          IF p[k].manifest.band = b THEN Cardinality(sound(p[k])) ELSE 0])
<1> DEFINE D == DOMAIN p
           J(k) == Judged(system, p[k], TRUE)
           sound(e) == e.report \ (e.dropped \cup e.rules.false_positives)
           kept == Bucket(system, p, TRUE)
           total == [k \in D |-> Cardinality(J(k))]
           true == [k \in D |-> p[k].learned.totals.true_positives]
<1>1. ASSUME NEW k \in D
      PROVE  /\ IsFiniteSet(J(k)) /\ Cardinality(J(k)) = p[k].learned.totals.true_positives
             /\ IsFiniteSet(sound(p[k]))
             /\ \A b \in Bands :
                  /\ RobustOf(system, J(k)) \subseteq KeptAt(system, J(k), b)
                  /\ p[k].manifest.band = b => sound(p[k]) \subseteq KeptAt(system, J(k), b)
  BY JudgedIs
<1>2. IsFiniteSet(D)
  BY DEF PublishedRun
<1>3. /\ kept.total = SumFunction(total)
      /\ kept.robust = SumFunction([k \in D |-> Cardinality(RobustOf(system, J(k)))])
      /\ \A b \in Bands :
           kept.kept_at[b] = SumFunction([k \in D |-> Cardinality(KeptAt(system, J(k), b))])
      /\ kept.robust + kept.flipping = kept.total
  <2>1. \A k \in D : IsFiniteSet(J(k))
    BY <1>1
  <2>2. Whole(kept, p, system, TRUE)
    BY <1>2, <2>1, BucketIs
  <2> HIDE DEF kept
  <2> QED BY <2>2 DEF Whole
<1> HIDE DEF kept, sound
<1>4. total = true
  BY <1>1
<1>5. ASSUME NEW b \in Bands
      PROVE  /\ kept.kept_at[b] \in kept.robust..kept.total
             /\ kept.kept_at[b] >= SumFunction([k \in D |->
                   IF p[k].manifest.band = b THEN Cardinality(sound(p[k])) ELSE 0])
  <2> DEFINE R == [k \in D |-> RobustOf(system, J(k))]
             A == [k \in D |-> KeptAt(system, J(k), b)]
             T == [k \in D |-> J(k)]
             S == [k \in D |-> IF p[k].manifest.band = b THEN sound(p[k]) ELSE {}]
  <2>1. \A k \in D : /\ R[k] \subseteq A[k] /\ A[k] \subseteq T[k] /\ IsFiniteSet(T[k])
                     /\ IsFiniteSet(A[k]) /\ S[k] \subseteq A[k]
    <3> SUFFICES ASSUME NEW k \in D
                 PROVE  /\ R[k] \subseteq A[k] /\ A[k] \subseteq T[k] /\ IsFiniteSet(T[k])
                        /\ IsFiniteSet(A[k]) /\ S[k] \subseteq A[k]
      OBVIOUS
    <3>1. KeptAt(system, J(k), b) \subseteq J(k)
      BY DEF KeptAt
    <3>2. IsFiniteSet(KeptAt(system, J(k), b))
      BY <1>1, <3>1, FS_Subset
    <3> QED BY <1>1, <3>1, <3>2
  <2>2. /\ SumFunction([k \in D |-> Cardinality(R[k])]) = kept.robust
        /\ SumFunction([k \in D |-> Cardinality(A[k])]) = kept.kept_at[b]
        /\ SumFunction([k \in D |-> Cardinality(T[k])]) = kept.total
    BY <1>3
  <2>3. [k \in D |-> Cardinality(S[k])]
          = [k \in D |-> IF p[k].manifest.band = b THEN Cardinality(sound(p[k])) ELSE 0]
    <3>1. \A k \in D : Cardinality(S[k]) = IF p[k].manifest.band = b THEN Cardinality(sound(p[k])) ELSE 0
      BY FS_EmptySet
    <3> QED BY <3>1
  <2>4. DOMAIN R = D /\ DOMAIN A = D /\ DOMAIN S = D /\ DOMAIN T = D
    OBVIOUS
  <2> HIDE DEF R, A, S, T
  <2>5. /\ SumFunction([k \in D |-> Cardinality(R[k])]) <= SumFunction([k \in D |-> Cardinality(A[k])])
        /\ SumFunction([k \in D |-> Cardinality(A[k])]) \in Nat
        /\ SumFunction([k \in D |-> Cardinality(R[k])]) \in Nat
    BY <1>2, <2>1, <2>4, SizesGrow
  <2>6. /\ SumFunction([k \in D |-> Cardinality(A[k])]) <= SumFunction([k \in D |-> Cardinality(T[k])])
        /\ SumFunction([k \in D |-> Cardinality(T[k])]) \in Nat
    BY <1>1, <1>2, <2>1, <2>4, SizesGrow
  <2>7. /\ SumFunction([k \in D |-> Cardinality(S[k])]) <= SumFunction([k \in D |-> Cardinality(A[k])])
        /\ SumFunction([k \in D |-> Cardinality(S[k])]) \in Nat
    BY <1>2, <2>1, <2>4, SizesGrow
  <2> QED BY <2>2, <2>3, <2>5, <2>6, <2>7
<1> QED BY <1>3, <1>4, <1>5 DEF kept, sound

LEMMA SuppressionsAre ==
    ASSUME NEW p, NEW system, PublishedRun(p, system)
    PROVE  LET quiet == Bucket(system, p, FALSE)
               rules == [k \in DOMAIN p |-> Cardinality(p[k].rules.false_positives)]
               learned == [k \in DOMAIN p |-> Cardinality(p[k].learned.false_positives)]
           IN  /\ quiet.total = SumFunction(rules) - SumFunction(learned)
               /\ quiet.robust + quiet.flipping = quiet.total
               /\ \A b \in Bands : quiet.kept_at[b] \in 0..quiet.flipping
<1> DEFINE D == DOMAIN p
           Q(k) == Judged(system, p[k], FALSE)
           quiet == Bucket(system, p, FALSE)
           total == [k \in D |-> Cardinality(Q(k))]
           rules == [k \in D |-> Cardinality(p[k].rules.false_positives)]
           learned == [k \in D |-> Cardinality(p[k].learned.false_positives)]
<1>1. ASSUME NEW k \in D
      PROVE  /\ IsFiniteSet(Q(k))
             /\ IsFiniteSet(p[k].rules.false_positives) /\ IsFiniteSet(p[k].learned.false_positives)
             /\ Cardinality(p[k].rules.false_positives)
                  = Cardinality(Q(k)) + Cardinality(p[k].learned.false_positives)
             /\ \A b \in Bands : KeptAt(system, Q(k), b) \subseteq FlippingOf(system, Q(k))
  BY JudgedIs
<1>2. IsFiniteSet(D)
  BY DEF PublishedRun
<1>3. /\ quiet.total = SumFunction(total)
      /\ quiet.flipping = SumFunction([k \in D |-> Cardinality(FlippingOf(system, Q(k)))])
      /\ \A b \in Bands :
           quiet.kept_at[b] = SumFunction([k \in D |-> Cardinality(KeptAt(system, Q(k), b))])
      /\ quiet.robust + quiet.flipping = quiet.total
  <2>1. \A k \in D : IsFiniteSet(Q(k))
    BY <1>1
  <2>2. Whole(quiet, p, system, FALSE)
    BY <1>2, <2>1, BucketIs
  <2> HIDE DEF quiet
  <2> QED BY <2>2 DEF Whole
<1> HIDE DEF quiet
<1>4. quiet.total = SumFunction(rules) - SumFunction(learned)
  <2>1. \A k \in D : /\ total[k] \in Nat /\ rules[k] \in Nat /\ learned[k] \in Nat
                     /\ rules[k] = total[k] + learned[k]
    BY <1>1, FS_CardinalityType
  <2>2. /\ Counts(total) /\ Counts(rules) /\ Counts(learned)
        /\ DOMAIN total = D /\ DOMAIN rules = D /\ DOMAIN learned = D
    BY <1>2, <2>1 DEF Counts
  <2> HIDE DEF total, rules, learned
  <2>3. SumFunction(rules) = SumFunction(total) + SumFunction(learned)
    BY <2>1, <2>2, SumAdds
  <2>4. SumFunction(total) \in Nat /\ SumFunction(learned) \in Nat
    BY <2>2, SumIsTally
  <2> QED BY <1>3, <2>3, <2>4
<1>5. ASSUME NEW b \in Bands PROVE quiet.kept_at[b] \in 0..quiet.flipping
  <2> DEFINE F == [k \in D |-> FlippingOf(system, Q(k))]
             A == [k \in D |-> KeptAt(system, Q(k), b)]
  <2>1. \A k \in D : A[k] \subseteq F[k] /\ IsFiniteSet(F[k])
    <3> SUFFICES ASSUME NEW k \in D PROVE A[k] \subseteq F[k] /\ IsFiniteSet(F[k])
      OBVIOUS
    <3>1. FlippingOf(system, Q(k)) \subseteq Q(k)
      BY DEF FlippingOf
    <3>2. IsFiniteSet(FlippingOf(system, Q(k)))
      BY <1>1, <3>1, FS_Subset
    <3> QED BY <1>1, <3>2
  <2>2. /\ SumFunction([k \in D |-> Cardinality(F[k])]) = quiet.flipping
        /\ SumFunction([k \in D |-> Cardinality(A[k])]) = quiet.kept_at[b]
    BY <1>3
  <2>3. DOMAIN F = D /\ DOMAIN A = D
    OBVIOUS
  <2> HIDE DEF F, A
  <2>4. /\ SumFunction([k \in D |-> Cardinality(A[k])]) <= SumFunction([k \in D |-> Cardinality(F[k])])
        /\ SumFunction([k \in D |-> Cardinality(A[k])]) \in Nat
        /\ SumFunction([k \in D |-> Cardinality(F[k])]) \in Nat
    BY <1>2, <2>1, <2>3, SizesGrow
  <2> QED BY <2>2, <2>4
<1> QED BY <1>3, <1>4, <1>5 DEF quiet

\* What a run publishes.
LEMMA EvaluateIs ==
    ASSUME NEW pairs, NEW system
    PROVE  LET run1 == Evaluate(pairs, system)
               p == ScoreManifests(pairs, system)
           IN  /\ run1.scenarios = p
               /\ run1.finding_level_recall.kept
                    = SumFunction([k \in DOMAIN p |-> p[k].learned.totals.true_positives])
               /\ run1.finding_level_recall.total
                    = SumFunction([k \in DOMAIN p |-> p[k].rules.totals.true_positives])
               /\ run1.dropped = UNION {{<<k, g>> : g \in p[k].dropped} : k \in DOMAIN p}
               /\ run1.misses["rules"] = SumFunction([k \in DOMAIN p |-> Cardinality(p[k].rules.misses)])
               /\ run1.misses["learned"]
                    = SumFunction([k \in DOMAIN p |-> Cardinality(p[k].learned.misses)])
               /\ run1.sensitivity.true_detections = Bucket(system, p, TRUE)
               /\ run1.sensitivity.suppressions = Bucket(system, p, FALSE)
  BY DEF Evaluate, FindingRecall, SumOver, CriticalitySensitivity

LEMMA MergedIs ==
    ASSUME NEW entries, NEW t
    PROVE  LET m == MergeByRule(entries)
           IN  t \in DOMAIN m =>
                 /\ m[t].kept = SumFunction([k \in DOMAIN entries |->
                        IF t \in DOMAIN entries[k] THEN entries[k][t].kept ELSE 0])
                 /\ m[t].total = SumFunction([k \in DOMAIN entries |->
                        IF t \in DOMAIN entries[k] THEN entries[k][t].total ELSE 0])
  BY DEF MergeByRule, SumOver, FindingRecall

LEMMA MergedOver ==
    ASSUME NEW entries
    PROVE  DOMAIN MergeByRule(entries) = UNION {DOMAIN entries[k] : k \in DOMAIN entries}
  BY DEF MergeByRule

\* Of every rule the run names, none of its findings is lost.
LEMMA RuleIsWhole ==
    ASSUME NEW pairs, NEW system, IsFiniteSet(DOMAIN pairs),
           \A k \in DOMAIN pairs : Scorable(pairs[k].manifest, pairs[k].report),
           NEW t \in DOMAIN Evaluate(pairs, system).by_rule
    PROVE  LET r == Evaluate(pairs, system).by_rule[t]
           IN  r.learned.kept + r.dropped = r.total
<1> DEFINE run1 == Evaluate(pairs, system)
           p == ScoreManifests(pairs, system)
           D == DOMAIN p
           r == [k \in D |-> p[k].rules_by_rule]
           l == [k \in D |-> p[k].by_rule]
           rules == MergeByRule(r)
           learned == MergeByRule(l)
           dropped == UNION {{<<k, g>> : g \in p[k].dropped} : k \in D}
<1>1. /\ DOMAIN run1.by_rule = DOMAIN rules
      /\ t \in DOMAIN rules =>
           /\ run1.by_rule[t].total = rules[t].total
           /\ run1.by_rule[t].learned = learned[t]
           /\ run1.by_rule[t].dropped = Cardinality({d \in run1.dropped : d[2].type = t})
  BY DEF Evaluate
<1>2. run1.dropped = dropped
  BY EvaluateIs
<1>3. /\ PublishedRun(p, system)
      /\ \A k \in D :
            Recalled(p[k], TrueOf(KeptBy(system, p[k].manifest, p[k].report), p[k].manifest.malicious),
                     TrueOf(p[k].report, p[k].manifest.malicious), t)
  BY ManifestsAre
<1> HIDE DEF p
<1>4. \A k \in D : DOMAIN r[k] = DOMAIN l[k]
  BY <1>3 DEF Recalled
<1>5. DOMAIN r = D /\ DOMAIN l = D /\ \A k \in D : r[k] = p[k].rules_by_rule /\ l[k] = p[k].by_rule
  OBVIOUS
<1>6. t \in DOMAIN run1.by_rule
  OBVIOUS
<1> HIDE DEF r, l, run1, dropped
<1>7. t \in DOMAIN rules /\ t \in DOMAIN learned
  <2>1. t \in UNION {DOMAIN r[k] : k \in DOMAIN r}
    BY <1>1, <1>6, MergedOver
  <2>2. t \in UNION {DOMAIN l[k] : k \in DOMAIN l}
    BY <1>4, <1>5, <2>1
  <2> QED BY <2>1, <2>2, MergedOver
<1>8. /\ rules[t].total = SumFunction([k \in D |-> IF t \in DOMAIN r[k] THEN r[k][t].total ELSE 0])
      /\ learned[t].kept = SumFunction([k \in D |-> IF t \in DOMAIN l[k] THEN l[k][t].kept ELSE 0])
  <2>1. rules[t].total = SumFunction([k \in DOMAIN r |-> IF t \in DOMAIN r[k] THEN r[k][t].total ELSE 0])
    BY <1>7, MergedIs
  <2>2. learned[t].kept = SumFunction([k \in DOMAIN l |-> IF t \in DOMAIN l[k] THEN l[k][t].kept ELSE 0])
    BY <1>7, MergedIs
  <2> HIDE DEF rules, learned
  <2> QED BY <1>5, <2>1, <2>2
<1> HIDE DEF rules, learned
<1>9. /\ rules[t].total = SumFunction([k \in D |->
            IF t \in DOMAIN p[k].rules_by_rule THEN p[k].rules_by_rule[t].total ELSE 0])
      /\ learned[t].kept = SumFunction([k \in D |->
            IF t \in DOMAIN p[k].by_rule THEN p[k].by_rule[t].kept ELSE 0])
  BY <1>8 DEF r, l
<1>10. SumFunction([k \in D |-> IF t \in DOMAIN p[k].by_rule THEN p[k].by_rule[t].kept ELSE 0])
         + Cardinality({d \in dropped : d[2].type = t})
         = SumFunction([k \in D |->
              IF t \in DOMAIN p[k].rules_by_rule THEN p[k].rules_by_rule[t].total ELSE 0])
  BY <1>3, NoneOfARuleIsLost DEF dropped
<1> QED BY <1>1, <1>2, <1>7, <1>9, <1>10 DEF run1

\* However many scenarios are scored, whichever system is judged.
LEMMA RunsAreWhole ==
    ASSUME NEW pairs, NEW system, IsFiniteSet(DOMAIN pairs),
           \A k \in DOMAIN pairs : Scorable(pairs[k].manifest, pairs[k].report)
    PROVE  RunIsWhole(Evaluate(pairs, system))
<1> DEFINE run1 == Evaluate(pairs, system)
           p == ScoreManifests(pairs, system)
           D == DOMAIN p
<1>1. PublishedRun(p, system) /\ \A k \in D : ScenarioIsWhole(p[k])
  BY ManifestsAre
<1>2. /\ run1.scenarios = p
      /\ run1.finding_level_recall.kept = SumFunction([k \in D |-> p[k].learned.totals.true_positives])
      /\ run1.finding_level_recall.total = SumFunction([k \in D |-> p[k].rules.totals.true_positives])
      /\ run1.dropped = UNION {{<<k, g>> : g \in p[k].dropped} : k \in D}
      /\ run1.misses["rules"] = SumFunction([k \in D |-> Cardinality(p[k].rules.misses)])
      /\ run1.misses["learned"] = SumFunction([k \in D |-> Cardinality(p[k].learned.misses)])
      /\ run1.sensitivity.true_detections = Bucket(system, p, TRUE)
      /\ run1.sensitivity.suppressions = Bucket(system, p, FALSE)
  BY EvaluateIs
<1>3. \A t \in DOMAIN run1.by_rule :
        run1.by_rule[t].learned.kept + run1.by_rule[t].dropped = run1.by_rule[t].total
  BY RuleIsWhole
<1>4. ASSUME NEW s \in {"rules", "learned"}
      PROVE  /\ run1.false_positives[s].total
                  = SumFunction([k \in D |-> Cardinality(p[k][s].false_positives)])
             /\ SumFunction(run1.false_positives[s].by_format) = run1.false_positives[s].total
  <2> DEFINE f == [k \in D |-> Cardinality(p[k][s].false_positives)]
             formats == {p[k].manifest.format : k \in D}
             Of(x) == {k \in D : p[k].manifest.format = x}
  <2>1. /\ run1.false_positives[s].total = SumFunction(f)
        /\ run1.false_positives[s].by_format = [x \in formats |->
              SumFunction([k \in Of(x) |-> Cardinality(p[k][s].false_positives)])]
    BY DEF Evaluate
  <2> HIDE DEF p, run1
  <2>2. \A x : [k \in Of(x) |-> Cardinality(p[k][s].false_positives)] = [k \in Of(x) |-> f[k]]
    OBVIOUS
  <2>3. \A k \in D : f[k] \in Nat
    <3> SUFFICES ASSUME NEW k \in D PROVE f[k] \in Nat
      OBVIOUS
    <3>1. IsFiniteSet(p[k].rules.false_positives) /\ IsFiniteSet(p[k].learned.false_positives)
      BY <1>1, JudgedIs
    <3>2. IsFiniteSet(p[k][s].false_positives)
      BY <3>1
    <3> QED BY <3>2, FS_CardinalityType
  <2>4. IsFiniteSet(D) /\ DOMAIN f = D
    BY <1>1 DEF PublishedRun
  <2> HIDE DEF f
  <2>5. SumFunction([x \in formats |-> SumFunction([k \in Of(x) |-> f[k]])]) = SumFunction(f)
    BY <2>3, <2>4, FormatsAddUp
  <2>6. run1.false_positives[s].by_format = [x \in formats |-> SumFunction([k \in Of(x) |-> f[k]])]
    BY <2>1, <2>2
  <2> QED BY <2>1, <2>5, <2>6 DEF f
<1>5. run1.misses["rules"] <= run1.misses["learned"]
  BY <1>1, <1>2, MissesAreOrdered
<1>6. run1.finding_level_recall.kept + Cardinality(run1.dropped) = run1.finding_level_recall.total
  BY <1>1, <1>2, NoneIsLost
<1>7. SensitivityIsOfThisRun(run1)
  <2> DEFINE kept == Bucket(system, p, TRUE)
             quiet == Bucket(system, p, FALSE)
             sound(e) == e.report \ (e.dropped \cup e.rules.false_positives)
  <2>1. /\ kept.total = SumFunction([k \in D |-> p[k].learned.totals.true_positives])
        /\ kept.robust + kept.flipping = kept.total
        /\ \A b \in Bands :
             /\ kept.kept_at[b] \in kept.robust..kept.total
             /\ kept.kept_at[b] >= SumFunction([k \in D |->
                   IF p[k].manifest.band = b THEN Cardinality(sound(p[k])) ELSE 0])
    BY <1>1, TrueDetectionsAre
  <2>2. /\ quiet.total = SumFunction([k \in D |-> Cardinality(p[k].rules.false_positives)])
                           - SumFunction([k \in D |-> Cardinality(p[k].learned.false_positives)])
        /\ quiet.robust + quiet.flipping = quiet.total
        /\ \A b \in Bands : quiet.kept_at[b] \in 0..quiet.flipping
    BY <1>1, SuppressionsAre
  <2>3. /\ run1.false_positives["rules"].total
             = SumFunction([k \in D |-> Cardinality(p[k].rules.false_positives)])
        /\ run1.false_positives["learned"].total
             = SumFunction([k \in D |-> Cardinality(p[k].learned.false_positives)])
    BY <1>4
  <2> HIDE DEF p, run1, kept, quiet
  <2>4. run1.sensitivity.true_detections = kept /\ run1.sensitivity.suppressions = quiet
    BY <1>2 DEF kept, quiet
  <2>5. /\ kept.total = run1.finding_level_recall.kept
        /\ quiet.total = run1.false_positives["rules"].total - run1.false_positives["learned"].total
    BY <1>2, <2>1, <2>2, <2>3
  <2>6. \A b \in Bands : kept.kept_at[b] >= SumOver(run1.scenarios, LAMBDA e :
            IF e.manifest.band = b THEN Cardinality(sound(e)) ELSE 0)
    BY <1>2, <2>1 DEF SumOver
  <2> QED BY <2>1, <2>2, <2>4, <2>5, <2>6 DEF SensitivityIsOfThisRun
<1> HIDE DEF p, run1
<1>8. /\ \A k \in DOMAIN run1.scenarios : ScenarioIsWhole(run1.scenarios[k])
      /\ \A s \in {"rules", "learned"} :
            SumFunction(run1.false_positives[s].by_format) = run1.false_positives[s].total
  BY <1>1, <1>2, <1>4
<1>9. RunIsWhole(run1)
  BY <1>3, <1>5, <1>6, <1>7, <1>8 DEF RunIsWhole
<1> QED BY <1>9 DEF run1

(* Whatever a learned system drops is published: of a benchmark of any log,  *)
(* under any two sets of malicious lines, tools/efficacy_harness.py's        *)
(* evaluate reports a run in which the true findings kept and the dropped    *)
(* ones that are listed make up those the rules made, in every scenario, in  *)
(* all and of every rule; no line the rules miss is covered and no alarm they*)
(* did not raise is raised by dropping; the false positives of the formats   *)
(* add up; and the criticality counterfactual is of this run's findings.     *)
THEOREM LossesArePublished == AdviceSpec => []LossIsPublished
<1>1. ASSUME AdviceInv PROVE LossIsPublished
  <2> SUFFICES ASSUME NEW system \in Systems, NEW pairs \in BenchmarksOf(log)
               PROVE  RunIsWhole(Evaluate(pairs, system))
    BY DEF LossIsPublished
  <2>1. log \in Seq(Lines)
    BY <1>1 DEF AdviceInv
  <2> DEFINE report == ReportFor(log)
  <2>2. IsFiniteSet(report) /\ IsFiniteSet(DOMAIN log)
    <3>1. DOMAIN log = 1..Len(log) /\ Len(log) \in Nat
      BY <2>1
    <3>2. IsFiniteSet(1..Len(log))
      BY <3>1, FS_Interval
    <3> QED BY <2>1, <3>1, <3>2, ReportForIs
  <2> HIDE DEF report
  <2>3. PICK m \in SUBSET DOMAIN log :
          pairs = <<[manifest |-> Manifest(m, "standard", "canonical"), report |-> report],
                    [manifest |-> Manifest(DOMAIN log \ m, "crown-jewel", "rfc3164"), report |-> report]>>
    BY DEF BenchmarksOf, PairsOf, report
  <2>4. IsFiniteSet(m) /\ IsFiniteSet(DOMAIN log \ m)
    BY <2>2, FS_Subset
  <2>5. DOMAIN pairs = 1..Len(pairs) /\ Len(pairs) \in Nat /\ DOMAIN pairs = {1, 2}
    BY <2>3
  <2>6. \A k \in DOMAIN pairs : Scorable(pairs[k].manifest, pairs[k].report)
    BY <2>2, <2>3, <2>4, <2>5 DEF Scorable, Manifest, Bands
  <2>7. IsFiniteSet(DOMAIN pairs)
    <3>1. \A n \in Nat : IsFiniteSet(1..n)
      BY FS_Interval
    <3> QED BY <2>5, <3>1
  <2> QED BY <2>6, <2>7, RunsAreWhole
<1> QED BY <1>1, AdviceInductive, PTL

-----------------------------------------------------------------------------
(* The incidents of a run.  Findings no gap parts are chained, an equivalence *)
(* on those with a stamp: the chains part the findings of an entity.         *)
Stamped(S) == \A f \in S : f.stamp \in Nat

ChainOf(S, f) == {g \in S : Chained(S, f, g)}

LEMMA ChainedIs ==
    ASSUME NEW S, Stamped(S)
    PROVE  /\ \A f \in S : Chained(S, f, f)
           /\ \A f, g \in S : Chained(S, f, g) => Chained(S, g, f)
           /\ \A f, g, h \in S : Chained(S, f, g) /\ Chained(S, g, h) => Chained(S, f, h)
<1> DEFINE Soon(s) == \E h \in S : h.stamp - s \in 1..Gap
           Astride(a, b, s) == (a <= s /\ s < b) \/ (b <= s /\ s < a)
           Link(f, g) == \A k \in S : Astride(f.stamp, g.stamp, k.stamp) => Soon(k.stamp)
<1>1. \A f, g : Chained(S, f, g) <=> Link(f, g)
  BY DEF Chained
<1>2. \A a, b, c, s \in Nat :
         ~Astride(a, a, s) /\ (Astride(b, a, s) => Astride(a, b, s)) /\ (Astride(a, c, s) => Astride(a, b, s) \/ Astride(b, c, s))
  OBVIOUS
<1>3. \A f \in S : f.stamp \in Nat
  BY DEF Stamped
<1> HIDE DEF Soon, Astride
<1>4. \A f \in S : Link(f, f)
  BY <1>2, <1>3
<1>5. \A f, g \in S : Link(f, g) => Link(g, f)
  BY <1>2, <1>3
<1>6. \A f, g, h \in S : Link(f, g) /\ Link(g, h) => Link(f, h)
  BY <1>2, <1>3
<1> HIDE DEF Link
<1> QED BY <1>1, <1>4, <1>5, <1>6

LEMMA BetweenIs ==
    ASSUME NEW S, Stamped(S), NEW f \in S, NEW g \in S, NEW h \in S,
           Chained(S, f, h), f.stamp <= g.stamp, g.stamp <= h.stamp
    PROVE  Chained(S, f, g)
<1> DEFINE Soon(s) == \E k \in S : k.stamp - s \in 1..Gap
<1>1. SUFFICES ASSUME NEW k \in S,
                      (f.stamp <= k.stamp /\ k.stamp < g.stamp) \/ (g.stamp <= k.stamp /\ k.stamp < f.stamp)
               PROVE  Soon(k.stamp)
  BY DEF Chained
<1>2. f.stamp \in Nat /\ g.stamp \in Nat /\ h.stamp \in Nat /\ k.stamp \in Nat
  BY DEF Stamped
<1>3. f.stamp <= k.stamp /\ k.stamp < h.stamp
  BY <1>1, <1>2
<1> QED BY <1>3 DEF Chained

LEMMA SameChain ==
    ASSUME NEW S, Stamped(S), NEW f \in S, NEW g \in S, Chained(S, f, g)
    PROVE  ChainOf(S, f) = ChainOf(S, g)
<1>1. Chained(S, g, f)
  BY ChainedIs
<1>2. \A h \in S : Chained(S, f, h) <=> Chained(S, g, h)
  BY <1>1, ChainedIs
<1> QED BY <1>2 DEF ChainOf

LEMMA FirstChain ==
    ASSUME NEW S, Stamped(S), S # {}
    PROVE  \E m \in S : {f \in S : \A g \in S : Chained(S, f, g) \/ f.stamp < g.stamp} = ChainOf(S, m)
<1> DEFINE T == {f.stamp : f \in S}
<1>1. SetMin(T) \in T /\ \A y \in T : SetMin(T) <= y
  <2>1. T \in SUBSET Nat /\ T # {}
    BY DEF Stamped
  <2> HIDE DEF T
  <2> QED BY <2>1, LeastIs
<1>2. PICK m \in S : \A f \in S : m.stamp <= f.stamp
  BY <1>1
<1>3. \A f \in S : f.stamp \in Nat
  BY DEF Stamped
<1>4. ASSUME NEW f \in S, Chained(S, m, f), NEW g \in S PROVE Chained(S, f, g) \/ f.stamp < g.stamp
  <2> SUFFICES ASSUME ~(f.stamp < g.stamp) PROVE Chained(S, f, g)
    OBVIOUS
  <2>1. m.stamp <= g.stamp /\ g.stamp <= f.stamp
    BY <1>2, <1>3
  <2>2. Chained(S, m, g)
    BY <1>4, <2>1, BetweenIs
  <2>3. Chained(S, f, m)
    BY <1>4, ChainedIs
  <2> QED BY <2>2, <2>3, ChainedIs
<1>5. ASSUME NEW f \in S, \A g \in S : Chained(S, f, g) \/ f.stamp < g.stamp PROVE Chained(S, m, f)
  <2>1. ~(f.stamp < m.stamp)
    BY <1>2, <1>3
  <2>2. Chained(S, f, m)
    BY <1>5, <2>1
  <2> QED BY <2>2, ChainedIs
<1> QED BY <1>4, <1>5 DEF ChainOf

Parts(P, M) ==
    /\ \A c \in P : c # {} /\ \A f \in c : f \in M
    /\ \A f \in M : \E c \in P : f \in c
    /\ \A c, d \in P : \A f \in M : f \in c /\ f \in d => c = d

\* No silence is longer than a gap.
Unbroken(c) ==
    \A f, g \in Timed(c) : g.stamp - f.stamp > Gap => \E h \in Timed(c) : h.stamp - f.stamp \in 1..Gap

LEMMA ChainIsUnbroken ==
    ASSUME NEW S, Stamped(S), NEW m \in S, NEW c, Timed(c) = ChainOf(S, m)
    PROVE  Unbroken(c)
<1> SUFFICES ASSUME NEW f \in ChainOf(S, m), NEW g \in ChainOf(S, m), g.stamp - f.stamp > Gap
             PROVE  \E h \in ChainOf(S, m) : h.stamp - f.stamp \in 1..Gap
  BY DEF Unbroken
<1>1. f \in S /\ g \in S /\ Chained(S, m, f) /\ Chained(S, m, g) /\ Chained(S, f, m)
  BY ChainedIs DEF ChainOf
<1>2. Chained(S, f, g)
  BY <1>1, ChainedIs
<1>3. f.stamp \in Nat /\ g.stamp \in Nat /\ Gap \in Nat
  BY <1>1, EligibilityAssumption DEF Stamped, EligibilityAssumption
<1>4. f.stamp <= f.stamp /\ f.stamp < g.stamp
  BY <1>3
<1>5. PICK h \in S : h.stamp - f.stamp \in 1..Gap
  BY <1>1, <1>2, <1>4 DEF Chained
<1>6. h.stamp \in Nat /\ f.stamp <= h.stamp /\ h.stamp <= g.stamp
  <2>1. h.stamp \in Nat
    BY DEF Stamped
  <2> QED BY <1>3, <1>5, <2>1
<1>7. Chained(S, f, h)
  BY <1>1, <1>2, <1>6, BetweenIs
<1>8. Chained(S, m, h)
  BY <1>1, <1>7, ChainedIs
<1> QED BY <1>5, <1>8 DEF ChainOf

LEMMA ChainsPart ==
    ASSUME NEW M, Stamped(Timed(M)), M # {}
    PROVE  Parts(Chains(M), M) /\ \A c \in Chains(M) : Unbroken(c)
<1> DEFINE S == Timed(M)
           first == {f \in S : \A g \in S : Chained(S, f, g) \/ f.stamp < g.stamp}
           Joined(c) == IF c = first THEN c \cup (M \ S) ELSE c
           C == Chains(M)
<1>1. C = IF S = {} THEN {M} ELSE {Joined(ChainOf(S, f)) : f \in S}
  BY Zenon DEF Chains, ChainOf
<1>2. /\ \A f \in S : f \in M /\ f.stamp # NoTime
      /\ \A f \in M \ S : f.stamp = NoTime
  BY DEF Timed
<1>3. CASE S = {}
  <2>1. C = {M} /\ Timed(M) = {}
    BY <1>1, <1>3
  <2> HIDE DEF C
  <2> QED BY <2>1 DEF Parts, Unbroken, C
<1>4. CASE S # {}
  <2>1. PICK m \in S : first = ChainOf(S, m)
    BY <1>4, FirstChain
  <2>2. C = {Joined(ChainOf(S, f)) : f \in S}
    BY <1>1, <1>4
  <2> HIDE DEF first, C, S
  <2>3. ASSUME NEW f \in S
        PROVE  /\ f \in ChainOf(S, f) /\ \A g \in ChainOf(S, f) : g \in S
               /\ \A h \in S : h \in Joined(ChainOf(S, f)) <=> Chained(S, f, h)
               /\ \A h \in M : h \notin S => (h \in Joined(ChainOf(S, f)) <=> ChainOf(S, f) = first)
    BY ChainedIs DEF ChainOf, S
  <2>4. ASSUME NEW f \in S PROVE Timed(Joined(ChainOf(S, f))) = ChainOf(S, f)
    BY <1>2, <2>3 DEF Timed
  <2>5. ASSUME NEW f \in S, NEW g \in S, NEW h \in M,
               h \in Joined(ChainOf(S, f)), h \in Joined(ChainOf(S, g))
        PROVE  Joined(ChainOf(S, f)) = Joined(ChainOf(S, g))
    <3>1. CASE h \in S
      <4>1. Chained(S, f, h) /\ Chained(S, g, h)
        BY <2>3, <2>5, <3>1
      <4>2. Chained(S, h, g) /\ Chained(S, f, g)
        BY <3>1, <4>1, ChainedIs DEF S
      <4> QED BY <4>2, SameChain DEF S
    <3>2. CASE h \notin S
      BY <2>3, <2>5, <3>2
    <3> QED BY <3>1, <3>2
  <2>6. \A c \in C : c # {} /\ \A f \in c : f \in M
    <3> SUFFICES ASSUME NEW f \in S
                 PROVE  Joined(ChainOf(S, f)) # {} /\ \A g \in Joined(ChainOf(S, f)) : g \in M
      BY <2>2
    <3> QED BY <1>2, <2>3
  <2>7. \A f \in M : \E c \in C : f \in c
    <3> SUFFICES ASSUME NEW f \in M PROVE \E g \in S : f \in Joined(ChainOf(S, g))
      BY <2>2
    <3>1. CASE f \in S
      BY <2>3, <3>1
    <3>2. CASE f \notin S
      BY <2>1, <2>3, <3>2
    <3> QED BY <3>1, <3>2
  <2>8. \A c, d \in C : \A f \in M : f \in c /\ f \in d => c = d
    <3> SUFFICES ASSUME NEW c \in C, NEW d \in C, NEW h \in M, h \in c, h \in d PROVE c = d
      OBVIOUS
    <3>1. PICK f \in S : c = Joined(ChainOf(S, f))
      BY <2>2
    <3>2. PICK g \in S : d = Joined(ChainOf(S, g))
      BY <2>2
    <3> QED BY <2>5, <3>1, <3>2
  <2>9. \A c \in C : Unbroken(c)
    <3> SUFFICES ASSUME NEW f \in S PROVE Unbroken(Joined(ChainOf(S, f)))
      BY <2>2
    <3> QED BY <2>4, ChainIsUnbroken DEF S
  <2> QED BY <2>6, <2>7, <2>8, <2>9 DEF Parts, C
<1> QED BY <1>3, <1>4

\* An incident keeps no longer silence than a gap, or is low.
Quiet(c) == \A f \in c : f.sev \in {"low", "info"}

LEMMA RolledUpPart ==
    ASSUME NEW P, NEW M, Parts(P, M), \A c \in P : Unbroken(c)
    PROVE  Parts(RolledUp(P), M) /\ \A c \in RolledUp(P) : Unbroken(c) \/ Quiet(c)
<1> DEFINE lone == {c \in P : Cardinality(c) = 1 /\ \A f \in c : f.sev \in {"low", "info"}}
           rolled == UNION lone
           R == RolledUp(P)
<1>1. R = IF Cardinality(lone) > 1 THEN (P \ lone) \cup {rolled} ELSE P
  BY Zenon DEF RolledUp
<1>2. CASE R = P
  BY <1>2
<1>3. CASE R # P
  <2>1. R = (P \ lone) \cup {rolled} /\ lone # {}
    <3>1. Cardinality(lone) > 1
      BY <1>1, <1>3
    <3>2. lone # {}
      <4> HIDE DEF lone
      <4> QED BY <3>1, FS_EmptySet
    <3> QED BY <1>1, <3>1, <3>2
  <2>2. \A c \in lone : c \in P /\ Quiet(c)
    BY DEF Quiet
  <2>3. \A f : f \in rolled <=> \E c \in lone : f \in c
    OBVIOUS
  <2> HIDE DEF lone, rolled, R
  <2>4. Quiet(rolled)
    BY <2>2, <2>3 DEF Quiet
  <2>5. \A c \in R : c # {} /\ \A f \in c : f \in M
    BY <2>1, <2>2, <2>3 DEF Parts
  <2>6. \A f \in M : \E c \in R : f \in c
    BY <2>1, <2>2, <2>3 DEF Parts
  <2>7. \A c, d \in R : \A f \in M : f \in c /\ f \in d => c = d
    <3>1. ASSUME NEW c \in P \ lone, NEW f \in M, f \in c PROVE f \notin rolled
      BY <2>2, <2>3, <3>1 DEF Parts
    <3> QED BY <2>1, <3>1 DEF Parts
  <2>8. \A c \in R : Unbroken(c) \/ Quiet(c)
    BY <2>1, <2>4
  <2> QED BY <2>5, <2>6, <2>7, <2>8 DEF Parts, R
<1> QED BY <1>2, <1>3

-----------------------------------------------------------------------------
(* The timeline of a finding is of lines of the log, and its stamp one of    *)
(* theirs.                                                                   *)
LEMMA InFileIs ==
    ASSUME NEW U, IsFiniteSet(U), U \subseteq Nat
    PROVE  /\ InFile(U) \in Seq(U) /\ DOMAIN InFile(U) = 1..Cardinality(U) /\ Cardinality(U) \in Nat
           /\ \A j, k \in DOMAIN InFile(U) : InFile(U)[j] = InFile(U)[k] => j = k
<1> DEFINE l == [i \in U |-> [at |-> 0]]
           n == Cardinality(U)
           s == Sorted(l, U)
<1>1. \A i \in U : l[i].at = 0 /\ i \in Nat
  OBVIOUS
<1>2. 0 \in Nat /\ 0 # NoTime
  BY DetectionAssumption DEF DetectionAssumption
<1>3. \A i, j \in U : Before(l, i, j) <=> i < j
  BY <1>1 DEF Before
<1> HIDE DEF l
<1>4. {i \in U : l[i].at # NoTime} = U
  BY <1>1, <1>2
<1>5. /\ n \in Nat /\ s \in Seq(U) /\ Len(s) = n
      /\ \A k \in 1..n : Cardinality({i \in U : Before(l, i, s[k])}) = k - 1
  <2>1. \A i \in U : l[i].at \in Nat \cup {NoTime}
    BY <1>1
  <2> DEFINE T == {i \in U : l[i].at # NoTime}
  <2>2. /\ Cardinality(T) \in Nat /\ s \in Seq(T) /\ Len(s) = Cardinality(T)
        /\ \A k \in 1..Cardinality(T) : Cardinality({i \in T : Before(l, i, s[k])}) = k - 1
    BY <2>1, SortedIs
  <2>3. T = U
    BY <1>4
  <2> HIDE DEF T, s
  <2> QED BY <2>2, <2>3
<1> HIDE DEF s
<1>6. \A k \in 1..n : s[k] \in U /\ Cardinality({i \in U : i < s[k]}) = k - 1
  <2> SUFFICES ASSUME NEW k \in 1..n PROVE s[k] \in U /\ Cardinality({i \in U : i < s[k]}) = k - 1
    OBVIOUS
  <2>1. s[k] \in U
    BY <1>5
  <2>2. {i \in U : Before(l, i, s[k])} = {i \in U : i < s[k]}
    BY <1>3, <2>1
  <2> QED BY <1>5, <2>1, <2>2
<1> DEFINE Under(j) == Cardinality({i \in U : i < j})
<1>7. InFile(U) = [k \in 1..n |-> CHOOSE j \in U : Under(j) = k - 1]
  BY DEF InFile
<1>8. \A k \in 1..n : \E j \in U : Under(j) = k - 1
  BY <1>6
<1> HIDE DEF Under, n
<1>9. \A k \in 1..n : (CHOOSE j \in U : Under(j) = k - 1) \in U
  BY <1>8
<1>10. InFile(U) \in [1..n -> U]
  BY <1>7, <1>9
<1>11. \A k \in 1..n : Under(InFile(U)[k]) = k - 1
  BY <1>7, <1>8
<1>12. \A j, k \in 1..n : InFile(U)[j] = InFile(U)[k] => j = k
  <2> SUFFICES ASSUME NEW j \in 1..n, NEW k \in 1..n, InFile(U)[j] = InFile(U)[k] PROVE j = k
    OBVIOUS
  <2>1. j - 1 = k - 1
    BY <1>11
  <2> QED BY <1>5, <2>1
<1>13. InFile(U) \in Seq(U)
  BY <1>5, <1>10
<1> QED BY <1>5, <1>10, <1>12, <1>13 DEF n

LEMMA SortedLines ==
    ASSUME NEW l \in Seq(Lines), NEW S, S \subseteq DOMAIN l
    PROVE  Sorted(l, S) \in Seq(S)
<1>1. IsFiniteSet(S) /\ S \subseteq Nat /\ \A i \in S : l[i].at \in Nat \cup {NoTime}
  BY LinesOfLog, FS_Subset
<1>2. Sorted(l, S) \in Seq({i \in S : l[i].at # NoTime})
  BY <1>1, SortedIs
<1> DEFINE T == {i \in S : l[i].at # NoTime}
<1>3. T \subseteq S
  OBVIOUS
<1> HIDE DEF T
<1>4. Sorted(l, S) \in Seq(T)
  BY <1>2 DEF T
<1> QED BY <1>3, <1>4

LEMMA ByTimeIs ==
    ASSUME NEW l \in Seq(Lines), NEW S, S \subseteq DOMAIN l
    PROVE  ByTime(l, S) \in Seq(S) /\ (S # {} => ByTime(l, S) # <<>>)
<1> DEFINE U == {i \in S : l[i].at = NoTime}
<1>1. Sorted(l, S) \in Seq(S)
  BY SortedLines
<1>2. IsFiniteSet(U) /\ U \subseteq Nat
  BY LinesOfLog, FS_Subset
<1>3. ByTime(l, S) = Sorted(l, S) \o InFile(U)
  BY DEF ByTime
<1>4. U \subseteq S
  OBVIOUS
<1>5. ASSUME S # {} PROVE Len(Sorted(l, S)) > 0 \/ Len(InFile(U)) > 0
  <2>1. PICK i \in S : TRUE
    BY <1>5
  <2>2. CASE i \in U
    <3> HIDE DEF U
    <3>1. Cardinality(U) \in Nat /\ Cardinality(U) # 0
      BY <1>2, <2>2, FS_EmptySet, FS_CardinalityType
    <3>2. Len(InFile(U)) = Cardinality(U)
      BY <3>1 DEF InFile
    <3> QED BY <3>1, <3>2
  <2>3. CASE i \notin U
    <3> DEFINE T == {j \in S : l[j].at # NoTime}
    <3>1. i \in T
      BY <2>3
    <3>2. IsFiniteSet(S) /\ S \subseteq Nat /\ \A j \in S : l[j].at \in Nat \cup {NoTime}
      BY LinesOfLog, FS_Subset
    <3>3. IsFiniteSet(T) /\ Cardinality(T) \in Nat /\ Len(Sorted(l, S)) = Cardinality(T)
      BY <3>2, SortedIs
    <3> HIDE DEF T
    <3>4. Cardinality(T) # 0
      BY <3>1, <3>3, FS_EmptySet
    <3> QED BY <3>3, <3>4
  <2> QED BY <2>2, <2>3
<1> HIDE DEF U
<1>6. InFile(U) \in Seq(S)
  <2>1. InFile(U) \in Seq(U)
    BY <1>2, InFileIs
  <2> QED BY <1>4, <2>1
<1>7. ByTime(l, S) \in Seq(S) /\ Len(ByTime(l, S)) = Len(Sorted(l, S)) + Len(InFile(U))
  BY <1>1, <1>3, <1>6
<1> QED BY <1>1, <1>5, <1>6, <1>7

AuthTypes == {"auth_bruteforce", "auth_bruteforce_success"}

LEMMA BruteForceOf ==
    ASSUME NEW l \in Seq(Lines), NEW f \in BruteForce(l)
    PROVE  /\ f.type \in AuthTypes /\ f.about \in IPv4 /\ f.about # Unknown
           /\ f.on = Fails(l, f.about) /\ f.on # {} /\ f.on \subseteq DOMAIN l
           /\ \A g \in BruteForce(l) : g.about = f.about => g = f
<1> DEFINE S == {x \in IPv4 : Cardinality(Fails(l, x)) >= MinFailures}
           Of(ip) == LET times == Stamps(l, Fails(l, ip))
                         quick == times = <<>> \/ Peak(times) >= MinFailures
                     IN  IF Compromises(l, ip) # {}
                         THEN Finding("auth_bruteforce_success", "critical", ip, Fails(l, ip))
                         ELSE Finding("auth_bruteforce", IF quick THEN "high" ELSE "medium", ip, Fails(l, ip))
<1>1. BruteForce(l) = {Of(ip) : ip \in S}
  BY Zenon DEF BruteForce
<1>2. \A ip : Of(ip).about = ip /\ Of(ip).on = Fails(l, ip) /\ Of(ip).type \in AuthTypes
  BY DEF Finding, AuthTypes
<1> HIDE DEF Of
<1>3. PICK ip \in S : f = Of(ip)
  BY <1>1
<1>4. f.about = ip /\ f.on = Fails(l, ip) /\ f.type \in AuthTypes
  BY <1>2, <1>3
<1>5. ip \in IPv4 /\ ip # Unknown /\ Cardinality(Fails(l, ip)) >= MinFailures
  BY DetectionAssumption DEF DetectionAssumption
<1>6. Fails(l, ip) # {}
  <2>1. Cardinality(Fails(l, ip)) # 0
    BY <1>5, FailsAre, DetectionAssumption DEF DetectionAssumption
  <2> QED BY <2>1, FS_EmptySet
<1>7. Fails(l, ip) \subseteq DOMAIN l
  BY FailsAre
<1>8. \A g \in BruteForce(l) : g.about = ip => g = Of(ip)
  BY <1>1, <1>2
<1> QED BY <1>3, <1>4, <1>5, <1>6, <1>7, <1>8

LEMMA BreakInOf ==
    ASSUME NEW l \in Seq(Lines), NEW f \in BreakIns(l)
    PROVE  /\ f.type = "possible_break_in" /\ f.about # Unknown
           /\ f.on = {i \in DOMAIN l : "break_in" \in l[i].text /\ l[i].ip = f.about}
<1>1. PICK ip : /\ ip # Unknown
                /\ f = Finding("possible_break_in", "medium", ip,
                               {i \in DOMAIN l : "break_in" \in l[i].text /\ l[i].ip = ip})
  BY Zenon DEF BreakIns
<1>2. f.type = "possible_break_in" /\ f.about = ip
  BY <1>1 DEF Finding
<1>3. f.on = {i \in DOMAIN l : "break_in" \in l[i].text /\ l[i].ip = ip}
  BY <1>1 DEF Finding
<1> QED BY <1>1, <1>2, <1>3

LEMMA MilestonesAre ==
    ASSUME NEW D, NEW s \in Seq(D), NEW t \in Seq(D)
    PROVE  /\ Milestones(s, t) \in Seq(D) /\ FirstAndLast(s) \in Seq(D) /\ Earliest(s) \in Seq(D)
           /\ s # <<>> => FirstAndLast(s) # <<>>
<1>1. MinFailures \in Nat \ {0} /\ Len(s) \in Nat
  BY DetectionAssumption DEF DetectionAssumption
<1>2. s # <<>> => Len(s) > 0 /\ Head(s) \in D /\ s[Len(s)] \in D
  OBVIOUS
<1>3. Len(s) >= MinFailures => s[MinFailures] \in D
  BY <1>1
<1>4. \A a, b, c \in D : <<a>> \in Seq(D) /\ <<a, b>> \in Seq(D) /\ <<a, b, c>> \in Seq(D)
  OBVIOUS
<1>5. \A u \in Seq(D) : u \o t \in Seq(D)
  OBVIOUS
<1>6. FirstAndLast(s) \in Seq(D) /\ (s # <<>> => FirstAndLast(s) # <<>>)
  BY <1>1, <1>2, <1>4 DEF FirstAndLast
<1>7. Earliest(s) \in Seq(D)
  BY <1>2, <1>4 DEF Earliest
<1>8. Milestones(s, t) \in Seq(D)
  <2>1. CASE s = <<>>
    <3> DEFINE b == <<Head(s)>> \o t
               c == <<Head(s), s[MinFailures]>> \o t
               d == <<Head(s), s[MinFailures], s[Len(s)]>> \o t
    <3>1. Milestones(s, t) =
            CASE s = <<>> -> <<>>
              [] Len(s) \in 1..MinFailures - 1 -> b
              [] Len(s) = MinFailures -> c
              [] OTHER -> d
      BY Zenon DEF Milestones
    <3> HIDE DEF b, c, d
    <3>2. Len(s) = 0
      BY <2>1
    <3>3. ~(Len(s) = MinFailures) /\ Len(s) \notin 1..MinFailures - 1
      BY <1>1, <3>2
    <3> QED BY <2>1, <3>1, <3>3
  <2>2. CASE s # <<>> /\ Len(s) < MinFailures
    <3>1. Milestones(s, t) = <<Head(s)>> \o t
      BY <1>1, <2>2 DEF Milestones
    <3> QED BY <1>2, <1>4, <1>5, <2>2, <3>1
  <2>3. CASE s # <<>> /\ Len(s) = MinFailures
    <3>1. Milestones(s, t) = <<Head(s), s[MinFailures]>> \o t
      BY <1>1, <2>3 DEF Milestones
    <3> QED BY <1>1, <1>2, <1>3, <1>4, <1>5, <2>3, <3>1
  <2>4. CASE s # <<>> /\ Len(s) > MinFailures
    <3>1. Milestones(s, t) = <<Head(s), s[MinFailures], s[Len(s)]>> \o t
      BY <1>1, <2>4 DEF Milestones
    <3> QED BY <1>1, <1>2, <1>3, <1>4, <1>5, <2>4, <3>1
  <2> QED BY <1>1, <2>1, <2>2, <2>3, <2>4
<1> QED BY <1>6, <1>7, <1>8

LEMMA RecordIs ==
    ASSUME NEW l \in Seq(Lines), NEW r
    PROVE  /\ RecordOf(l, r) \in Seq(DOMAIN l)
           /\ RecordOf(l, r) # <<>> => Len(RecordOf(l, r)) = 1 /\ l[RecordOf(l, r)[1]] = r
           /\ (\E i \in Kept(l) : l[i] = r) => RecordOf(l, r) # <<>>
<1> DEFINE same == {i \in Kept(l) : l[i] = r}
<1>1. RecordOf(l, r) = IF same = {} THEN <<>> ELSE <<SetMin(same)>>
  BY DEF RecordOf
<1>2. same \in SUBSET Nat /\ same \subseteq DOMAIN l
  BY KeptIs, LinesOfLog
<1>3. ASSUME same # {} PROVE SetMin(same) \in same
  <2> HIDE DEF same
  <2> QED BY <1>2, <1>3, LeastIs
<1>4. same # {} => SetMin(same) \in DOMAIN l /\ l[SetMin(same)] = r
  BY <1>2, <1>3
<1>5. (\E i \in Kept(l) : l[i] = r) => same # {}
  OBVIOUS
<1> HIDE DEF same
<1> DEFINE D == DOMAIN l
<1>6. \A a \in D : <<a>> \in Seq(D) /\ <<a>> # <<>> /\ Len(<<a>>) = 1 /\ <<a>>[1] = a
  OBVIOUS
<1>7. <<>> \in Seq(D)
  OBVIOUS
<1> HIDE DEF D
<1>8. same # {} => SetMin(same) \in D
  BY <1>4 DEF D
<1>9. RecordOf(l, r) \in Seq(D)
  BY <1>1, <1>6, <1>7, <1>8
<1> QED BY <1>1, <1>4, <1>5, <1>6, <1>8, <1>9 DEF D

LEMMA TimelineCases ==
    ASSUME NEW l, NEW f
    PROVE  /\ f.type \in AuthTypes => Timeline(l, f) = AuthEvents(l, f)
           /\ f.type = "error_rate_spike" => Timeline(l, f) = FirstAndLast(Sorted(l, f.on))
           /\ f.type = "possible_break_in" => Timeline(l, f) = FirstAndLast(ByTime(l, f.on \cap Kept(l)))
           /\ f.type \notin AuthTypes \cup {"error_rate_spike", "possible_break_in"} =>
                 Timeline(l, f) = <<>> \/ Timeline(l, f) = RecordOf(l, l[SetMin(f.on)])
<1> DEFINE a == AuthEvents(l, f)
           b == FirstAndLast(Sorted(l, f.on))
           c == FirstAndLast(ByTime(l, f.on \cap Kept(l)))
           d == RecordOf(l, l[SetMin(f.on)])
           n == <<>>
<1>1. Timeline(l, f) =
        CASE f.type \in AuthTypes -> a
          [] f.type = "error_rate_spike" -> b
          [] f.type = "possible_break_in" -> c
          [] f.type \in Counted -> n
          [] OTHER -> d
  BY Zenon DEF Timeline, AuthTypes
<1> HIDE DEF a, b, c, d, n
<1>2. f.type = "error_rate_spike" => f.type \notin AuthTypes /\ f.type # "possible_break_in"
  BY DEF AuthTypes
<1>3. f.type = "possible_break_in" => f.type \notin AuthTypes
  BY DEF AuthTypes
<1>5. f.type \in AuthTypes \cup {"error_rate_spike", "possible_break_in"} => f.type \notin Counted
  BY DetectionAssumption DEF AuthTypes, Counted, DetectionAssumption
<1>4. /\ f.type \in AuthTypes => Timeline(l, f) = a
      /\ f.type = "error_rate_spike" => Timeline(l, f) = b
      /\ f.type = "possible_break_in" => Timeline(l, f) = c
      /\ f.type \notin AuthTypes \cup {"error_rate_spike", "possible_break_in"} =>
            Timeline(l, f) = n \/ Timeline(l, f) = d
  BY <1>1, <1>2, <1>3, <1>5
<1> QED BY <1>4, Zenon DEF a, b, c, d, n

LEMMA TimelineIs ==
    ASSUME NEW l \in Seq(Lines), NEW f \in Findings(l)
    PROVE  Timeline(l, f) \in Seq(DOMAIN l)
<1> DEFINE D == DOMAIN l
<1>1. \A S : S \subseteq D => Sorted(l, S) \in Seq(D) /\ ByTime(l, S) \in Seq(D)
  <2> SUFFICES ASSUME NEW S, S \subseteq D PROVE Sorted(l, S) \in Seq(D) /\ ByTime(l, S) \in Seq(D)
    OBVIOUS
  <2>1. Sorted(l, S) \in Seq(S) /\ ByTime(l, S) \in Seq(S)
    BY SortedLines, ByTimeIs
  <2> HIDE DEF D
  <2> QED BY <2>1
<1>2. f.type \in AuthTypes => Timeline(l, f) \in Seq(D)
  <2>1. Timeline(l, f) = AuthEvents(l, f) \/ f.type \notin AuthTypes
    BY TimelineCases
  <2>2. Compromises(l, f.about) \subseteq D /\ Fails(l, f.about) \subseteq D
    BY KeptIs DEF Compromises, Fails
  <2>3. Sorted(l, Compromises(l, f.about)) \in Seq(D) /\ Sorted(l, Fails(l, f.about)) \in Seq(D)
    BY <1>1, <2>2
  <2> HIDE DEF D
  <2>4. Earliest(Sorted(l, Compromises(l, f.about))) \in Seq(D)
    BY <2>3, MilestonesAre
  <2>6. <<>> \in Seq(D)
    OBVIOUS
  <2>5. \A t \in Seq(D) : Milestones(Sorted(l, Fails(l, f.about)), t) \in Seq(D)
    BY <2>3, MilestonesAre
  <2> QED BY <2>1, <2>4, <2>5, <2>6 DEF AuthEvents
<1>3. f.type = "error_rate_spike" => Timeline(l, f) \in Seq(D)
  <2> SUFFICES ASSUME f.type = "error_rate_spike" PROVE Timeline(l, f) \in Seq(D)
    OBVIOUS
  <2>1. Plain(l, f)
    BY FindingsAre, BruteForceOf, BreakInOf DEF AuthTypes
  <2>2. f.on \subseteq D
    BY <2>1 DEF Plain
  <2>3. Sorted(l, f.on) \in Seq(D)
    BY <1>1, <2>2
  <2>4. Timeline(l, f) = FirstAndLast(Sorted(l, f.on))
    BY TimelineCases
  <2> HIDE DEF D
  <2> QED BY <2>3, <2>4, MilestonesAre
<1>4. f.type = "possible_break_in" => Timeline(l, f) \in Seq(D)
  <2> SUFFICES ASSUME f.type = "possible_break_in" PROVE Timeline(l, f) \in Seq(D)
    OBVIOUS
  <2>1. f.on \cap Kept(l) \subseteq D
    BY KeptIs
  <2>2. ByTime(l, f.on \cap Kept(l)) \in Seq(D)
    BY <1>1, <2>1
  <2>3. Timeline(l, f) = FirstAndLast(ByTime(l, f.on \cap Kept(l)))
    BY TimelineCases
  <2> HIDE DEF D
  <2> QED BY <2>2, <2>3, MilestonesAre
<1>5. f.type \notin AuthTypes \cup {"error_rate_spike", "possible_break_in"} => Timeline(l, f) \in Seq(D)
  <2>1. RecordOf(l, l[SetMin(f.on)]) \in Seq(D)
    BY RecordIs
  <2>2. <<>> \in Seq(D)
    OBVIOUS
  <2> HIDE DEF D
  <2> QED BY <2>1, <2>2, TimelineCases
<1> QED BY <1>2, <1>3, <1>4, <1>5

-----------------------------------------------------------------------------
(* What a finding of the console was made from.                              *)
FromReport(f, k) ==
    LET g == run.report[k]
    IN  /\ k \in DOMAIN run.report /\ f = AdaptedFinding(run, g, k, Shown(run, g))
        /\ \/ \E x \in Findings(run.log) : g = Reported(run.log, x)
           \/ \E y \in run.said : g = ByModel(y)

Loaded ==
    /\ run # NoRun /\ run.log \in Seq(Lines) /\ IsFiniteSet(run.said)
    /\ run.report = ReportOf(run.log, run.said) /\ run.readable \in BOOLEAN
    /\ run.events = Events(run) /\ run.findings = Adapted(run)
    /\ \A n \in DOMAIN run.org : run.org[n] \in Levels
    /\ run.incidents = Derived(run.findings, run.org)

LEMMA RunIsLoaded ==
    ASSUME RunOK(run), run.findings # {}
    PROVE  Loaded
  BY DEF RunOK, NoRun, Loaded

LEMMA FindingFrom ==
    ASSUME Loaded, NEW f \in run.findings
    PROVE  \E k : FromReport(f, k)
<1>1. PICK k \in DOMAIN run.report : f = AdaptedFinding(run, run.report[k], k, Shown(run, run.report[k]))
  BY DEF Loaded, Adapted
<1> DEFINE V == UNION {{Reported(run.log, x) : x \in Findings(run.log)}, {ByModel(m) : m \in run.said}}
<1>2. run.report \in Seq(V)
  BY ReportIs DEF Loaded
<1> HIDE DEF V
<1>3. run.report[k] \in V
  BY <1>2
<1>4. \/ \E x \in Findings(run.log) : run.report[k] = Reported(run.log, x)
      \/ \E y \in run.said : run.report[k] = ByModel(y)
  BY <1>3 DEF V
<1> QED BY <1>1, <1>4 DEF FromReport

LEMMA StampIs ==
    ASSUME Loaded, NEW f \in run.findings
    PROVE  f.stamp \in Nat \cup {NoTime} /\ f.sev \in Severities
<1>1. PICK k : FromReport(f, k)
  BY FindingFrom
<1> DEFINE g == run.report[k]
           t == g.timeline
<1>2. f.stamp = Stamp(run, g) /\ f.sev = g.severity
  BY <1>1 DEF FromReport, AdaptedFinding
<1>3. g.severity \in Severities
  BY <1>1, ReportIs DEF FromReport, Loaded
<1>4. t \in Seq(DOMAIN run.log)
  <2>1. CASE \E x \in Findings(run.log) : g = Reported(run.log, x)
    <3>1. PICK x \in Findings(run.log) : g = Reported(run.log, x)
      BY <2>1
    <3>2. t = Timeline(run.log, x)
      BY <3>1 DEF Reported
    <3> HIDE DEF t
    <3> QED BY <3>2, TimelineIs DEF Loaded
  <2>2. CASE \E y \in run.said : g = ByModel(y)
    <3>1. t = <<>>
      BY <2>2 DEF ByModel
    <3> DEFINE D == DOMAIN run.log
    <3>2. <<>> \in Seq(D)
      OBVIOUS
    <3> QED BY <3>1, <3>2
  <2> QED BY <1>1, <2>1, <2>2 DEF FromReport
<1>5. t # <<>> => run.log[t[Len(t)]].at \in Nat \cup {NoTime}
  <2> DEFINE D == DOMAIN run.log
  <2> HIDE DEF t, D
  <2>1. t # <<>> => t[Len(t)] \in D
    BY <1>4 DEF D
  <2> QED BY <2>1, LinesOfLog DEF Loaded, D
<1>6. Stamp(run, g) = IF t = <<>> THEN NoTime ELSE run.log[t[Len(t)]].at
  BY DEF Stamp
<1> HIDE DEF t, g
<1> QED BY <1>2, <1>3, <1>5, <1>6

LEMMA FindingsAreFinite ==
    ASSUME Loaded
    PROVE  IsFiniteSet(run.findings)
<1> DEFINE h == [k \in DOMAIN run.report |-> AdaptedFinding(run, run.report[k], k, Shown(run, run.report[k]))]
           D == DOMAIN run.report
<1>1. run.findings = {h[k] : k \in D}
  BY DEF Loaded, Adapted
<1>2. IsFiniteSet(D)
  <2> DEFINE V == UNION {{Reported(run.log, x) : x \in Findings(run.log)}, {ByModel(m) : m \in run.said}}
  <2>1. run.report \in Seq(V)
    BY ReportIs DEF Loaded
  <2>2. D = 1..Len(run.report) /\ Len(run.report) \in Nat
    <3> HIDE DEF V
    <3> QED BY <2>1
  <2> HIDE DEF D
  <2> QED BY <2>2, SpanIs, FS_Interval
<1>3. DOMAIN h = D
  OBVIOUS
<1> HIDE DEF h, D
<1> QED BY <1>1, <1>2, <1>3, ImageIsFinite

-----------------------------------------------------------------------------
(* The matrix of priorities asks for no less where more is at stake.         *)
AsCritical(a, b) ==
    CASE b = "crown-jewel" -> a = "crown-jewel"
      [] b = "standard" -> a \in {"crown-jewel", "standard"}
      [] OTHER -> TRUE

LEMMA MatrixIs ==
    ASSUME NEW s \in Severities, NEW t \in Severities, Rank[s] <= Rank[t],
           NEW a \in Levels, NEW b \in Levels, AsCritical(a, b)
    PROVE  PriorityOf(s, a) <= PriorityOf(t, b)
<1>1. CASE a = "crown-jewel"
  <2>1. CASE b = "crown-jewel"
    BY <1>1, <2>1 DEF PriorityOf, Matrix, Severities, Rank
  <2>2. CASE b = "standard"
    BY <1>1, <2>2 DEF PriorityOf, Matrix, Severities, Rank
  <2>3. CASE b = "low"
    BY <1>1, <2>3 DEF PriorityOf, Matrix, Severities, Rank
  <2> QED BY <2>1, <2>2, <2>3 DEF Levels
<1>2. CASE a = "standard"
  <2>1. CASE b = "standard"
    BY <1>2, <2>1 DEF PriorityOf, Matrix, Severities, Rank
  <2>2. CASE b = "low"
    BY <1>2, <2>2 DEF PriorityOf, Matrix, Severities, Rank
  <2> QED BY <1>2, <2>1, <2>2 DEF Levels, AsCritical
<1>3. CASE a = "low"
  <2>1. b = "low"
    BY <1>3 DEF Levels, AsCritical
  <2> QED BY <1>3, <2>1 DEF PriorityOf, Matrix, Severities, Rank
<1> QED BY <1>1, <1>2, <1>3 DEF Levels

LEMMA CriticalityIs ==
    ASSUME NEW org, \A n \in DOMAIN org : org[n] \in Levels, NEW assets, NEW n \in assets \cap DOMAIN org
    PROVE  Criticality(org, assets) \in Levels /\ AsCritical(Criticality(org, assets), org[n])
<1> DEFINE tagged == {org[m] : m \in assets \cap DOMAIN org}
<1>1. org[n] \in tagged /\ tagged \subseteq Levels /\ org[n] \in Levels
  OBVIOUS
<1>2. Criticality(org, assets) =
        IF tagged = {} THEN DefaultLevel
        ELSE IF "crown-jewel" \in tagged THEN "crown-jewel"
        ELSE IF "standard" \in tagged THEN "standard" ELSE "low"
  BY DEF Criticality
<1> HIDE DEF tagged
<1> QED BY <1>1, <1>2 DEF Levels, AsCritical

LEMMA FiniteIsBounded ==
    ASSUME NEW S, IsFiniteSet(S), S \subseteq Nat
    PROVE  \E n \in Nat : \A y \in S : y <= n
<1> DEFINE c == Cardinality(S)
<1>1. c \in Nat /\ ExistsBijection(1..c, S)
  BY FS_CardinalityType
<1>2. PICK b : b \in Bijection(1..c, S)
  BY <1>1 DEF ExistsBijection
<1>3. b \in [1..c -> S] /\ \A y \in S : \E k \in 1..c : b[k] = y
  BY <1>2 DEF Bijection, Surjection, Injection
<1> DEFINE T == {k \in 0..c : \E n \in Nat : \A j \in 1..k : b[j] <= n}
<1> HIDE DEF c
<1>4. 0 \in T
  BY <1>1
<1>5. ASSUME NEW k \in 1..c, k - 1 \in T PROVE k \in T
  <2>1. PICK n \in Nat : \A j \in 1..k - 1 : b[j] <= n
    BY <1>5
  <2>2. b[k] \in Nat
    BY <1>3
  <2>3. \A j \in 1..k : b[j] <= n + b[k]
    <3> SUFFICES ASSUME NEW j \in 1..k PROVE b[j] <= n + b[k]
      OBVIOUS
    <3>1. CASE j = k
      BY <2>2, <3>1
    <3>2. CASE j # k
      <4>1. j \in 1..k - 1 /\ j \in 1..c
        BY <1>1, <3>2
      <4>2. b[j] <= n /\ b[j] \in Nat
        BY <1>3, <2>1, <4>1
      <4> QED BY <2>2, <4>2
    <3> QED BY <3>1, <3>2
  <2>4. n + b[k] \in Nat
    BY <2>2
  <2>5. \E m \in Nat : \A j \in 1..k : b[j] <= m
    BY <2>3, <2>4
  <2>6. k \in 0..c
    BY <1>1
  <2> QED BY <2>5, <2>6
<1>6. \A k \in 0..c : k \in T
  <2> HIDE DEF T
  <2> QED BY <1>1, <1>4, <1>5, Upwards
<1>7. PICK n \in Nat : \A j \in 1..c : b[j] <= n
  <2>1. c \in 0..c
    BY <1>1
  <2>2. c \in T
    BY <1>6, <2>1
  <2> QED BY <2>2
<1> QED BY <1>3, <1>7

LEMMA SpanOfIs ==
    ASSUME NEW S, IsFiniteSet(S), S \subseteq Nat, NEW y \in S
    PROVE  y \in SetMin(S)..SetMax(S) /\ SetMin(S) \in S /\ SetMax(S) \in S
<1>1. SetMin(S) \in S /\ SetMin(S) <= y
  BY LeastIs
<1>2. SetMax(S) \in S /\ y <= SetMax(S)
  BY FiniteIsBounded, GreatestIs
<1>3. y \in Nat /\ SetMin(S) \in Nat /\ SetMax(S) \in Nat
  BY <1>1, <1>2
<1> QED BY <1>1, <1>2, <1>3

-----------------------------------------------------------------------------
(* Every finding is in one incident, which says of it what it should.        *)
FindingsOf(e) == {f \in run.findings : Entity(f) = e}

Clusters(e) == RolledUp(Chains(FindingsOf(e)))

Holds(i, e, c) ==
    /\ c # {} /\ c \subseteq run.findings /\ i = Incident(run.org, e, c)
    /\ \A g \in c : Entity(g) = e
    /\ Unbroken(c) \/ Quiet(c)

LEMMA ClustersPart ==
    ASSUME Loaded, NEW f \in run.findings
    PROVE  Parts(Clusters(Entity(f)), FindingsOf(Entity(f))) /\ \A c \in Clusters(Entity(f)) : Unbroken(c) \/ Quiet(c)
<1> DEFINE M == FindingsOf(Entity(f))
<1>1. M # {} /\ M \subseteq run.findings
  BY DEF FindingsOf
<1> HIDE DEF M
<1>2. Stamped(Timed(M))
  BY <1>1, StampIs DEF Stamped, Timed
<1>3. Parts(Chains(M), M) /\ \A c \in Chains(M) : Unbroken(c)
  BY <1>1, <1>2, ChainsPart
<1>4. Parts(RolledUp(Chains(M)), M) /\ \A c \in RolledUp(Chains(M)) : Unbroken(c) \/ Quiet(c)
  BY <1>3, RolledUpPart
<1> QED BY <1>4 DEF Clusters, M

LEMMA IncidentsAre ==
    ASSUME Loaded
    PROVE  \A i : i \in run.incidents <=>
              \E f \in run.findings : \E c \in Clusters(Entity(f)) : i = Incident(run.org, Entity(f), c)
<1> DEFINE E == {Entity(f) : f \in run.findings}
           D(e) == {Incident(run.org, e, c) : c \in Clusters(e)}
<1>1. run.incidents = UNION {D(e) : e \in E}
  BY DEF Derived, Clusters, FindingsOf, Loaded
<1> HIDE DEF D
<1>2. \A i : i \in run.incidents <=> \E f \in run.findings : i \in D(Entity(f))
  BY <1>1
<1>3. \A i, e : i \in D(e) <=> \E c \in Clusters(e) : i = Incident(run.org, e, c)
  BY DEF D
<1> QED BY <1>2, <1>3

LEMMA ClustersHold ==
    ASSUME Loaded, NEW f \in run.findings, NEW c \in Clusters(Entity(f))
    PROVE  /\ Holds(Incident(run.org, Entity(f), c), Entity(f), c)
           /\ Incident(run.org, Entity(f), c) \in run.incidents
<1>1. c # {} /\ (\A g \in c : g \in FindingsOf(Entity(f))) /\ (Unbroken(c) \/ Quiet(c))
  BY ClustersPart DEF Parts
<1>2. \A g \in c : g \in run.findings /\ Entity(g) = Entity(f)
  BY <1>1 DEF FindingsOf
<1>3. Incident(run.org, Entity(f), c) \in run.incidents
  BY IncidentsAre
<1> QED BY <1>1, <1>2, <1>3 DEF Holds

LEMMA EachHolds ==
    ASSUME Loaded, NEW i \in run.incidents
    PROVE  \E f \in run.findings : \E c \in Clusters(Entity(f)) :
              i = Incident(run.org, Entity(f), c) /\ Holds(i, Entity(f), c)
<1>1. PICK f \in run.findings : \E c \in Clusters(Entity(f)) : i = Incident(run.org, Entity(f), c)
  BY IncidentsAre
<1>2. PICK c \in Clusters(Entity(f)) : i = Incident(run.org, Entity(f), c)
  BY <1>1
<1> QED BY <1>2, ClustersHold

LEMMA HoldingIs ==
    ASSUME RunOK(run), Loaded, NEW i, NEW e, NEW c, Holds(i, e, c)
    PROVE  /\ i.entity = e[1] /\ i.kind = e[2]
           /\ i.ids = {g.id : g \in c} /\ Members(i) = c
           /\ \A g \in run.findings : g.id \in i.ids => g \in c
           /\ i.severity \in Severities /\ \E g \in c : i.severity = g.sev
           /\ \A g \in c : Rank[i.severity] <= Rank[g.sev]
<1>1. /\ i.entity = e[1] /\ i.kind = e[2] /\ i.ids = {g.id : g \in c}
      /\ i.severity = Worst({g.sev : g \in c})
  BY DEF Holds, Incident
<1>2. c # {} /\ \A g \in c : g \in run.findings
  BY DEF Holds
<1>3. \A g \in run.findings : g.id \in i.ids => g \in c
  BY <1>1, <1>2, IdsAreUnique
<1>4. Members(i) = c
  BY <1>1, <1>2, <1>3 DEF Members
<1> DEFINE S == {g.sev : g \in c}
<1>5. S \subseteq Severities /\ S # {}
  BY <1>2, StampIs
<1>6. Worst(S) \in S /\ \A t \in S : Rank[Worst(S)] <= Rank[t]
  <2> HIDE DEF S
  <2> QED BY <1>5, WorstIs
<1>7. \A g \in c : g.sev \in S
  OBVIOUS
<1>8. i.severity = Worst(S)
  BY <1>1
<1>9. \E g \in c : Worst(S) = g.sev
  BY <1>6
<1> HIDE DEF S
<1> QED BY <1>1, <1>3, <1>4, <1>5, <1>6, <1>7, <1>8, <1>9

LEMMA OneHolds ==
    ASSUME RunOK(run), NEW f \in run.findings
    PROVE  \E i \in run.incidents : \E c \in Clusters(Entity(f)) :
              /\ Holds(i, Entity(f), c) /\ f \in c /\ f.id \in i.ids
              /\ \A j \in run.incidents : f.id \in j.ids => j = i
<1>1. Loaded
  BY RunIsLoaded
<1>2. f \in FindingsOf(Entity(f))
  BY DEF FindingsOf
<1>3. PICK c \in Clusters(Entity(f)) : f \in c
  BY <1>1, <1>2, ClustersPart DEF Parts
<1> DEFINE i == Incident(run.org, Entity(f), c)
<1>4. Holds(i, Entity(f), c) /\ i \in run.incidents
  BY <1>1, ClustersHold
<1> HIDE DEF i
<1>5. f.id \in i.ids
  BY <1>1, <1>3, <1>4, HoldingIs
<1>6. ASSUME NEW j \in run.incidents, f.id \in j.ids PROVE j = i
  <2>1. PICK g \in run.findings : \E d \in Clusters(Entity(g)) :
           j = Incident(run.org, Entity(g), d) /\ Holds(j, Entity(g), d)
    BY <1>1, EachHolds
  <2>2. PICK d \in Clusters(Entity(g)) : j = Incident(run.org, Entity(g), d) /\ Holds(j, Entity(g), d)
    BY <2>1
  <2>3. f \in d
    BY <1>1, <1>6, <2>2, HoldingIs
  <2>4. Entity(f) = Entity(g)
    BY <2>2, <2>3 DEF Holds
  <2>5. d = c
    BY <1>1, <1>2, <1>3, <2>2, <2>3, <2>4, ClustersPart DEF Parts
  <2> QED BY <2>2, <2>4, <2>5 DEF i
<1> QED BY <1>3, <1>4, <1>5, <1>6

LEMMA PairIsEntity ==
    ASSUME NEW f
    PROVE  <<Entity(f)[1], Entity(f)[2]>> = Entity(f)
  BY DEF Entity

LEMMA PriorityIs ==
    ASSUME RunOK(run), Loaded, NEW i, NEW e, NEW c, Holds(i, e, c), NEW f \in c,
           NEW n \in ({f.host, f.ip} \cap DOMAIN run.org) \ {NoHost, Unknown}
    PROVE  i.priority <= PriorityOf(f.sev, run.org[n])
<1> DEFINE assets == Assets(e, c)
           level == Criticality(run.org, assets)
<1>1. i.priority = PriorityOf(i.severity, level)
  BY DEF Holds, Incident
<1>2. n \in assets
  BY DEF Assets
<1>3. \A m \in DOMAIN run.org : run.org[m] \in Levels
  BY DEF Loaded
<1> HIDE DEF assets
<1>4. level \in Levels /\ AsCritical(level, run.org[n])
  BY <1>2, <1>3, CriticalityIs
<1>5. run.org[n] \in Levels
  BY <1>3
<1>6. i.severity \in Severities /\ f.sev \in Severities /\ Rank[i.severity] <= Rank[f.sev]
  BY HoldingIs, StampIs DEF Holds
<1> HIDE DEF level
<1> QED BY <1>1, <1>4, <1>5, <1>6, MatrixIs

LEMMA TimesAre ==
    ASSUME Loaded, NEW i, NEW e, NEW c, Holds(i, e, c), NEW f \in c, f.stamp # NoTime
    PROVE  f.stamp \in i.first..i.last
<1> DEFINE stamps == {g.stamp : g \in Timed(c)}
           a == [g \in Timed(c) |-> g.stamp]
<1>1. IsFiniteSet(Timed(c)) /\ \A g \in Timed(c) : g.stamp \in Nat
  <2>1. c \subseteq run.findings /\ Timed(c) \subseteq c
    BY DEF Holds, Timed
  <2> QED BY <2>1, FindingsAreFinite, FS_Subset, StampIs DEF Timed
<1>2. stamps = {a[g] : g \in Timed(c)} /\ DOMAIN a = Timed(c)
  OBVIOUS
<1>3. IsFiniteSet({a[g] : g \in Timed(c)})
  <2> HIDE DEF a
  <2> QED BY <1>1, <1>2, ImageIsFinite
<1>4. f.stamp \in stamps /\ stamps \subseteq Nat
  BY <1>1 DEF Timed
<1>5. i.first = (IF stamps = {} THEN NoTime ELSE SetMin(stamps)) /\ i.last = (IF stamps = {} THEN NoTime ELSE SetMax(stamps))
  BY DEF Holds, Incident
<1> HIDE DEF stamps, a
<1>6. f.stamp \in SetMin(stamps)..SetMax(stamps)
  BY <1>2, <1>3, <1>4, SpanOfIs
<1> QED BY <1>4, <1>5, <1>6

LEMMA SilenceIs ==
    ASSUME RunOK(run), Loaded, NEW i, NEW e, NEW c, Holds(i, e, c), NEW f \in c, f.stamp # NoTime,
           NEW g \in Timed(Members(i)), g.stamp - f.stamp > Gap
    PROVE  \/ \E h \in Timed(Members(i)) : h.stamp - f.stamp \in 1..Gap
           \/ i.severity \in {"low", "info"}
<1>1. Members(i) = c /\ \E h \in c : i.severity = h.sev
  BY HoldingIs
<1>2. f \in Timed(c) /\ g \in Timed(c)
  BY <1>1 DEF Timed
<1>3. CASE Unbroken(c)
  BY <1>1, <1>2, <1>3 DEF Unbroken
<1>4. CASE Quiet(c)
  BY <1>1, <1>4 DEF Quiet
<1> QED BY <1>3, <1>4 DEF Holds

LEMMA FindingHasOneIncident ==
    ASSUME RunOK(run)
    PROVE  EveryFindingHasOneIncident
<1> SUFFICES ASSUME NEW f \in run.findings
             PROVE  LET of == {i \in run.incidents : f.id \in i.ids}
                    IN  /\ Cardinality(of) = 1
                        /\ \A i \in of :
                            /\ <<i.entity, i.kind>> = Entity(f)
                            /\ Rank[i.severity] <= Rank[f.sev]
                            /\ \A n \in ({f.host, f.ip} \cap DOMAIN run.org) \ {NoHost, Unknown} :
                                 i.priority <= PriorityOf(f.sev, run.org[n])
                            /\ f.stamp # NoTime => f.stamp \in i.first..i.last
                            /\ \A g \in Timed(Members(i)) :
                                 f.stamp # NoTime /\ g.stamp - f.stamp > Gap =>
                                    \/ \E h \in Timed(Members(i)) : h.stamp - f.stamp \in 1..Gap
                                    \/ i.severity \in {"low", "info"}
  BY DEF EveryFindingHasOneIncident
<1> DEFINE of == {i \in run.incidents : f.id \in i.ids}
<1>1. Loaded
  BY RunIsLoaded
<1>2. PICK i \in run.incidents : \E c \in Clusters(Entity(f)) :
         /\ Holds(i, Entity(f), c) /\ f \in c /\ f.id \in i.ids
         /\ \A j \in run.incidents : f.id \in j.ids => j = i
  BY OneHolds
<1>3. PICK c \in Clusters(Entity(f)) :
         /\ Holds(i, Entity(f), c) /\ f \in c /\ f.id \in i.ids
         /\ \A j \in run.incidents : f.id \in j.ids => j = i
  BY <1>2
<1>4. of = {i}
  BY <1>3
<1>5. Cardinality(of) = 1
  <2> HIDE DEF of
  <2> QED BY <1>4, FS_Singleton
<1>6. <<i.entity, i.kind>> = Entity(f) /\ Rank[i.severity] <= Rank[f.sev]
  BY <1>1, <1>3, HoldingIs, PairIsEntity
<1>7. \A n \in ({f.host, f.ip} \cap DOMAIN run.org) \ {NoHost, Unknown} :
         i.priority <= PriorityOf(f.sev, run.org[n])
  BY <1>1, <1>3, PriorityIs
<1>8. f.stamp # NoTime => f.stamp \in i.first..i.last
  BY <1>1, <1>3, TimesAre
<1>9. \A g \in Timed(Members(i)) :
         f.stamp # NoTime /\ g.stamp - f.stamp > Gap =>
            \/ \E h \in Timed(Members(i)) : h.stamp - f.stamp \in 1..Gap
            \/ i.severity \in {"low", "info"}
  BY <1>1, <1>3, SilenceIs
<1> HIDE DEF of
<1> QED BY <1>4, <1>5, <1>6, <1>7, <1>8, <1>9 DEF of

-----------------------------------------------------------------------------
(* The report lists the rules' findings first, the severest of them first.   *)
UpTo(s, n) ==
    /\ \A k \in 1..Len(s) : Rank[s[k].severity] \in 0..n
    /\ \A j, k \in 1..Len(s) : j <= k => Rank[s[j].severity] <= Rank[s[k].severity]
    /\ \A j, k \in 1..Len(s) : s[j] = s[k] => j = k

At(s, n) ==
    /\ \A k \in 1..Len(s) : Rank[s[k].severity] = n
    /\ \A j, k \in 1..Len(s) : s[j] = s[k] => j = k

LEMMA UpToNext ==
    ASSUME NEW V, NEW s \in Seq(V), NEW t \in Seq(V), NEW n \in Nat, UpTo(s, n), At(t, n + 1)
    PROVE  s \o t \in Seq(V) /\ UpTo(s \o t, n + 1)
<1> DEFINE u == s \o t
           R(x) == Rank[x.severity]
<1>1. u \in Seq(V) /\ Len(u) = Len(s) + Len(t) /\ Len(s) \in Nat /\ Len(t) \in Nat
  OBVIOUS
<1>2. \A k \in 1..Len(u) :
         \/ k \in 1..Len(s) /\ u[k] = s[k]
         \/ k - Len(s) \in 1..Len(t) /\ u[k] = t[k - Len(s)]
  BY <1>1
<1>3. /\ \A k \in 1..Len(s) : R(s[k]) \in 0..n
      /\ \A j, k \in 1..Len(s) : j <= k => R(s[j]) <= R(s[k])
      /\ \A j, k \in 1..Len(s) : s[j] = s[k] => j = k
      /\ \A k \in 1..Len(t) : R(t[k]) = n + 1
      /\ \A j, k \in 1..Len(t) : t[j] = t[k] => j = k
  BY DEF UpTo, At
<1> HIDE DEF R, u
<1>4. \A k \in 1..Len(u) : R(u[k]) \in 0..n + 1
  <2> SUFFICES ASSUME NEW k \in 1..Len(u) PROVE R(u[k]) \in 0..n + 1
    OBVIOUS
  <2>1. CASE k \in 1..Len(s) /\ u[k] = s[k]
    <3>1. R(u[k]) \in 0..n
      BY <1>3, <2>1
    <3> QED BY <3>1
  <2>2. CASE k - Len(s) \in 1..Len(t) /\ u[k] = t[k - Len(s)]
    <3>1. R(u[k]) = n + 1
      BY <1>3, <2>2
    <3> QED BY <3>1
  <2> QED BY <1>2, <2>1, <2>2
<1>5. ASSUME NEW j \in 1..Len(u), NEW k \in 1..Len(u), j <= k PROVE R(u[j]) <= R(u[k])
  <2>1. CASE k \in 1..Len(s) /\ u[k] = s[k]
    <3>2. j - Len(s) \notin 1..Len(t)
      BY <1>1, <1>5, <2>1
    <3>1. j \in 1..Len(s) /\ u[j] = s[j]
      BY <1>2, <3>2
    <3> QED BY <1>3, <1>5, <2>1, <3>1
  <2>2. CASE k - Len(s) \in 1..Len(t) /\ u[k] = t[k - Len(s)]
    <3>1. R(u[k]) = n + 1 /\ R(u[j]) \in 0..n + 1
      BY <1>3, <1>4, <2>2
    <3> QED BY <3>1
  <2> QED BY <1>2, <2>1, <2>2
<1>6. ASSUME NEW j \in 1..Len(u), NEW k \in 1..Len(u), u[j] = u[k] PROVE j = k
  <2>1. CASE j \in 1..Len(s) /\ k \in 1..Len(s) /\ u[j] = s[j] /\ u[k] = s[k]
    BY <1>3, <1>6, <2>1
  <2>2. CASE /\ j - Len(s) \in 1..Len(t) /\ k - Len(s) \in 1..Len(t)
             /\ u[j] = t[j - Len(s)] /\ u[k] = t[k - Len(s)]
    <3>1. j - Len(s) = k - Len(s)
      BY <1>3, <1>6, <2>2
    <3> QED BY <1>1, <3>1
  <2>3. CASE \/ j \in 1..Len(s) /\ u[j] = s[j] /\ k - Len(s) \in 1..Len(t) /\ u[k] = t[k - Len(s)]
             \/ k \in 1..Len(s) /\ u[k] = s[k] /\ j - Len(s) \in 1..Len(t) /\ u[j] = t[j - Len(s)]
    <3>1. \E x \in 1..Len(s), y \in 1..Len(t) : s[x] = t[y]
      BY <1>6, <2>3
    <3>2. n + 1 \in 0..n
      BY <1>3, <3>1
    <3> QED BY <3>2
  <2> QED BY <1>2, <2>1, <2>2, <2>3
<1> QED BY <1>1, <1>4, <1>5, <1>6 DEF UpTo, R, u

LEMMA InOrderAscends ==
    ASSUME NEW F, IsFiniteSet(F)
    PROVE  UpTo(InOrder(F), 4)
<1> DEFINE Sv(s) == {f \in F : f.severity = s}
           S(s) == SetToSeq(Sv(s))
<1>1. ASSUME NEW s \in Severities PROVE S(s) \in Seq(F) /\ At(S(s), Rank[s])
  <2>1. IsFiniteSet(Sv(s)) /\ \A f \in Sv(s) : f \in F /\ f.severity = s
    BY FS_Subset
  <2> HIDE DEF Sv
  <2>2. S(s) \in Seq(Sv(s)) /\ IsInjective(S(s))
    BY <2>1, SetToSeqIs
  <2>3. Sv(s) \subseteq F
    BY <2>1
  <2>4. S(s) \in Seq(F)
    BY <2>2, <2>3
  <2>5. \A k \in 1..Len(S(s)) : S(s)[k] \in Sv(s)
    BY <2>2
  <2>6. \A j, k \in 1..Len(S(s)) : S(s)[j] = S(s)[k] => j = k
    BY <2>2 DEF IsInjective
  <2> QED BY <2>1, <2>4, <2>5, <2>6 DEF At
<1>2. InOrder(F) = S("critical") \o S("high") \o S("medium") \o S("low") \o S("info")
  BY DEF InOrder
<1> HIDE DEF S
<1>3. /\ S("critical") \in Seq(F) /\ At(S("critical"), 0)
      /\ S("high") \in Seq(F) /\ At(S("high"), 0 + 1)
      /\ S("medium") \in Seq(F) /\ At(S("medium"), 1 + 1)
      /\ S("low") \in Seq(F) /\ At(S("low"), 2 + 1)
      /\ S("info") \in Seq(F) /\ At(S("info"), 3 + 1)
  BY <1>1 DEF Severities, Rank
<1>4. UpTo(S("critical"), 0)
  BY <1>3 DEF UpTo, At
<1> DEFINE a == S("critical") \o S("high")
           b == a \o S("medium")
           c == b \o S("low")
<1>5. a \in Seq(F) /\ UpTo(a, 1)
  BY <1>3, <1>4, UpToNext
<1>6. b \in Seq(F) /\ UpTo(b, 2)
  <2> HIDE DEF a
  <2> QED BY <1>3, <1>5, UpToNext
<1>7. c \in Seq(F) /\ UpTo(c, 3)
  <2> HIDE DEF b
  <2> QED BY <1>3, <1>6, UpToNext
<1>8. UpTo(c \o S("info"), 4)
  <2> HIDE DEF c
  <2> QED BY <1>3, <1>7, UpToNext
<1> QED BY <1>2, <1>8

LEMMA RulesFirst ==
    ASSUME Loaded, NEW k \in DOMAIN run.report, run.report[k].source = "detector",
           NEW j \in DOMAIN run.report
    PROVE  /\ j <= k => Rank[run.report[j].severity] <= Rank[run.report[k].severity]
           /\ run.report[j] = run.report[k] => j = k
           /\ k \in Nat \ {0} /\ j \in Nat \ {0}
<1> DEFINE l == run.log
           A == {Reported(l, f) : f \in Deduped(l)}
           told == {g \in run.said : ~Restates(l, g)}
           B == {ByModel(f) : f \in told}
           a == [f \in Deduped(l) |-> Reported(l, f)]
           b == [f \in told |-> ByModel(f)]
           s == InOrder(A)
           t == InOrder(B)
<1>1. IsFiniteSet(A) /\ IsFiniteSet(B)
  <2>1. IsFiniteSet(Deduped(l)) /\ IsFiniteSet(told)
    BY DedupedAre, FS_Subset DEF Loaded
  <2>2. A = {a[f] : f \in Deduped(l)} /\ B = {b[f] : f \in told} /\ DOMAIN a = Deduped(l) /\ DOMAIN b = told
    OBVIOUS
  <2> HIDE DEF a, b, told
  <2>3. IsFiniteSet({a[f] : f \in Deduped(l)}) /\ IsFiniteSet({b[f] : f \in told})
    BY <2>1, <2>2, ImageIsFinite
  <2> QED BY <2>2, <2>3
<1>2. run.report = s \o t
  BY DEF ReportOf, Loaded
<1>3. (\A x \in A : x.source = "detector") /\ (\A x \in B : x.source = "llm")
  BY DEF Reported, ByModel
<1> HIDE DEF A, B
<1>4. s \in Seq(A) /\ t \in Seq(B) /\ UpTo(s, 4)
  <2> DEFINE X == {f \in A : f.severity \in Severities}
             Y == {f \in B : f.severity \in Severities}
  <2>1. s \in Seq(X) /\ t \in Seq(Y)
    BY <1>1, InOrderIs
  <2>2. X \subseteq A /\ Y \subseteq B
    OBVIOUS
  <2> HIDE DEF X, Y, s, t
  <2>3. s \in Seq(A) /\ t \in Seq(B)
    BY <2>1, <2>2
  <2> QED BY <1>1, <2>3, InOrderAscends DEF s
<1> HIDE DEF s, t
<1>5. /\ Len(s) \in Nat /\ Len(t) \in Nat /\ DOMAIN run.report = 1..Len(s) + Len(t)
      /\ \A n \in 1..Len(s) : run.report[n] = s[n]
      /\ \A n \in 1..Len(t) : run.report[n + Len(s)] = t[n] /\ t[n] \in B
  <2> DEFINE V == A \cup B
  <2>1. s \in Seq(V) /\ t \in Seq(V)
    <3>1. A \subseteq V /\ B \subseteq V
      OBVIOUS
    <3> HIDE DEF V
    <3> QED BY <1>4, <3>1
  <2>2. \A n \in 1..Len(t) : t[n] \in B
    BY <1>4
  <2> HIDE DEF V
  <2>3. /\ Len(s) \in Nat /\ Len(t) \in Nat /\ DOMAIN (s \o t) = 1..Len(s) + Len(t)
        /\ \A n \in 1..Len(s) : (s \o t)[n] = s[n]
    BY <2>1
  <2>4. \A n \in 1..Len(t) : (s \o t)[n + Len(s)] = t[n]
    BY <2>1
  <2> QED BY <1>2, <2>2, <2>3, <2>4
<1>6. \A n \in DOMAIN run.report : n \in 1..Len(s) \/ (n - Len(s) \in 1..Len(t) /\ n = (n - Len(s)) + Len(s))
  BY <1>5
<1>7. \A n \in DOMAIN run.report : n \notin 1..Len(s) => run.report[n].source = "llm"
  BY <1>3, <1>5, <1>6
<1>8. k \in 1..Len(s)
  BY <1>7
<1>9. j <= k => Rank[run.report[j].severity] <= Rank[run.report[k].severity]
  <2> SUFFICES ASSUME j <= k PROVE Rank[s[j].severity] <= Rank[s[k].severity] /\ j \in 1..Len(s)
    BY <1>5, <1>8
  <2>1. j \in 1..Len(s)
    BY <1>5, <1>8
  <2> QED BY <1>4, <1>8, <2>1 DEF UpTo
<1>10. run.report[j] = run.report[k] => j = k
  <2> SUFFICES ASSUME run.report[j] = run.report[k] PROVE j = k
    OBVIOUS
  <2>1. j \in 1..Len(s)
    BY <1>7
  <2>2. s[j] = s[k]
    BY <1>5, <1>8, <2>1
  <2> QED BY <1>4, <1>8, <2>1, <2>2 DEF UpTo
<1> QED BY <1>5, <1>9, <1>10

\* A line takes the severity of the first finding that cites it.
LEMMA EventsAreRight ==
    ASSUME RunOK(run)
    PROVE  EventsAgree
<1> SUFFICES ASSUME NEW f \in run.findings, NEW n \in f.lines \cap DOMAIN run.events
             PROVE  /\ run.events[n].finding # 0
                    /\ f.id[1] = "detector" => Rank[run.events[n].bucket] <= Rank[f.sev]
  BY DEF EventsAgree
<1>1. Loaded
  BY RunIsLoaded
<1>2. PICK k : FromReport(f, k)
  BY <1>1, FindingFrom
<1> DEFINE g == run.report[k]
           C == Citers(run, n)
<1>3. /\ k \in DOMAIN run.report /\ f.sev = g.severity /\ f.id = <<g.source, k>>
      /\ f.lines = IF Shown(run, g) # {} THEN Shown(run, g) ELSE {Excerpt}
  BY <1>2 DEF FromReport, AdaptedFinding
<1>4. run.events = Events(run) /\ run.log \in Seq(Lines)
  BY <1>1 DEF Loaded
<1>5. n \in DOMAIN run.log /\ n # Excerpt /\ run.events[n] = EventOf(run, n)
  <2>1. DOMAIN Events(run) = (IF run.readable THEN DOMAIN run.log ELSE {})
    BY DEF Events
  <2>2. n \in DOMAIN run.log /\ run.readable
    BY <1>4, <2>1
  <2>3. n # 0
    BY <1>4, <2>2, LinesOfLog
  <2>4. run.events[n] = EventOf(run, n)
    BY <1>4, <2>2 DEF Events
  <2> QED BY <2>2, <2>3, <2>4 DEF Excerpt
<1>6. n \in Shown(run, g)
  BY <1>3, <1>5
<1>7. k \in C
  BY <1>3, <1>6 DEF Citers, Shown
<1>8. \A j \in C : j \in DOMAIN run.report
  BY DEF Citers
<1> DEFINE V == UNION {{Reported(run.log, x) : x \in Findings(run.log)}, {ByModel(m) : m \in run.said}}
<1>9. \A j \in DOMAIN run.report : j \in Nat \ {0}
  <2>1. run.report \in Seq(V)
    BY <1>1, ReportIs DEF Loaded
  <2> HIDE DEF V
  <2> QED BY <2>1
<1>10. SetMin(C) \in C /\ SetMin(C) <= k
  <2>1. C \in SUBSET Nat
    BY <1>8, <1>9
  <2> HIDE DEF C
  <2> QED BY <1>7, <2>1, LeastIs
<1>11. run.events[n] = Event(SetMin(C), run.report[SetMin(C)].severity)
  BY <1>5, <1>7, Zenon DEF EventOf
<1>12. run.events[n].finding = SetMin(C) /\ run.events[n].bucket = run.report[SetMin(C)].severity
  BY <1>11 DEF Event
<1> HIDE DEF C, g
<1>13. run.events[n].finding # 0
  BY <1>8, <1>9, <1>10, <1>12
<1>14. ASSUME f.id[1] = "detector" PROVE Rank[run.events[n].bucket] <= Rank[f.sev]
  <2>1. g.source = "detector"
    BY <1>3, <1>14
  <2> QED BY <1>1, <1>3, <1>8, <1>10, <1>12, <2>1, RulesFirst DEF g
<1> QED BY <1>13, <1>14

-----------------------------------------------------------------------------
(* The findings of some incidents are as many as the ids these name.         *)
Reaches(J) == {f \in run.findings : \E i \in J : f.id \in i.ids}

LEMMA NothingOrLoaded ==
    ASSUME RunOK(run)
    PROVE  Loaded \/ (run.findings = {} /\ run.incidents = {})
  BY DEF RunOK, NoRun, Loaded

LEMMA IncidentNames ==
    ASSUME RunOK(run), NEW i \in run.incidents
    PROVE  /\ IsFiniteSet(i.ids) /\ i.severity \in Severities
           /\ \E f \in run.findings : f.id \in i.ids /\ f.sev = i.severity
           /\ \A x \in i.ids : \E f \in run.findings : f.id = x
           /\ \A f \in run.findings : f.id \in i.ids => <<i.entity, i.kind>> = Entity(f)
<1>1. Loaded
  BY NothingOrLoaded
<1>2. PICK g \in run.findings : \E c \in Clusters(Entity(g)) :
         i = Incident(run.org, Entity(g), c) /\ Holds(i, Entity(g), c)
  BY <1>1, EachHolds
<1>3. PICK c \in Clusters(Entity(g)) : i = Incident(run.org, Entity(g), c) /\ Holds(i, Entity(g), c)
  BY <1>2
<1>4. /\ i.entity = Entity(g)[1] /\ i.kind = Entity(g)[2] /\ i.ids = {f.id : f \in c}
      /\ \A f \in run.findings : f.id \in i.ids => f \in c
      /\ i.severity \in Severities /\ \E f \in c : i.severity = f.sev
  BY <1>1, <1>3, HoldingIs
<1>5. c \subseteq run.findings /\ IsFiniteSet(c) /\ \A f \in c : Entity(f) = Entity(g)
  BY <1>1, <1>3, FindingsAreFinite, FS_Subset DEF Holds
<1>6. IsFiniteSet(i.ids)
  <2> DEFINE h == [f \in c |-> f.id]
  <2>1. DOMAIN h = c /\ i.ids = {h[f] : f \in c}
    BY <1>4
  <2> HIDE DEF h
  <2> QED BY <1>5, <2>1, ImageIsFinite
<1>7. <<i.entity, i.kind>> = Entity(g)
  BY <1>4, PairIsEntity
<1> QED BY <1>4, <1>5, <1>6, <1>7

LEMMA OneIncident ==
    ASSUME RunOK(run), NEW f \in run.findings
    PROVE  \E i \in run.incidents :
              /\ f.id \in i.ids /\ Rank[i.severity] <= Rank[f.sev]
              /\ \A j \in run.incidents : f.id \in j.ids => j = i
<1>1. Loaded
  BY NothingOrLoaded
<1>2. PICK i \in run.incidents : \E c \in Clusters(Entity(f)) :
         /\ Holds(i, Entity(f), c) /\ f \in c /\ f.id \in i.ids
         /\ \A j \in run.incidents : f.id \in j.ids => j = i
  BY OneHolds
<1> QED BY <1>1, <1>2, HoldingIs

LEMMA IncidentsAreFinite ==
    ASSUME RunOK(run)
    PROVE  IsFiniteSet(run.incidents) /\ IsFiniteSet(run.findings)
<1> DEFINE w == [f \in run.findings |-> CHOOSE i \in run.incidents : f.id \in i.ids]
           W == {w[f] : f \in run.findings}
<1>1. IsFiniteSet(run.findings)
  BY NothingOrLoaded, FindingsAreFinite, FS_EmptySet
<1>2. IsFiniteSet(W)
  <2>1. DOMAIN w = run.findings
    OBVIOUS
  <2> HIDE DEF w
  <2> QED BY <1>1, <2>1, ImageIsFinite
<1>3. ASSUME NEW i \in run.incidents PROVE i \in W
  <2>1. PICK f \in run.findings : f.id \in i.ids
    BY IncidentNames
  <2>2. w[f] \in run.incidents /\ f.id \in w[f].ids
    BY <2>1
  <2>3. w[f] = i
    <3> HIDE DEF w
    <3> QED BY <2>1, <2>2, OneIncident
  <2> QED BY <2>3
<1> QED BY <1>1, <1>2, <1>3, FS_Subset

LEMMA IdsCount ==
    ASSUME RunOK(run), NEW J, J \subseteq run.incidents
    PROVE  SumFunction([i \in J |-> Cardinality(i.ids)]) = Cardinality(Reaches(J))
<1> DEFINE P == [i \in J |-> i.ids]
           T == Reaches(J)
           X == Together(P)
           w == [f \in T |-> CHOOSE i \in J : f.id \in i.ids]
           h == [f \in T |-> <<w[f], f.id>>]
<1>1. \A f \in T : f \in run.findings /\ w[f] \in J /\ f.id \in w[f].ids /\ h[f] = <<w[f], f.id>>
  BY DEF Reaches
<1>2. DOMAIN P = J /\ \A i \in J : P[i] = i.ids
  OBVIOUS
<1>3. IsFiniteSet(J) /\ IsFiniteSet(T)
  BY IncidentsAreFinite, FS_Subset DEF Reaches
<1>4. \A i \in J : IsFiniteSet(P[i])
  BY IncidentNames
<1>5. h = [f \in T |-> h[f]]
  OBVIOUS
<1>t. T = {f \in run.findings : \E i \in J : f.id \in i.ids}
  BY DEF Reaches
<1> HIDE DEF h, w, P, T
<1>6. \A i, x : <<i, x>> \in X <=> i \in J /\ x \in i.ids
  BY <1>2 DEF Together
<1>7. h \in [T -> X]
  <2>1. ASSUME NEW f \in T PROVE h[f] \in X
    <3>1. <<w[f], f.id>> \in X
      BY <1>1, <1>6
    <3> QED BY <1>1, <3>1
  <2> QED BY <1>5, <2>1
<1>8. \A f, g \in T : h[f] = h[g] => f = g
  BY <1>1, IdsAreUnique
<1>9. ASSUME NEW z \in X PROVE \E f \in T : h[f] = z
  <2>1. PICK i, x : z = <<i, x>> /\ i \in J /\ x \in i.ids
    BY <1>2 DEF Together
  <2>2. PICK f \in run.findings : f.id = x
    BY <2>1, IncidentNames
  <2>3. f \in T
    BY <1>t, <2>1, <2>2
  <2>4. w[f] = i
    BY <1>1, <2>1, <2>2, <2>3, OneIncident
  <2> QED BY <1>1, <2>1, <2>2, <2>3, <2>4
<1> HIDE DEF X
<1>10. Cardinality(X) = Cardinality(T)
  BY <1>3, <1>7, <1>8, <1>9, SameSize
<1>11. SumFunction([i \in DOMAIN P |-> Cardinality(P[i])]) = Cardinality(X)
  BY <1>2, <1>3, <1>4, SumOfSizes DEF X
<1>12. [i \in DOMAIN P |-> Cardinality(P[i])] = [i \in J |-> Cardinality(i.ids)]
  BY <1>2
<1> QED BY <1>10, <1>11, <1>12 DEF T

-----------------------------------------------------------------------------
(* The incidents of an address have its findings, and are as severe.         *)
LEMMA SameWorst ==
    ASSUME NEW A, A \subseteq Severities, A # {}, NEW B, B \subseteq Severities, B # {},
           \A s \in A : \E t \in B : Rank[t] <= Rank[s],
           \A t \in B : \E s \in A : Rank[s] <= Rank[t]
    PROVE  Worst(A) = Worst(B)
<1>1. Worst(A) \in A /\ (\A s \in A : Rank[Worst(A)] <= Rank[s])
  BY WorstIs
<1>2. Worst(B) \in B /\ (\A s \in B : Rank[Worst(B)] <= Rank[s])
  BY WorstIs
<1>3. \A s, t \in Severities : Rank[s] \in Nat /\ (Rank[s] = Rank[t] => s = t)
  BY DEF Rank, Severities
<1>4. PICK t \in B : Rank[t] <= Rank[Worst(A)]
  BY <1>1
<1>5. PICK s \in A : Rank[s] <= Rank[Worst(B)]
  BY <1>2
<1>6. Rank[Worst(B)] <= Rank[Worst(A)] /\ Rank[Worst(A)] <= Rank[Worst(B)]
  <2>1. Rank[Worst(B)] <= Rank[t] /\ Rank[Worst(A)] <= Rank[s]
    BY <1>1, <1>2
  <2>2. /\ Rank[Worst(B)] \in Nat /\ Rank[Worst(A)] \in Nat /\ Rank[s] \in Nat /\ Rank[t] \in Nat
    BY <1>1, <1>2, <1>3
  <2> QED BY <1>4, <1>5, <2>1, <2>2
<1> QED BY <1>1, <1>2, <1>3, <1>6

LEMMA AddressesOf ==
    ASSUME RunOK(run), NEW x \in IPv4
    PROVE  LET about == {f \in run.findings : f.ip = x}
               J == IncidentsOf(<<x, "ip">>)
           IN  /\ Cardinality(about) = Total(J, LAMBDA i : Cardinality(i.ids))
               /\ about # {} => Worst({f.sev : f \in about}) = Worst({i.severity : i \in J})
<1> DEFINE about == {f \in run.findings : f.ip = x}
           J == IncidentsOf(<<x, "ip">>)
<1>1. J \subseteq run.incidents /\ \A i \in run.incidents : i \in J <=> <<i.entity, i.kind>> = <<x, "ip">>
  BY DEF IncidentsOf
<1>2. \A f \in run.findings : Entity(f) = <<x, "ip">> <=> f.ip = x
  BY DEF Entity
<1> HIDE DEF J
<1>3. ASSUME NEW f \in run.findings PROVE f \in about <=> f \in Reaches(J)
  <2>1. ASSUME f.ip = x PROVE f \in Reaches(J)
    <3>1. PICK i \in run.incidents : f.id \in i.ids
      BY OneIncident
    <3>2. i \in J
      BY <1>1, <1>2, <2>1, <3>1, IncidentNames
    <3> QED BY <3>1, <3>2 DEF Reaches
  <2>2. ASSUME f \in Reaches(J) PROVE f.ip = x
    <3>1. PICK i \in J : f.id \in i.ids
      BY <2>2 DEF Reaches
    <3> QED BY <1>1, <1>2, <3>1, IncidentNames
  <2> QED BY <2>1, <2>2
<1>4. about = Reaches(J)
  BY <1>3 DEF Reaches
<1>5. Total(J, LAMBDA i : Cardinality(i.ids)) = SumFunction([i \in J |-> Cardinality(i.ids)])
  BY DEF Total
<1>6. Cardinality(about) = Total(J, LAMBDA i : Cardinality(i.ids))
  <2> HIDE DEF about
  <2> QED BY <1>1, <1>4, <1>5, IdsCount
<1>7. ASSUME about # {} PROVE Worst({f.sev : f \in about}) = Worst({i.severity : i \in J})
  <2> DEFINE A == {f.sev : f \in about}
             B == {i.severity : i \in J}
  <2>0. Loaded
    BY <1>7, RunIsLoaded
  <2>1. A \subseteq Severities /\ A # {}
    BY <1>7, <2>0, StampIs
  <2>2. ASSUME NEW f \in about PROVE \E i \in J : Rank[i.severity] <= Rank[f.sev]
    <3>1. f \in run.findings /\ f \in Reaches(J)
      BY <1>4
    <3>2. PICK i \in J : f.id \in i.ids
      BY <3>1 DEF Reaches
    <3> HIDE DEF about
    <3> QED BY <1>1, <3>1, <3>2, OneIncident
  <2>3. ASSUME NEW i \in J PROVE i.severity \in Severities /\ \E f \in about : f.sev = i.severity
    <3>1. PICK f \in run.findings : f.id \in i.ids /\ f.sev = i.severity
      BY <1>1, IncidentNames
    <3>2. f \in about
      BY <1>4, <3>1 DEF Reaches
    <3> QED BY <1>1, <3>1, <3>2, IncidentNames
  <2>4. B \subseteq Severities /\ B # {}
    BY <1>7, <2>2, <2>3
  <2>5. \A s \in A : \E t \in B : Rank[t] <= Rank[s]
    BY <2>2
  <2>6. \A t \in B : \E s \in A : Rank[s] <= Rank[t]
    <3> SUFFICES ASSUME NEW i \in J PROVE \E f \in about : Rank[f.sev] <= Rank[i.severity]
      OBVIOUS
    <3>1. PICK f \in about : f.sev = i.severity
      BY <2>3
    <3>2. Rank[i.severity] <= Rank[i.severity]
      BY <2>3 DEF Rank, Severities
    <3> QED BY <3>1, <3>2
  <2> HIDE DEF A, B
  <2>7. Worst(A) = Worst(B)
    BY <2>1, <2>4, <2>5, <2>6, SameWorst
  <2> QED BY <2>7 DEF A, B
<1> HIDE DEF about
<1> QED BY <1>6, <1>7 DEF about, J

\* Every finding is cited with the incidents.
LEMMA IncidentsAreListed ==
    ASSUME RunOK(run)
    PROVE  Total(IncidentsView(Severities).items \cap run.incidents, LAMBDA i : Cardinality(i.ids))
             = Cardinality(run.findings)
<1> DEFINE J == IncidentsView(Severities).items \cap run.incidents
<1>1. J = run.incidents
  <2>1. \A i \in run.incidents : i.severity \in Severities
    BY IncidentNames
  <2>2. IncidentsView(Severities).items = {i \in Merged(run.incidents) : i.severity \in Severities}
    BY DEF IncidentsView
  <2>3. run.incidents \subseteq Merged(run.incidents)
    BY DEF Merged
  <2> QED BY <2>1, <2>2, <2>3
<1>2. \A f \in run.findings : \E i \in run.incidents : f.id \in i.ids
  BY OneIncident
<1>3. Reaches(run.incidents) = run.findings
  BY <1>2 DEF Reaches
<1>4. Total(J, LAMBDA i : Cardinality(i.ids)) = SumFunction([i \in J |-> Cardinality(i.ids)])
  BY DEF Total
<1> HIDE DEF J
<1> QED BY <1>1, <1>3, <1>4, IdsCount DEF J

-----------------------------------------------------------------------------
(* Whoever asks about an address is told of every finding a rule made of it: *)
(* the finding shows a line that has the address, or no host and so the      *)
(* address for one.                                                          *)
LEMMA LineSpeaks ==
    ASSUME Loaded, run.readable, NEW f, NEW k, FromReport(f, k), f.ip # Unknown,
           NEW n \in DOMAIN run.log, n \in LineNumbers(run.report[k]), run.log[n].ip = f.ip
    PROVE  f.ip \in Tokens(f)
<1>1. n \in Shown(run, run.report[k])
  BY DEF Shown
<1>2. n \in f.lines
  BY <1>1 DEF FromReport, AdaptedFinding
<1>3. n # Excerpt
  BY LinesOfLog DEF Loaded, Excerpt
<1> QED BY <1>2, <1>3 DEF Tokens, Highlighted

LEMMA EvidenceIs ==
    ASSUME NEW l, NEW x
    PROVE  /\ x.type \in AuthTypes =>
                 Evidence(l, x) = [words |-> "lines", first |-> SetMin(x.on), last |-> SetMax(x.on)]
           /\ x.type \in SingleLine \cup {"possible_break_in"} => Evidence(l, x).words = "none"
<1> DEFINE a == [words |-> "lines", first |-> SetMin(x.on), last |-> SetMax(x.on)]
           b == LET window == Sorted(l, x.on)
                IN  [words |-> "lines", first |-> Head(window), last |-> window[Len(window)]]
           c == [words |-> "source lines", first |-> SetMin(x.on), last |-> SetMax(x.on)]
           d == [words |-> "none", first |-> 0, last |-> 0]
<1>1. Evidence(l, x) =
        CASE x.type \in AuthTypes -> a
          [] x.type = "error_rate_spike" -> b
          [] x.type \in Counted \ {"zk_instability"} -> c
          [] OTHER -> d
  BY Zenon DEF Evidence, AuthTypes
<1>2. d.words = "none"
  OBVIOUS
<1> HIDE DEF a, b, c, d
<1>3. /\ x.type \in AuthTypes => x.type # "error_rate_spike" /\ x.type \notin Counted
      /\ x.type \in SingleLine \cup {"possible_break_in"} =>
            x.type # "error_rate_spike" /\ x.type \notin Counted /\ x.type \notin AuthTypes
  BY DetectionAssumption DEF AuthTypes, Counted, SingleLine, DetectionAssumption
<1>4. x.type \in AuthTypes => Evidence(l, x) = a
  BY <1>1, <1>3
<1>5. x.type \in SingleLine \cup {"possible_break_in"} => Evidence(l, x) = d
  BY <1>1, <1>3
<1> QED BY <1>2, <1>4, <1>5 DEF a

LEMMA NumbersAre ==
    ASSUME NEW l, NEW x
    PROVE  LET g == Reported(l, x)
           IN  /\ g.source = "detector" /\ g.ip = AddressIn(l, x) /\ g.host = HostIn(l, x)
               /\ LineNumbers(g) = ToSet(Timeline(l, x)) \cup
                    IF Evidence(l, x).words = "lines" THEN {Evidence(l, x).first, Evidence(l, x).last} ELSE {}
<1> DEFINE g == Reported(l, x)
           e == Evidence(l, x)
           t == Timeline(l, x)
<1>1. /\ g.source = "detector" /\ g.ip = AddressIn(l, x) /\ g.host = HostIn(l, x)
      /\ g.timeline = t /\ g.evidence = e
  BY DEF Reported
<1>2. LineNumbers(g) = ToSet(g.timeline) \cup IF g.evidence.words = "lines" THEN {g.evidence.first, g.evidence.last} ELSE {}
  BY DEF LineNumbers
<1> HIDE DEF g, e, t
<1> QED BY <1>1, <1>2 DEF g, e, t

LEMMA ElementsOf ==
    ASSUME NEW D, NEW s \in Seq(D), s # <<>>
    PROVE  s[1] \in D /\ s[1] \in ToSet(s)
<1>1. 1 \in DOMAIN s
  OBVIOUS
<1> QED BY <1>1 DEF ToSet

\* The one line of a rule on single lines is shown, where it was kept.
LEMMA RecordShown ==
    ASSUME NEW l \in Seq(Lines), NEW x, x.type \in SingleLine, NEW i \in Kept(l), x.on = {i}
    PROVE  LET shown == LineNumbers(Reported(l, x))
           IN  shown # {} /\ shown \subseteq DOMAIN l /\ \A n \in shown : l[n] = l[i]
<1> DEFINE t == Timeline(l, x)
<1>1. i \in DOMAIN l /\ i \in Nat
  BY KeptIs, LinesOfLog
<1>2. SetMin(x.on) = i
  <2>1. SetMin({i}) \in {i}
    BY <1>1, LeastIs
  <2> QED BY <2>1
<1>3. t = RecordOf(l, l[i])
  <2> DEFINE a == AuthEvents(l, x)
             b == FirstAndLast(Sorted(l, x.on))
             c == FirstAndLast(ByTime(l, x.on \cap Kept(l)))
             d == RecordOf(l, l[SetMin(x.on)])
             n == <<>>
  <2>1. t =
          CASE x.type \in AuthTypes -> a
            [] x.type = "error_rate_spike" -> b
            [] x.type = "possible_break_in" -> c
            [] x.type \in Counted -> n
            [] OTHER -> d
    BY Zenon DEF Timeline, AuthTypes
  <2> HIDE DEF a, b, c, d, n, t
  <2>2. /\ x.type \notin AuthTypes /\ x.type # "error_rate_spike" /\ x.type # "possible_break_in"
        /\ x.type \notin Counted
    BY DetectionAssumption DEF AuthTypes, Counted, SingleLine, DetectionAssumption
  <2>3. t = d
    BY <2>1, <2>2
  <2> QED BY <1>2, <2>3 DEF d
<1>4. t \in Seq(DOMAIN l) /\ t # <<>> /\ Len(t) = 1 /\ l[t[1]] = l[i]
  BY <1>3, RecordIs
<1> HIDE DEF t
<1>5. ToSet(t) = {t[1]} /\ t[1] \in DOMAIN l
  <2> DEFINE D == DOMAIN l
  <2>1. t \in Seq(D) /\ t # <<>> /\ Len(t) = 1
    BY <1>4
  <2> HIDE DEF D
  <2>2. DOMAIN t = 1..1
    BY <2>1
  <2>3. t[1] \in D
    BY <2>1, ElementsOf
  <2> QED BY <2>2, <2>3 DEF ToSet, D
<1>6. LineNumbers(Reported(l, x)) = ToSet(t)
  BY EvidenceIs, NumbersAre DEF t
<1> QED BY <1>4, <1>5, <1>6

LEMMA BruteForceSpeaks ==
    ASSUME Loaded, run.readable, NEW f, NEW k, FromReport(f, k), f.ip # Unknown,
           NEW x \in BruteForce(run.log), run.report[k] = Reported(run.log, x)
    PROVE  f.ip \in Tokens(f)
<1> DEFINE l == run.log
           n == SetMin(x.on)
<1>1. l \in Seq(Lines)
  BY DEF Loaded
<1>2. x.type \in AuthTypes /\ x.on = Fails(l, x.about) /\ x.on # {} /\ x.on \subseteq DOMAIN l
  BY <1>1, BruteForceOf
<1>3. n \in x.on
  BY <1>1, <1>2, LinesOfLog, LeastIs
<1>4. n \in DOMAIN l /\ l[n].ip = x.about
  BY <1>1, <1>2, <1>3, FailsAre
<1>5. n \in LineNumbers(run.report[k])
  BY <1>2, EvidenceIs, NumbersAre
<1>6. f.ip = x.about
  <2>1. f.ip = AddressIn(l, x)
    BY NumbersAre DEF FromReport, AdaptedFinding
  <2> QED BY <1>2, <2>1 DEF AddressIn, AuthTypes
<1> HIDE DEF n
<1> QED BY <1>4, <1>5, <1>6, LineSpeaks

LEMMA BreakInSpeaks ==
    ASSUME Loaded, run.readable, NEW f, NEW k, FromReport(f, k), f.ip # Unknown,
           NEW x \in BreakIns(run.log), run.report[k] = Reported(run.log, x)
    PROVE  f.ip \in Tokens(f)
<1> DEFINE l == run.log
           S == x.on \cap Kept(l)
           t == Timeline(l, x)
<1>1. l \in Seq(Lines)
  BY DEF Loaded
<1>2. x.type = "possible_break_in" /\ x.on = {i \in DOMAIN l : "break_in" \in l[i].text /\ l[i].ip = x.about}
  BY <1>1, BreakInOf
<1>3. S \subseteq DOMAIN l /\ \A i \in S : l[i].ip = x.about
  BY <1>2
<1>4. f.ip = x.about
  <2>1. f.ip = AddressIn(l, x)
    BY NumbersAre DEF FromReport, AdaptedFinding
  <2> QED BY <1>2, <2>1 DEF AddressIn
<1>5. t = FirstAndLast(ByTime(l, S))
  BY <1>2, TimelineCases
<1> HIDE DEF S
<1>6. ByTime(l, S) \in Seq(S) /\ (S # {} => ByTime(l, S) # <<>>)
  BY <1>1, <1>3, ByTimeIs
<1>7. t \in Seq(S) /\ (S # {} => t # <<>>)
  BY <1>5, <1>6, MilestonesAre
<1> HIDE DEF t
<1>8. CASE t # <<>>
  <2>1. t[1] \in S /\ t[1] \in ToSet(t)
    BY <1>7, <1>8, ElementsOf
  <2>2. t[1] \in LineNumbers(run.report[k])
    BY <2>1, NumbersAre DEF t
  <2> QED BY <1>3, <1>4, <2>1, <2>2, LineSpeaks
<1>9. CASE t = <<>>
  <2>1. LineNumbers(run.report[k]) = {}
    <3>1. ToSet(t) = {}
      BY <1>9 DEF ToSet
    <3> QED BY <1>2, <3>1, EvidenceIs, NumbersAre DEF t
  <2>2. Shown(run, run.report[k]) = {}
    BY <2>1 DEF Shown
  <2>3. HostIn(l, x) = NoHost
    BY <1>2 DEF HostIn, SingleRecord
  <2>4. f.host = NoHost
    BY <2>2, <2>3, NumbersAre DEF FromReport, AdaptedFinding, TargetHost
  <2>5. ShownHost(f) = f.ip
    BY <2>4 DEF ShownHost
  <2> QED BY <2>5 DEF Tokens
<1> QED BY <1>8, <1>9

LEMMA OthersSpeak ==
    ASSUME Loaded, run.readable, NEW f, NEW k, FromReport(f, k), f.ip # Unknown,
           NEW x, Plain(run.log, x), run.report[k] = Reported(run.log, x)
    PROVE  f.ip \in Tokens(f)
<1> DEFINE l == run.log
           shown == LineNumbers(run.report[k])
<1>1. l \in Seq(Lines)
  BY DEF Loaded
<1>2. f.ip = AddressIn(l, x)
  BY NumbersAre DEF FromReport, AdaptedFinding
<1>3. x.type = "suspicious_outbound"
  BY <1>2 DEF AddressIn, Plain
<1>4. PICK i \in Kept(l) : x.on = {i}
  BY <1>3 DEF Plain
<1>5. shown # {} /\ shown \subseteq DOMAIN l /\ \A n \in shown : l[n] = l[i]
  BY <1>1, <1>3, <1>4, RecordShown DEF SingleLine
<1>6. f.ip = l[i].ip
  <2>1. i \in Nat
    BY <1>1, KeptIs, LinesOfLog
  <2>2. SetMin({i}) \in {i}
    BY <2>1, LeastIs
  <2> QED BY <1>2, <1>3, <1>4, <2>2 DEF AddressIn
<1>7. PICK n \in shown : n \in DOMAIN l /\ l[n].ip = f.ip
  BY <1>5, <1>6
<1> QED BY <1>7, LineSpeaks

LEMMA FindingSpeaks ==
    ASSUME Loaded, run.readable, NEW f \in run.findings, f.id[1] = "detector", f.ip # Unknown
    PROVE  f.ip \in Tokens(f)
<1>1. PICK k : FromReport(f, k)
  BY FindingFrom
<1>2. run.report[k].source = "detector"
  BY <1>1 DEF FromReport, AdaptedFinding
<1>3. PICK x \in Findings(run.log) : run.report[k] = Reported(run.log, x)
  <2>1. \A y : ByModel(y).source = "llm"
    BY DEF ByModel
  <2> QED BY <1>1, <1>2, <2>1 DEF FromReport
<1>4. x \in BruteForce(run.log) \cup BreakIns(run.log) \/ Plain(run.log, x)
  BY FindingsAre DEF Loaded
<1> QED BY <1>1, <1>3, <1>4, BruteForceSpeaks, BreakInSpeaks, OthersSpeak

LEMMA SpokenIs ==
    ASSUME Loaded, NEW x
    PROVE  SpokenOf(x).cited = Cardinality({f \in run.findings : x \in Tokens(f)})
<1> DEFINE N == {f \in run.findings : x \in Tokens(f)}
           q == Question({x}, "nothing", {})
           named == q.names \cap UNION {Tokens(f) : f \in run.findings}
           Told(y) == FindingsView("entity", {f \in run.findings : y \in Tokens(f)})
<1>1. q.names = {x} /\ q.asks = "nothing"
  BY DEF Question
<1>2. SpokenOf(x) = IF named # {} THEN Told(CHOOSE y \in named : TRUE) ELSE NoView
  BY <1>1 DEF SpokenOf, BuildView, Loaded
<1>3. \A y : Told(y).cited = Cardinality({f \in run.findings : y \in Tokens(f)})
  BY DEF FindingsView
<1>4. NoView.cited = 0
  BY DEF NoView
<1> HIDE DEF q, Told
<1>5. CASE N = {}
  <2>1. named = {}
    BY <1>1, <1>5
  <2>2. Cardinality(N) = 0
    BY <1>5, FS_EmptySet
  <2> QED BY <1>2, <1>4, <2>1, <2>2
<1>6. CASE N # {}
  <2>1. named = {x}
    BY <1>1, <1>6
  <2> HIDE DEF named
  <2>2. (CHOOSE y \in named : TRUE) = x
    BY <2>1
  <2> QED BY <1>2, <1>3, <2>1, <2>2
<1> QED BY <1>5, <1>6

LEMMA AddressesAreRight ==
    ASSUME RunOK(run)
    PROVE  AddressesAgree(DeriveAssets(run))
<1> DEFINE assets == DeriveAssets(run)
           About(a) == {f \in run.findings : IF a[2] = "ip" THEN f.ip = a[1] ELSE f.host = a[1]}
<1> SUFFICES ASSUME NEW a \in DOMAIN assets, a[2] = "ip"
             PROVE  /\ assets[a].findings = Total(IncidentsOf(a), LAMBDA i : Cardinality(i.ids))
                    /\ assets[a].worst = {Worst({i.severity : i \in IncidentsOf(a)})}
                    /\ run.readable =>
                         SpokenOf(a[1]).cited >=
                            Cardinality({f \in run.findings : f.ip = a[1] /\ f.id[1] = "detector"})
  BY DEF AddressesAgree
<1> DEFINE x == a[1]
           about == {f \in run.findings : f.ip = x}
<1>1. a = <<x, "ip">> /\ x \in IPv4 /\ about # {}
  BY DEF DeriveAssets
<1>2. assets[a] = Asset(run, x, About(a))
  BY DEF DeriveAssets
<1>3. About(a) = about
  OBVIOUS
<1>4. assets[a].findings = Cardinality(about) /\ assets[a].worst = {Worst({f.sev : f \in about})}
  <2> DEFINE c == Asset(run, x, about)
             W == {f.sev : f \in about}
  <2>1. c.findings = Cardinality(about) /\ c.worst = IF about = {} THEN {} ELSE {Worst(W)}
    BY DEF Asset
  <2>2. assets[a] = c
    BY <1>2, <1>3
  <2> HIDE DEF assets, c, W, about
  <2> QED BY <1>1, <2>1, <2>2 DEF W
<1>5. Loaded
  BY <1>1, NothingOrLoaded
<1> HIDE DEF assets
<1>6. assets[a].findings = Total(IncidentsOf(a), LAMBDA i : Cardinality(i.ids))
  BY <1>1, <1>4, AddressesOf
<1>7. assets[a].worst = {Worst({i.severity : i \in IncidentsOf(a)})}
  BY <1>1, <1>4, AddressesOf
<1>8. ASSUME run.readable
      PROVE  SpokenOf(x).cited >= Cardinality({f \in run.findings : f.ip = x /\ f.id[1] = "detector"})
  <2> DEFINE N == {f \in run.findings : x \in Tokens(f)}
             D == {f \in run.findings : f.ip = x /\ f.id[1] = "detector"}
  <2>1. x # Unknown
    BY <1>1, DetectionAssumption DEF DetectionAssumption
  <2>2. D \subseteq N
    BY <1>5, <1>8, <2>1, FindingSpeaks
  <2>3. IsFiniteSet(N)
    BY <1>5, FindingsAreFinite, FS_Subset
  <2> HIDE DEF N, D
  <2>4. Cardinality(D) <= Cardinality(N) /\ Cardinality(N) \in Nat /\ Cardinality(D) \in Nat
    BY <2>2, <2>3, FS_Subset, FS_CardinalityType
  <2>5. SpokenOf(x).cited = Cardinality(N)
    BY <1>5, SpokenIs DEF N
  <2>6. Cardinality(N) >= Cardinality(D)
    BY <2>4
  <2> QED BY <2>5, <2>6 DEF D
<1> QED BY <1>6, <1>7, <1>8

-----------------------------------------------------------------------------
(* The Overview.                                                             *)
LEMMA SumParts ==
    ASSUME NEW f, Counts(f), NEW a, NEW b, DOMAIN a \cap DOMAIN b = {}, DOMAIN f = DOMAIN a \cup DOMAIN b,
           \A x \in DOMAIN a : f[x] = a[x], \A x \in DOMAIN b : f[x] = b[x]
    PROVE  /\ Counts(a) /\ Counts(b) /\ SumFunction(a) \in Nat /\ SumFunction(b) \in Nat
           /\ SumFunction(f) = SumFunction(a) + SumFunction(b)
<1>1. Counts(a) /\ Counts(b)
  BY FS_Subset DEF Counts
<1>2. /\ SumFunction(a) = Cardinality(Tally(a, DOMAIN a)) /\ SumFunction(b) = Cardinality(Tally(b, DOMAIN b))
      /\ SumFunction(f) = Cardinality(Tally(f, DOMAIN f))
  BY <1>1, SumIsTally
<1>3. /\ Tally(f, DOMAIN f) = Tally(a, DOMAIN a) \cup Tally(b, DOMAIN b)
      /\ Tally(a, DOMAIN a) \cap Tally(b, DOMAIN b) = {}
  BY DEF Tally, Marks
<1>4. IsFiniteSet(Tally(a, DOMAIN a)) /\ IsFiniteSet(Tally(b, DOMAIN b))
  BY <1>1, TallyIsFinite
<1>5. Cardinality(Tally(f, DOMAIN f)) = Cardinality(Tally(a, DOMAIN a)) + Cardinality(Tally(b, DOMAIN b))
  BY <1>3, <1>4, Halves
<1> QED BY <1>1, <1>2, <1>5, SumIsTally

\* A finding of a rule rests on lines of the log, the others on none.
LEMMA RestsOn ==
    ASSUME Loaded, NEW f \in run.findings
    PROVE  f.on \subseteq DOMAIN run.log /\ IsFiniteSet(f.on) /\ Occurrences(f) \in Nat
<1>1. PICK k : FromReport(f, k)
  BY FindingFrom
<1>2. f.on = run.report[k].on
  BY <1>1 DEF FromReport, AdaptedFinding
<1>3. ASSUME NEW x \in Findings(run.log), run.report[k] = Reported(run.log, x)
      PROVE  f.on \subseteq DOMAIN run.log
  <2>1. f.on = x.on
    BY <1>2, <1>3 DEF Reported
  <2>2. x \in BruteForce(run.log) \cup BreakIns(run.log) \/ Plain(run.log, x)
    BY FindingsAre DEF Loaded
  <2>3. CASE x \in BruteForce(run.log)
    BY <2>1, <2>3, BruteForceOf DEF Loaded
  <2>4. CASE x \in BreakIns(run.log)
    <3>1. x.on = {i \in DOMAIN run.log : "break_in" \in run.log[i].text /\ run.log[i].ip = x.about}
      BY <2>4, BreakInOf DEF Loaded
    <3> QED BY <2>1, <3>1
  <2>5. CASE Plain(run.log, x)
    BY <2>1, <2>5 DEF Plain
  <2> QED BY <2>2, <2>3, <2>4, <2>5
<1>4. ASSUME NEW y, run.report[k] = ByModel(y)
      PROVE  f.on = {}
  BY <1>2, <1>4 DEF ByModel
<1>5. f.on \subseteq DOMAIN run.log
  BY <1>1, <1>3, <1>4 DEF FromReport
<1>6. IsFiniteSet(f.on)
  <2>1. IsFiniteSet(DOMAIN run.log)
    BY LinesOfLog DEF Loaded
  <2> QED BY <1>5, <2>1, FS_Subset
<1>7. Occurrences(f) = run.report[k].occurrences
  BY <1>1 DEF FromReport, AdaptedFinding, Occurrences
<1>8. ASSUME NEW x \in Findings(run.log), run.report[k] = Reported(run.log, x)
      PROVE  Occurrences(f) \in Nat
  <2>1. x.on = f.on /\ Occurrences(f) = Occurring(run.log, x)
    BY <1>2, <1>7, <1>8 DEF Reported
  <2> QED BY <1>6, <2>1, DedupedAre DEF Loaded
<1>9. ASSUME NEW y, run.report[k] = ByModel(y)
      PROVE  Occurrences(f) \in Nat
  BY <1>7, <1>9 DEF ByModel
<1> QED BY <1>1, <1>5, <1>6, <1>8, <1>9 DEF FromReport

\* The time chart and the findings without a stamp add up to the total.
LEMMA BinsAddUp ==
    ASSUME IsFiniteSet(run.findings), \A f \in run.findings : Occurrences(f) \in Nat, NEW s \in Alerts
    PROVE  LET bins == Bins(run.findings)
           IN  Total(DOMAIN bins, LAMBDA h : bins[h][s])
                 + OccCounts(run.findings \ Timed(run.findings))[s] = OccCounts(run.findings)[s]
<1> DEFINE F == run.findings
           bins == Bins(F)
           binned == {f \in Timed(F) : f.sev \in Alerts}
           C == {f.stamp \div Hour : f \in binned}
           In(h) == {f \in binned : f.stamp \div Hour = h}
           occ == [f \in F |-> Occurrences(f)]
           A == {f \in Timed(F) : f.sev = s}
           B == {f \in F \ Timed(F) : f.sev = s}
           all == {f \in F : f.sev = s}
           g == [f \in A |-> occ[f]]
           c == [f \in A |-> f.stamp \div Hour]
           sums == [h \in C |-> SumFunction([f \in {x \in A : c[x] = h} |-> g[f]])]
<1>1. IsFiniteSet(F) /\ \A f \in F : Occurrences(f) \in Nat
  OBVIOUS
<1>2. Counts(occ) /\ DOMAIN occ = F /\ \A f \in F : occ[f] = Occurrences(f)
  BY <1>1 DEF Counts
<1>3. A \subseteq F /\ B \subseteq F /\ A \cap B = {} /\ A \cup B = all
  BY DEF Timed
<1>4. \A S : OccCounts(S)[s] = SumFunction([f \in {x \in S : x.sev = s} |-> Occurrences(f)])
  BY DEF OccCounts, Total
<1>5. DOMAIN bins = C /\ \A h \in C : bins[h] = OccCounts(In(h))
  BY DEF Bins
<1>6. \A h : {x \in In(h) : x.sev = s} = {x \in A : c[x] = h}
  OBVIOUS
<1>7. DOMAIN g = A /\ \A f \in A : g[f] = Occurrences(f)
  BY <1>2, <1>3
<1>8. \A f \in A : c[f] \in C
  OBVIOUS
<1>9. IsFiniteSet(C)
  <2> DEFINE m == [f \in binned |-> f.stamp \div Hour]
  <2>1. IsFiniteSet(binned)
    BY <1>1, FS_Subset DEF Timed
  <2>2. DOMAIN m = binned /\ C = {m[f] : f \in binned}
    OBVIOUS
  <2> HIDE DEF m, binned, C
  <2> QED BY <2>1, <2>2, ImageIsFinite
<1>10. Counts(g)
  <2> HIDE DEF occ
  <2> QED BY <1>2, <1>3, SumOn
<1>11. ASSUME NEW h \in C
       PROVE  bins[h][s] = SumFunction([f \in {x \in A : c[x] = h} |-> g[f]])
  <2> DEFINE D == {x \in A : c[x] = h}
  <2>1. bins[h][s] = SumFunction([f \in {x \in In(h) : x.sev = s} |-> Occurrences(f)])
    BY <1>4, <1>5
  <2>2. D \subseteq A
    OBVIOUS
  <2>3. {x \in In(h) : x.sev = s} = D
    BY <1>6
  <2> HIDE DEF A, c, g, bins, In, D
  <2>4. [f \in D |-> Occurrences(f)] = [f \in D |-> g[f]]
    BY <1>7, <2>2
  <2> QED BY <2>1, <2>3, <2>4 DEF D
<1> HIDE DEF bins
<1>12. Total(DOMAIN bins, LAMBDA h : bins[h][s]) = SumFunction(sums)
  <2>1. Total(DOMAIN bins, LAMBDA h : bins[h][s]) = SumFunction([h \in C |-> bins[h][s]])
    BY <1>5 DEF Total
  <2>2. [h \in C |-> bins[h][s]] = sums
    <3> HIDE DEF C, A, c, g
    <3> QED BY <1>11
  <2> QED BY <2>1, <2>2
<1>13. SumFunction(sums) = SumFunction(g)
  <2> HIDE DEF C, A, c, g
  <2>1. \A f \in DOMAIN g : c[f] \in C
    BY <1>7, <1>8
  <2> DEFINE Of(y) == {x \in DOMAIN g : c[x] = y}
             t == [y \in C |-> SumFunction([x \in Of(y) |-> g[x]])]
  <2>2. SumFunction(t) = SumFunction(g)
    BY <1>9, <1>10, <2>1, SumByClass
  <2>3. t = sums
    BY <1>7
  <2> QED BY <2>2, <2>3
<1>14. OccCounts(F \ Timed(F))[s] = SumFunction([f \in B |-> occ[f]])
  <2>1. OccCounts(F \ Timed(F))[s] = SumFunction([f \in B |-> Occurrences(f)])
    BY <1>4
  <2> HIDE DEF B, occ
  <2>2. [f \in B |-> Occurrences(f)] = [f \in B |-> occ[f]]
    BY <1>2, <1>3
  <2> QED BY <2>1, <2>2
<1>15. OccCounts(F)[s] = SumFunction([f \in A \cup B |-> occ[f]])
  <2>1. OccCounts(F)[s] = SumFunction([f \in all |-> Occurrences(f)])
    BY <1>4
  <2> HIDE DEF A, B, all, occ
  <2>2. [f \in all |-> Occurrences(f)] = [f \in A \cup B |-> occ[f]]
    BY <1>2, <1>3
  <2> QED BY <2>1, <2>2
<1>16. SumFunction([f \in A \cup B |-> occ[f]]) = SumFunction(g) + SumFunction([f \in B |-> occ[f]])
  <2> DEFINE a == [f \in A |-> occ[f]]
             b == [f \in B |-> occ[f]]
             both == [f \in A \cup B |-> occ[f]]
  <2> HIDE DEF A, B, occ
  <2>1. /\ DOMAIN a = A /\ DOMAIN b = B /\ DOMAIN both = A \cup B
        /\ \A f \in A : both[f] = a[f]
        /\ \A f \in B : both[f] = b[f]
    OBVIOUS
  <2>2. Counts(both)
    <3>1. A \cup B \in SUBSET DOMAIN occ
      BY <1>2, <1>3
    <3> QED BY <1>2, <3>1, SumOn
  <2> HIDE DEF a, b, both
  <2>3. SumFunction(both) = SumFunction(a) + SumFunction(b)
    BY <1>3, <2>1, <2>2, SumParts
  <2> QED BY <2>3 DEF a, b, both, g
<1> HIDE DEF sums, g
<1> QED BY <1>12, <1>13, <1>14, <1>15, <1>16 DEF bins

\* An incident is as severe as one of the findings the Overview counts.
LEMMA AlertsAreCounted ==
    ASSUME Loaded, NEW f \in run.findings, f.sev \in Alerts
    PROVE  SevCounts(run.findings)[f.sev] > 0
<1> DEFINE S == {g \in run.findings : g.sev = f.sev}
<1>1. SevCounts(run.findings)[f.sev] = Cardinality(S)
  BY DEF SevCounts
<1>2. IsFiniteSet(S) /\ f \in S
  BY FindingsAreFinite, FS_Subset
<1> HIDE DEF S
<1>3. Cardinality(S) \in Nat /\ Cardinality(S) # 0
  BY <1>2, FS_EmptySet, FS_CardinalityType
<1> QED BY <1>1, <1>3

LEMMA EventsAreFinite ==
    ASSUME RunOK(run)
    PROVE  IsFiniteSet(DOMAIN run.events)
<1>1. CASE run = NoRun
  <2>1. DOMAIN run.events = {}
    BY <1>1 DEF NoRun
  <2> QED BY <2>1, FS_EmptySet
<1>2. CASE run # NoRun
  <2>1. run.log \in Seq(Lines) /\ DOMAIN run.events \subseteq DOMAIN run.log
    BY <1>2 DEF RunOK, Events
  <2> QED BY <2>1, LinesOfLog, FS_Subset
<1> QED BY <1>1, <1>2

LEMMA AssetsAreFinite ==
    ASSUME RunOK(run)
    PROVE  IsFiniteSet(DOMAIN DeriveAssets(run))
<1> DEFINE F == run.findings
           N == DOMAIN run.events
           a == [n \in N |-> HostOf[run.log[n]]]
           b == [f \in F |-> f.host]
           c == [f \in F |-> f.ip]
           A == {a[n] : n \in N}
           B == {b[f] : f \in F}
           C == {c[f] : f \in F}
           H == (A \cup B) \ {NoHost}
           I == C \cap IPv4
           h == [x \in H |-> <<x, "host">>]
           i == [x \in I |-> <<x, "ip">>]
           S == {h[x] : x \in H}
           T == {i[x] : x \in I}
<1>1. DOMAIN DeriveAssets(run) = S \cup T
  BY DEF DeriveAssets
<1>2. DOMAIN a = N /\ DOMAIN b = F /\ DOMAIN c = F /\ DOMAIN h = H /\ DOMAIN i = I
  OBVIOUS
<1>3. IsFiniteSet(F)
  BY IncidentsAreFinite
<1>4. IsFiniteSet(N)
  BY EventsAreFinite
<1> HIDE DEF F, N, a, b, c, h, i
<1>5. IsFiniteSet(A) /\ IsFiniteSet(B) /\ IsFiniteSet(C)
  BY <1>2, <1>3, <1>4, ImageIsFinite
<1> HIDE DEF A, B, C
<1>6. IsFiniteSet(H) /\ IsFiniteSet(I)
  <2>1. IsFiniteSet(A \cup B)
    BY <1>5, Halves, FS_Union
  <2> QED BY <1>5, <2>1, FS_Subset
<1> HIDE DEF H, I
<1>7. IsFiniteSet(S) /\ IsFiniteSet(T)
  BY <1>2, <1>6, ImageIsFinite
<1> HIDE DEF S, T
<1> QED BY <1>1, <1>7, FS_Union

\* Where a finding of high severity is, an asset is at risk.
LEMMA SevereIsAtRisk ==
    ASSUME Loaded, NEW f \in run.findings, f.sev \in {"critical", "high"}, Entity(f)[2] # "rule"
    PROVE  LET assets == DeriveAssets(run)
           IN  Entity(f) \in DOMAIN assets /\ assets[Entity(f)].worst \cap {"critical", "high"} # {}
<1> DEFINE assets == DeriveAssets(run)
           e == Entity(f)
           About(a) == {g \in run.findings : IF a[2] = "ip" THEN g.ip = a[1] ELSE g.host = a[1]}
           W == {g.sev : g \in About(e)}
<1>1. \/ f.ip \in IPv4 /\ e = <<f.ip, "ip">>
      \/ f.host # NoHost /\ e = <<f.host, "host">>
  BY DEF Entity
<1>2. e \in DOMAIN assets
  BY <1>1 DEF DeriveAssets
<1>3. assets[e] = Asset(run, e[1], About(e))
  BY <1>2 DEF DeriveAssets
<1>4. f \in About(e)
  <2>1. CASE e = <<f.ip, "ip">>
    BY <2>1
  <2>2. CASE e = <<f.host, "host">>
    BY <2>2
  <2> QED BY <1>1, <2>1, <2>2
<1>5. W \subseteq Severities /\ f.sev \in W
  BY <1>4, StampIs
<1>6. assets[e].worst = {Worst(W)}
  <2> DEFINE c == Asset(run, e[1], About(e))
  <2>1. c.worst = IF About(e) = {} THEN {} ELSE {Worst(W)}
    BY DEF Asset
  <2> HIDE DEF c, assets, e, W, About
  <2> QED BY <1>3, <1>4, <2>1 DEF c
<1> HIDE DEF assets, e, W
<1>7. Worst(W) \in Severities /\ Rank[Worst(W)] <= Rank[f.sev]
  BY <1>5, WorstIs
<1>8. Worst(W) \in {"critical", "high"}
  BY <1>7 DEF Rank, Severities
<1> QED BY <1>2, <1>6, <1>8 DEF assets, e

LEMMA OverviewIsRight ==
    ASSUME RunOK(run)
    PROVE  OverviewAgrees(Overview(run), DeriveAssets(run))
<1> DEFINE shown == Overview(run)
           assets == DeriveAssets(run)
           S == {<<i.entity, i.kind>> : i \in
                   {j \in run.incidents : j.severity \in {"critical", "high"} /\ j.kind # "rule"}}
           R == {a \in DOMAIN assets : assets[a].worst \cap {"critical", "high"} # {}}
           In(s) == Total(DOMAIN shown.bins, LAMBDA h : shown.bins[h][s])
                    + OccCounts(run.findings \ Timed(run.findings))[s] = shown.matching[s]
<1>1. /\ shown.counts = SevCounts(run.findings) /\ shown.matching = OccCounts(run.findings)
      /\ shown.bins = Bins(run.findings)
  BY DEF Overview
<1>2. ASSUME NEW i \in run.incidents, i.severity \in Alerts
      PROVE  shown.counts[i.severity] > 0
  <2>1. PICK f \in run.findings : f.id \in i.ids /\ f.sev = i.severity
    BY IncidentNames
  <2>2. Loaded
    BY <2>1, RunIsLoaded
  <2> HIDE DEF shown
  <2> QED BY <1>1, <1>2, <2>1, <2>2, AlertsAreCounted
<1>3. ASSUME NEW s \in Alerts PROVE In(s)
  <2> DEFINE bins == Bins(run.findings)
  <2>1. IsFiniteSet(run.findings) /\ \A f \in run.findings : Occurrences(f) \in Nat
    BY IncidentsAreFinite, RunIsLoaded, RestsOn
  <2>2. Total(DOMAIN bins, LAMBDA h : bins[h][s])
          + OccCounts(run.findings \ Timed(run.findings))[s] = OccCounts(run.findings)[s]
    BY <2>1, BinsAddUp
  <2> HIDE DEF shown
  <2> QED BY <1>1, <2>2
<1>4. S \subseteq R
  <2> SUFFICES ASSUME NEW i \in run.incidents, i.severity \in {"critical", "high"}, i.kind # "rule"
               PROVE  <<i.entity, i.kind>> \in R
    OBVIOUS
  <2>1. PICK f \in run.findings : f.id \in i.ids /\ f.sev = i.severity
    BY IncidentNames
  <2>2. <<i.entity, i.kind>> = Entity(f)
    BY <2>1, IncidentNames
  <2>3. Entity(f)[2] # "rule" /\ Loaded
    BY <2>1, <2>2, RunIsLoaded
  <2> HIDE DEF assets
  <2>4. Entity(f) \in R
    BY <2>1, <2>3, SevereIsAtRisk DEF assets
  <2> QED BY <2>2, <2>4
<1>5. IsFiniteSet(R)
  BY AssetsAreFinite, FS_Subset
<1>6. AtRisk(assets) = Cardinality(R)
  BY DEF AtRisk
<1>7. Cardinality(S) <= AtRisk(assets)
  <2> HIDE DEF S, R
  <2> QED BY <1>4, <1>5, <1>6, FS_Subset
<1>8. OverviewAgrees(shown, assets) <=>
        /\ \A i \in run.incidents : i.severity \in Alerts => shown.counts[i.severity] > 0
        /\ \A s \in Alerts : In(s)
        /\ Cardinality(S) <= AtRisk(assets)
  <2> HIDE DEF shown, assets
  <2> QED BY DEF OverviewAgrees
<1> HIDE DEF shown, assets, S, In
<1> QED BY <1>2, <1>3, <1>7, <1>8 DEF shown, assets

-----------------------------------------------------------------------------
(* The attempts of an address.                                               *)
LEMMA FlattenOne ==
    ASSUME NEW V, NEW p \in Seq(V)
    PROVE  FlattenSeq(<<p>>) = p
<1> DEFINE s == <<p>>
           Flat(g) == g = [i \in 1..Len(s) |-> IF i = 1 THEN s[i] ELSE g[i - 1] \o s[i]]
           f == CHOOSE g : Flat(g)
           e == [i \in 1..Len(s) |-> p]
<1>1. Len(s) = 1 /\ s[1] = p /\ \A i \in 1..Len(s) : i = 1
  OBVIOUS
<1>2. FlattenSeq(s) = f[Len(s)]
  BY <1>1 DEF FlattenSeq
<1> HIDE DEF s
<1>3. Flat(e)
  BY <1>1
<1>4. Flat(f)
  BY <1>3
<1> HIDE DEF f
<1>5. f[1] = p
  BY <1>1, <1>4
<1> QED BY <1>1, <1>2, <1>5 DEF s

\* A sum of ones, and a sum of one number.
LEMMA SumOfOnes ==
    ASSUME NEW f, Counts(f), \A x \in DOMAIN f : f[x] = 1
    PROVE  SumFunction(f) = Cardinality(DOMAIN f)
<1> DEFINE D == DOMAIN f
           T == Tally(f, D)
           h == [x \in D |-> <<x, 1>>]
<1>1. \A z : z \in T <=> \E x \in D : z = <<x, 1>>
  BY DEF Tally, Marks
<1>2. h \in [D -> T] /\ (\A x, y \in D : h[x] = h[y] => x = y) /\ \A z \in T : \E x \in D : h[x] = z
  <2> HIDE DEF T
  <2> QED BY <1>1
<1> HIDE DEF h, T
<1>3. Cardinality(T) = Cardinality(D)
  BY <1>2, SameSize DEF Counts
<1> QED BY <1>3, SumIsTally DEF T

LEMMA SumOfOne ==
    ASSUME NEW f, Counts(f), NEW n \in Nat, \A x \in DOMAIN f : f[x] <= n,
           \A x, y \in DOMAIN f : x = y
    PROVE  SumFunction(f) <= n
<1>1. Cardinality(Tally(f, {})) = 0
  BY FS_EmptySet DEF Tally
<1>2. SumFunction(f) = Cardinality(Tally(f, DOMAIN f))
  BY SumIsTally
<1>3. CASE DOMAIN f = {}
  BY <1>1, <1>2, <1>3
<1>4. ASSUME NEW x \in DOMAIN f PROVE SumFunction(f) <= n
  <2>1. DOMAIN f \ {x} = {}
    OBVIOUS
  <2>2. Cardinality(Tally(f, DOMAIN f)) = f[x] + Cardinality(Tally(f, DOMAIN f \ {x}))
    BY TallyGrows
  <2>3. f[x] \in Nat /\ f[x] <= n
    BY DEF Counts
  <2> QED BY <1>1, <1>2, <2>1, <2>2, <2>3
<1> QED BY <1>3, <1>4

\* What the rules report of the attempts of an address is its brute force.
LEMMA AttemptsReported ==
    ASSUME Loaded, NEW x \in IPv4, NEW f \in run.findings, f.ip = x, f.type \in BruteRules
    PROVE  \/ /\ f.id[1] = "llm" /\ Occurrences(f) = 1
           \/ \E k : FromReport(f, k) /\ \E y \in BruteForce(run.log) :
                 y.about = x /\ run.report[k] = Reported(run.log, y)
<1>1. PICK k : FromReport(f, k)
  BY FindingFrom
<1> DEFINE g == run.report[k]
<1>2. f.ip = g.ip /\ f.type = g.type /\ f.occurrences = g.occurrences /\ f.id = <<g.source, k>>
  BY <1>1 DEF FromReport, AdaptedFinding
<1>3. ASSUME NEW m \in run.said, g = ByModel(m)
      PROVE  f.id[1] = "llm" /\ Occurrences(f) = 1
  <2>1. g.source = "llm" /\ g.occurrences = 1
    BY <1>3 DEF ByModel
  <2> HIDE DEF g
  <2> QED BY <1>2, <2>1 DEF Occurrences
<1>4. ASSUME NEW y \in Findings(run.log), g = Reported(run.log, y)
      PROVE  y \in BruteForce(run.log) /\ y.about = x
  <2>1. g.type = y.type /\ g.ip = AddressIn(run.log, y)
    BY <1>4 DEF Reported
  <2> HIDE DEF g
  <2>2. y.type \in BruteRules /\ AddressIn(run.log, y) = x
    BY <1>2, <2>1
  <2>3. y.about = x
    BY <2>2 DEF AddressIn, BruteRules
  <2>4. ~Plain(run.log, y)
    BY <2>3, DetectionAssumption DEF Plain, DetectionAssumption
  <2>5. y \notin BreakIns(run.log)
    BY <2>2, BreakInOf DEF BruteRules, Loaded
  <2>6. y \in BruteForce(run.log) \cup BreakIns(run.log) \/ Plain(run.log, y)
    BY FindingsAre DEF Loaded
  <2> QED BY <2>3, <2>4, <2>5, <2>6
<1> QED BY <1>1, <1>3, <1>4 DEF FromReport

LEMMA OneBruteForce ==
    ASSUME Loaded, NEW f \in run.findings, NEW g \in run.findings, NEW j, NEW k,
           FromReport(f, j), FromReport(g, k),
           NEW y \in BruteForce(run.log), NEW z \in BruteForce(run.log), y.about = z.about,
           run.report[j] = Reported(run.log, y), run.report[k] = Reported(run.log, z)
    PROVE  f = g
<1>1. y = z
  BY BruteForceOf DEF Loaded
<1>2. j \in DOMAIN run.report /\ k \in DOMAIN run.report /\ run.report[j] = run.report[k]
  BY <1>1 DEF FromReport
<1>3. run.report[k].source = "detector"
  BY NumbersAre
<1>4. j = k
  BY <1>2, <1>3, RulesFirst
<1> QED BY <1>4 DEF FromReport

LEMMA AttemptsAreFew ==
    ASSUME Loaded, NEW x \in IPv4, x \notin {f.host : f \in run.findings}, Attempts(run, x) # <<>>
    PROVE  Attempts(run, x)[1]
             <= Cardinality({n \in DOMAIN run.log : run.log[n].ip = x})
                + Cardinality({f \in run.findings : f.id[1] = "llm" /\ f.ip = x})
<1> DEFINE hits == {f \in run.findings : Entity(f)[1] = x /\ f.type \in BruteRules}
           all == [f \in hits |-> Occurrences(f)]
           M == {f \in hits : f.id[1] = "llm"}
           D == {f \in hits : f.id[1] # "llm"}
           d == [f \in D |-> Occurrences(f)]
           m == [f \in M |-> Occurrences(f)]
           L == {n \in DOMAIN run.log : run.log[n].ip = x}
           told == {f \in run.findings : f.id[1] = "llm" /\ f.ip = x}
<1>1. \A f \in hits : f \in run.findings /\ f.ip = x /\ f.type \in BruteRules
  BY NamesAssumption DEF Entity, BruteRules
<1>2. Attempts(run, x) = <<SumFunction(all)>>
  BY DEF Attempts, Total
<1>3. IsFiniteSet(hits) /\ \A f \in hits : Occurrences(f) \in Nat
  BY <1>1, FindingsAreFinite, RestsOn, FS_Subset
<1>4. D \cap M = {} /\ hits = D \cup M /\ M \subseteq told /\ D \subseteq hits
  BY <1>1
<1>5. /\ Counts(all) /\ DOMAIN all = hits /\ DOMAIN d = D /\ DOMAIN m = M
      /\ (\A f \in D : d[f] = Occurrences(f) /\ all[f] = d[f])
      /\ (\A f \in M : m[f] = Occurrences(f) /\ all[f] = m[f])
  BY <1>3, <1>4 DEF Counts
<1>6. IsFiniteSet(L) /\ Cardinality(L) \in Nat
  BY LinesOfLog, FS_Subset, FS_CardinalityType DEF Loaded
<1>7. IsFiniteSet(told) /\ Cardinality(told) \in Nat
  BY FindingsAreFinite, FS_Subset, FS_CardinalityType
<1>8. ASSUME NEW f \in D
      PROVE  \E k : FromReport(f, k) /\ \E y \in BruteForce(run.log) :
                 y.about = x /\ run.report[k] = Reported(run.log, y)
  BY <1>1, AttemptsReported
<1>9. ASSUME NEW f \in M PROVE Occurrences(f) = 1
  <2>1. \A k : FromReport(f, k) => f.id[1] = run.report[k].source
    BY DEF FromReport, AdaptedFinding
  <2>2. \A y : Reported(run.log, y).source = "detector"
    BY NumbersAre
  <2> QED BY <1>1, <2>1, <2>2, AttemptsReported
<1>10. ASSUME NEW f \in D PROVE Occurrences(f) <= Cardinality(L)
  <2>0. PICK k : FromReport(f, k) /\ \E y \in BruteForce(run.log) :
           y.about = x /\ run.report[k] = Reported(run.log, y)
    BY <1>8
  <2>1. PICK y \in BruteForce(run.log) :
           FromReport(f, k) /\ y.about = x /\ run.report[k] = Reported(run.log, y)
    BY <2>0
  <2>2. f.on = Fails(run.log, x) /\ f.on # {}
    <3>1. f.on = run.report[k].on /\ run.report[k].on = y.on
      BY <2>1 DEF FromReport, AdaptedFinding, Reported
    <3> QED BY <2>1, <3>1, BruteForceOf DEF Loaded
  <2>3. f.on \subseteq L
    BY <2>2, FailsAre DEF Loaded
  <2>4. Occurrences(f) = 1
    <3>1. Occurrences(f) = Occurring(run.log, y)
      BY <2>1 DEF FromReport, AdaptedFinding, Reported, Occurrences
    <3>2. y.type \in {"auth_bruteforce", "auth_bruteforce_success"}
      BY <2>1, BruteForceOf DEF Loaded, AuthTypes
    <3>3. y.type \notin SingleRecord \cup {"error_rate_spike", "windows_cbs"} \cup Counted
      BY <3>2, DetectionAssumption DEF DetectionAssumption, SingleRecord, Counted
    <3> QED BY <3>1, <3>3, DedupedAre DEF Loaded
  <2> HIDE DEF L
  <2>5. Cardinality(L) # 0
    BY <1>6, <2>2, <2>3, FS_EmptySet
  <2> QED BY <1>6, <2>4, <2>5
<1>11. \A f, g \in D : f = g
  <2> SUFFICES ASSUME NEW f \in D, NEW g \in D PROVE f = g
    OBVIOUS
  <2>1. f \in run.findings /\ g \in run.findings
    BY <1>1
  <2> QED BY <1>8, <2>1, OneBruteForce
<1> HIDE DEF hits, all, D, M, d, m, L, told
<1>12. SumFunction(all) = SumFunction(d) + SumFunction(m) /\ Counts(d) /\ Counts(m)
       /\ SumFunction(d) \in Nat /\ SumFunction(m) \in Nat
  <2>1. /\ DOMAIN d \cap DOMAIN m = {} /\ DOMAIN all = DOMAIN d \cup DOMAIN m
        /\ (\A f \in DOMAIN d : all[f] = d[f]) /\ \A f \in DOMAIN m : all[f] = m[f]
    BY <1>4, <1>5
  <2>2. Counts(all)
    BY <1>5
  <2> QED BY <2>1, <2>2, SumParts
<1>13. SumFunction(d) <= Cardinality(L)
  BY <1>5, <1>6, <1>10, <1>11, <1>12, SumOfOne
<1>14. SumFunction(m) = Cardinality(M)
  BY <1>5, <1>9, <1>12, SumOfOnes
<1>15. Cardinality(M) <= Cardinality(told) /\ Cardinality(M) \in Nat
  BY <1>4, <1>7, FS_Subset, FS_CardinalityType
<1>16. SumFunction(all) <= Cardinality(L) + Cardinality(told)
  BY <1>6, <1>7, <1>12, <1>13, <1>14, <1>15
<1>17. Attempts(run, x)[1] = SumFunction(all)
  BY <1>2
<1> QED BY <1>16, <1>17 DEF L, told

LEMMA AttemptsAreRight ==
    ASSUME RunOK(run), NEW x \in IPv4
    PROVE  AttemptsAreLines(AttemptSeries(<<run>>, x).points, x)
<1> DEFINE p == Attempts(run, x)
           points == AttemptSeries(<<run>>, x).points
           told == {f \in run.findings : f.id[1] = "llm" /\ f.ip = x}
           L == {n \in DOMAIN run.log : run.log[n].ip = x}
<1>2. points = p
  <2> DEFINE n == Total({f \in run.findings : Entity(f)[1] = x /\ f.type \in BruteRules}, Occurrences)
             V == {n}
  <2>1. points = FlattenSeq([k \in DOMAIN <<run>> |-> Attempts(<<run>>[k], x)])
    BY DEF AttemptSeries
  <2>2. [k \in DOMAIN <<run>> |-> Attempts(<<run>>[k], x)] = <<p>>
    <3>1. DOMAIN <<run>> = 1..1 /\ <<run>>[1] = run
      OBVIOUS
    <3> HIDE DEF p
    <3> QED BY <3>1 DEF p
  <2>3. p \in Seq(V)
    <3>1. p = <<>> \/ p = <<n>>
      BY DEF Attempts
    <3> HIDE DEF p, n
    <3>2. <<>> \in Seq(V) /\ <<n>> \in Seq(V)
      OBVIOUS
    <3> QED BY <3>1, <3>2
  <2> HIDE DEF p, V, n, points
  <2> QED BY <2>1, <2>2, <2>3, FlattenOne
<1>3. ASSUME p # <<>>, x \notin {f.host : f \in run.findings}
      PROVE  p[1] <= Cardinality(L) + Cardinality(told)
  <2>1. run.findings # {}
    BY <1>3 DEF Attempts
  <2> QED BY <1>3, <2>1, RunIsLoaded, AttemptsAreFew
<1> HIDE DEF p, points, L, told
<1>4. points # <<>> /\ x \notin {f.host : f \in run.findings} => points[1] <= Cardinality(L) + Cardinality(told)
  BY <1>2, <1>3
<1> QED BY <1>4 DEF AttemptsAreLines, L, told, points

(* No finding is lost between the report and the incidents: under every      *)
(* circumstance a log can be analysed and opened in, adapt and               *)
(* derive_incidents leave each finding in exactly one incident, which is     *)
(* about its entity, is no less severe, has a priority no tagged asset of    *)
(* the finding would raise, spans its stamp, and holds no longer silence     *)
(* than the documented gap unless it rolls up lone findings of low severity. *)
THEOREM FindingsHaveOneIncident == AdviceSpec => []EveryFindingHasOneIncident
<1>1. AdviceInv => EveryFindingHasOneIncident
  BY FindingHasOneIncident DEF AdviceInv
<1> QED BY <1>1, AdviceInductive, PTL

\* The screens of a run that is loaded, or of none.
LEMMA ViewsAreRight ==
    ASSUME RunOK(run)
    PROVE  ViewsAgree
<1>1. AssetsAgree(DeriveAssets(run))
  BY AddressesAreRight, OverviewIsRight DEF AssetsAgree
<1>2. \A x \in IPv4 : AttemptsAreLines(AttemptSeries(<<run>>, x).points, x)
  BY AttemptsAreRight
<1> QED BY <1>1, <1>2, EventsAreRight, IncidentsAreListed DEF ViewsAgree

(* Every screen counts the same findings: the events show the worst verdict  *)
(* of the rules on their line; the assets of an address have the findings    *)
(* and the severity of its incidents, and whoever asks the copilot about it  *)
(* is told of each; the time chart and the findings without a stamp add up   *)
(* to the Overview, which has as many assets at risk as severe incidents     *)
(* name; a failed attempt is counted once; the incidents name every finding. *)
THEOREM EveryFindingCounts == AdviceSpec => []EveryFindingIsCounted
<1>1. AdviceInv => EveryFindingIsCounted
  BY FindingHasOneIncident, ViewsAreRight DEF AdviceInv, EveryFindingIsCounted
<1> QED BY <1>1, AdviceInductive, PTL

-----------------------------------------------------------------------------
(* The offers of the console.  What a rule found of an entity, on a line     *)
(* that was kept, is shown with lines of the log, of the address it is about.*)
CitedOf(l, x) == LineNumbers(Reported(l, x)) \cap DOMAIN l

LEMMA BruteForceCited ==
    ASSUME NEW l \in Seq(Lines), NEW x \in BruteForce(l)
    PROVE  CitedOf(l, x) # {} /\ \A n \in CitedOf(l, x) : l[n].ip = x.about
<1> DEFINE D == {i \in DOMAIN l : l[i].ip = x.about}
           t == Timeline(l, x)
           fails == Sorted(l, Fails(l, x.about))
           wins == Sorted(l, Compromises(l, x.about))
<1>1. x.type \in AuthTypes /\ x.on = Fails(l, x.about) /\ x.on # {} /\ x.on \subseteq DOMAIN l
  BY BruteForceOf
<1>2. x.on \subseteq D /\ Compromises(l, x.about) \subseteq D /\ x.on \in SUBSET Nat
  BY <1>1, FailsAre, KeptIs, LinesOfLog DEF Compromises
<1>3. SetMin(x.on) \in x.on
  BY <1>1, <1>2, LeastIs
<1>4. SetMax(x.on) \in x.on
  <2>1. IsFiniteSet(x.on)
    BY <1>1, FailsAre
  <2> QED BY <1>1, <1>2, <2>1, SpanOfIs
<1>5. fails \in Seq(D) /\ wins \in Seq(D)
  <2>1. fails \in Seq(x.on) /\ wins \in Seq(Compromises(l, x.about))
    BY <1>1, <1>2, SortedLines
  <2> HIDE DEF D, fails, wins
  <2>2. fails \in Seq(D)
    BY <1>2, <2>1
  <2>3. wins \in Seq(D)
    BY <1>2, <2>1
  <2> QED BY <2>2, <2>3
<1>6. t = Milestones(fails, IF x.type = "auth_bruteforce_success" THEN Earliest(wins) ELSE <<>>)
  BY <1>1, TimelineCases DEF AuthEvents
<1> HIDE DEF fails, wins, t
<1>7. t \in Seq(D)
  <2> HIDE DEF D
  <2>1. <<>> \in Seq(D)
    OBVIOUS
  <2>2. Earliest(wins) \in Seq(D)
    BY <1>5, MilestonesAre
  <2> DEFINE s == IF x.type = "auth_bruteforce_success" THEN Earliest(wins) ELSE <<>>
  <2>3. s \in Seq(D)
    BY <2>1, <2>2
  <2> HIDE DEF s
  <2>4. Milestones(fails, s) \in Seq(D)
    BY <1>5, <2>3, MilestonesAre
  <2> QED BY <1>6, <2>4 DEF s
<1>8. ToSet(t) \subseteq D
  BY <1>7 DEF ToSet
<1>9. LineNumbers(Reported(l, x)) = ToSet(t) \cup {SetMin(x.on), SetMax(x.on)}
  BY <1>1, EvidenceIs, NumbersAre DEF t
<1>10. CitedOf(l, x) \subseteq D /\ SetMin(x.on) \in CitedOf(l, x)
  BY <1>1, <1>2, <1>3, <1>4, <1>8, <1>9 DEF CitedOf
<1> QED BY <1>10

LEMMA BreakInCited ==
    ASSUME NEW l \in Seq(Lines), NEW x \in BreakIns(l), x.on \cap Kept(l) # {}
    PROVE  CitedOf(l, x) # {} /\ \A n \in CitedOf(l, x) : l[n].ip = x.about
<1> DEFINE S == x.on \cap Kept(l)
           t == Timeline(l, x)
<1>1. x.type = "possible_break_in" /\ \A i \in S : i \in DOMAIN l /\ l[i].ip = x.about
  BY BreakInOf
<1>2. t = FirstAndLast(ByTime(l, S))
  BY <1>1, TimelineCases
<1>3. S \subseteq DOMAIN l /\ S # {}
  BY <1>1
<1> HIDE DEF S
<1>4. ByTime(l, S) \in Seq(S) /\ ByTime(l, S) # <<>>
  BY <1>3, ByTimeIs
<1>5. t \in Seq(S) /\ t # <<>>
  BY <1>2, <1>4, MilestonesAre
<1> HIDE DEF t
<1>6. ToSet(t) \subseteq S /\ ToSet(t) # {}
  BY <1>5, ElementsOf DEF ToSet
<1>7. LineNumbers(Reported(l, x)) = ToSet(t)
  BY <1>1, EvidenceIs, NumbersAre DEF t
<1> QED BY <1>1, <1>3, <1>6, <1>7 DEF CitedOf

LEMMA SingleLineCited ==
    ASSUME NEW l \in Seq(Lines), NEW x, Plain(l, x), x.type \in SingleLine, x.on \cap Kept(l) # {}
    PROVE  /\ CitedOf(l, x) # {}
           /\ AddressIn(l, x) \in IPv4 => \A n \in CitedOf(l, x) : l[n].ip = AddressIn(l, x)
<1> DEFINE shown == LineNumbers(Reported(l, x))
<1>1. PICK i \in Kept(l) : x.on = {i}
  BY DEF Plain
<1>2. shown # {} /\ shown \subseteq DOMAIN l /\ \A n \in shown : l[n] = l[i]
  BY <1>1, RecordShown
<1>3. SetMin(x.on) = i
  <2>1. {i} \in SUBSET Nat
    BY KeptIs, LinesOfLog
  <2>2. SetMin({i}) \in {i}
    BY <2>1, LeastIs
  <2> QED BY <1>1, <2>2
<1>4. AddressIn(l, x) \in IPv4 => AddressIn(l, x) = l[i].ip
  BY <1>3, DetectionAssumption DEF AddressIn, Plain, DetectionAssumption
<1> HIDE DEF shown
<1> QED BY <1>2, <1>4 DEF CitedOf, shown

LEMMA LinesAreCited ==
    ASSUME Loaded, run.readable, NEW f \in run.findings, f.id[1] = "detector",
           f.on \cap Kept(run.log) # {}, Entity(f)[2] # "rule"
    PROVE  /\ f.lines \subseteq DOMAIN run.log /\ f.lines # {}
           /\ f.ip \in IPv4 => \A n \in f.lines : run.log[n].ip = f.ip
<1> DEFINE l == run.log
<1>0. l \in Seq(Lines)
  BY DEF Loaded
<1>1. PICK k : FromReport(f, k)
  BY FindingFrom
<1>2. run.report[k].source = "detector"
  BY <1>1 DEF FromReport, AdaptedFinding
<1>3. PICK x \in Findings(l) : run.report[k] = Reported(l, x)
  <2>1. \A y : ByModel(y).source = "llm"
    BY DEF ByModel
  <2> QED BY <1>1, <1>2, <2>1 DEF FromReport
<1> DEFINE S == CitedOf(l, x)
<1>4. Shown(run, run.report[k]) = S
  BY <1>3 DEF Shown, CitedOf
<1>5. /\ f.lines = (IF S # {} THEN S ELSE {Excerpt}) /\ f.ip = AddressIn(l, x) /\ f.on = x.on
      /\ S = {} => f.host = HostIn(l, x)
  <2>1. f.on = run.report[k].on /\ run.report[k].on = x.on
    BY <1>1, <1>3 DEF FromReport, AdaptedFinding, Reported
  <2>2. f.ip = run.report[k].ip /\ f.host = TargetHost(run, run.report[k])
        /\ f.lines = (IF S # {} THEN S ELSE {Excerpt})
    BY <1>1, <1>4 DEF FromReport, AdaptedFinding
  <2>3. S = {} => TargetHost(run, run.report[k]) = run.report[k].host
    BY <1>4 DEF TargetHost
  <2>4. run.report[k].ip = AddressIn(l, x) /\ run.report[k].host = HostIn(l, x)
    BY <1>3, NumbersAre
  <2> QED BY <2>1, <2>2, <2>3, <2>4
<1>6. S \subseteq DOMAIN l
  BY DEF CitedOf
<1>7. S # {} /\ (f.ip \in IPv4 => \A n \in S : l[n].ip = f.ip)
  <2>1. CASE x \in BruteForce(l)
    <3>1. x.type \in AuthTypes
      BY <1>0, <2>1, BruteForceOf
    <3>2. f.ip = x.about
      BY <1>5, <3>1 DEF AddressIn, AuthTypes
    <3> QED BY <1>0, <2>1, <3>2, BruteForceCited
  <2>2. CASE x \in BreakIns(l)
    <3>1. x.type = "possible_break_in"
      BY <1>0, <2>2, BreakInOf
    <3>2. f.ip = x.about
      BY <1>5, <3>1 DEF AddressIn
    <3> QED BY <1>0, <1>5, <2>2, <3>2, BreakInCited
  <2>3. CASE Plain(l, x) /\ x.type \in SingleLine
    BY <1>0, <1>5, <2>3, SingleLineCited
  <2>4. CASE Plain(l, x) /\ x.type \notin SingleLine
    <3>1. f.ip \notin IPv4
      BY <1>5, <2>4, DetectionAssumption DEF AddressIn, Plain, SingleLine, DetectionAssumption
    <3>2. f.host # NoHost
      BY <3>1 DEF Entity
    <3>3. HostIn(l, x) = NoHost
      BY <2>4 DEF HostIn, SingleRecord, SingleLine
    <3> QED BY <1>5, <3>1, <3>2, <3>3
  <2> QED BY <1>0, <2>1, <2>2, <2>3, <2>4, FindingsAre
<1> HIDE DEF S
<1> QED BY <1>5, <1>6, <1>7

-----------------------------------------------------------------------------
(* What the model ranks is of the eligible runbooks, each once.              *)
LEMMA FilteredIs ==
    ASSUME NEW V, NEW r \in Seq(V), NEW eligible
    PROVE  LET q == Filtered(eligible, r)
           IN  ToSet(q) \subseteq eligible /\ Len(q) = Cardinality(ToSet(q))
<1> DEFINE firsts == {k \in DOMAIN r : r[k] \in eligible /\ \A j \in 1..k - 1 : r[j] # r[k]}
           o == InFile(firsts)
           q == Filtered(eligible, r)
           n == Cardinality(firsts)
<1>1. q = [k \in DOMAIN o |-> r[o[k]]]
  BY DEF Filtered
<1>2. firsts \subseteq 1..Len(r) /\ Len(r) \in Nat
  OBVIOUS
<1>3. IsFiniteSet(firsts) /\ firsts \subseteq Nat
  <2>1. IsFiniteSet(1..Len(r))
    BY <1>2, FS_Interval
  <2>2. 1..Len(r) \subseteq Nat
    BY <1>2
  <2> HIDE DEF firsts
  <2>3. IsFiniteSet(firsts)
    BY <1>2, <2>1, FS_Subset
  <2> QED BY <1>2, <2>2, <2>3
<1>4. \A j, k \in firsts : r[j] = r[k] => j = k
  <2> SUFFICES ASSUME NEW j \in firsts, NEW k \in firsts, r[j] = r[k] PROVE j = k
    OBVIOUS
  <2>1. j \in Nat \ {0} /\ k \in Nat \ {0}
    BY <1>2
  <2>2. j \notin 1..k - 1 /\ k \notin 1..j - 1
    OBVIOUS
  <2> QED BY <2>1, <2>2
<1>5. \A k \in firsts : r[k] \in eligible
  OBVIOUS
<1> HIDE DEF firsts
<1>6. /\ o \in Seq(firsts) /\ DOMAIN o = 1..n /\ n \in Nat
      /\ \A j, k \in 1..n : o[j] = o[k] => j = k
  BY <1>3, InFileIs
<1>7. \A k \in 1..n : o[k] \in firsts
  BY <1>6
<1> HIDE DEF o, n, q
<1>8. DOMAIN q = 1..n /\ \A k \in 1..n : q[k] = r[o[k]]
  BY <1>1, <1>6
<1>9. \A k \in 1..n : q[k] \in eligible
  BY <1>5, <1>7, <1>8
<1>10. \A j, k \in 1..n : q[j] = q[k] => j = k
  BY <1>4, <1>6, <1>7, <1>8
<1> DEFINE T == ToSet(q)
<1>11. T = {q[k] : k \in 1..n}
  BY <1>8 DEF ToSet
<1>12. q \in [1..n -> T] /\ \A z \in T : \E k \in 1..n : q[k] = z
  <2>1. q = [k \in 1..n |-> q[k]]
    BY <1>1, <1>8
  <2>2. \A k \in 1..n : q[k] \in T
    BY <1>11
  <2> HIDE DEF T
  <2> QED BY <1>11, <2>1, <2>2
<1>13. IsFiniteSet(1..n) /\ Cardinality(1..n) = n
  BY <1>6, FS_Interval
<1> HIDE DEF T
<1>14. Cardinality(T) = n
  BY <1>10, <1>12, <1>13, SameSize
<1>15. Len(q) = n
  <2>1. q \in Seq(T)
    BY <1>6, <1>12
  <2> QED BY <1>6, <1>8, <2>1
<1>16. T \subseteq eligible
  BY <1>9, <1>11
<1> QED BY <1>14, <1>15, <1>16 DEF T, q

LEMMA RankingsAreBounded ==
    ASSUME NEW eligible
    PROVE  RankingIsBounded(eligible)
<1> SUFFICES ASSUME NEW p \in Replies
             PROVE  /\ ToSet(Advised(eligible, p).ranking) \cup Advised(eligible, p).justified \subseteq eligible
                    /\ Len(Advised(eligible, p).ranking) = Cardinality(ToSet(Advised(eligible, p).ranking))
  BY DEF RankingIsBounded
<1> DEFINE q == Filtered(eligible, p.ranking)
           a == Advised(eligible, p)
<1>1. (a.ranking = <<>> \/ a.ranking = q) /\ a.justified \subseteq eligible
  BY DEF Advised, Advisory
<1>2. p.ranking \in Seq(Runbooks \cup {NotShipped})
  BY AdviceAssumption DEF AdviceAssumption
<1>3. ToSet(q) \subseteq eligible /\ Len(q) = Cardinality(ToSet(q))
  BY <1>2, FilteredIs
<1>4. ToSet(<<>>) = {} /\ Len(<<>>) = 0 /\ Cardinality({}) = 0
  BY FS_EmptySet DEF ToSet
<1> HIDE DEF q, a
<1> QED BY <1>1, <1>3, <1>4 DEF a

-----------------------------------------------------------------------------
(* The store has no two incidents under one id, whatever was analysed and    *)
(* reopened: a sync replaces those the run has.                              *)
NoTwins(S) == \A i, j \in S : SameId(i, j) => i = j

LEMMA IncidentsHaveNoTwins ==
    ASSUME RunOK(run)
    PROVE  NoTwins(run.incidents)
<1> SUFFICES ASSUME NEW i \in run.incidents, NEW j \in run.incidents, i.ids = j.ids PROVE i = j
  BY DEF NoTwins, SameId
<1>1. PICK f \in run.findings : f.id \in i.ids
  BY IncidentNames
<1> QED BY <1>1, OneIncident

LEMMA SyncsHaveNoTwins ==
    ASSUME NEW S, NoTwins(S), NEW T, NoTwins(T)
    PROVE  NoTwins(S \cup {i \in T : \A j \in S : ~SameId(i, j)})
<1>1. \A i, j : SameId(i, j) => SameId(j, i)
  BY DEF SameId
<1> QED BY <1>1 DEF NoTwins

LEMMA StoreHasNoTwins == AdviceSpec => []NoTwins(store)
<1>1. AdviceInit => NoTwins(store)
  BY DEF AdviceInit, AnalysisInit, NoTwins
<1>2. AdviceInv => NoTwins(run.incidents)
  BY IncidentsHaveNoTwins DEF AdviceInv
<1>3. NoTwins(store) /\ NoTwins(run.incidents)' /\ [AdviceNext]_adviceVars => NoTwins(store)'
  <2> SUFFICES ASSUME NoTwins(store), NoTwins(run.incidents)', [AdviceNext]_adviceVars
               PROVE  NoTwins(store)'
    OBVIOUS
  <2>1. CASE store' = store
    BY <2>1 DEF NoTwins
  <2>2. ASSUME NEW c \in Circumstances, Publish(c) PROVE NoTwins(store)'
    <3>1. store' = run'.incidents \cup {i \in store : \A j \in run'.incidents : ~SameId(i, j)}
      BY <2>2 DEF Publish, Merged
    <3>2. NoTwins(run'.incidents)
      BY DEF NoTwins
    <3>3. NoTwins(store')
      BY <3>1, <3>2, SyncsHaveNoTwins
    <3> QED BY <3>3 DEF NoTwins
  <2> QED BY <2>1, <2>2 DEF AdviceNext, ReadLine, Reopen, adviceVars, analysisVars
<1> QED BY <1>1, <1>2, <1>3, AdviceInductive, PTL DEF AdviceSpec

-----------------------------------------------------------------------------
(* The rows of the Runbook tab.                                              *)
LEMMA RowsAre ==
    ASSUME NEW book, NEW row \in Scan(book)
    PROVE  /\ row.eligible => \E i \in run.incidents : Eligible(book, i) /\ row.incidents = {i}
           /\ ~row.eligible => row.missing # {} /\ \A i \in run.incidents : ~Eligible(book, i)
<1> DEFINE derived == run.incidents
           fit == {i \in derived : Eligible(book, i)}
           A == {Row(FALSE, {"no derived incident on this run"}, {})}
           B == {Row(TRUE, {}, {i}) : i \in fit}
           C == {Row(FALSE, Missing(book, i), {i}) : i \in Fewest(book, derived)}
<1>1. Scan(book) = CASE derived = {} -> A [] fit # {} -> B [] OTHER -> C
  BY Zenon DEF Scan
<1>2. derived = {} => fit = {}
  OBVIOUS
<1>3. \/ derived = {} /\ row \in A
      \/ fit # {} /\ row \in B
      \/ fit = {} /\ row \in C
  <2> HIDE DEF derived, fit, A, B, C
  <2>1. Scan(book) = A \/ Scan(book) = B \/ Scan(book) = C
    BY <1>1
  <2> QED BY <1>1, <1>2
<1>4. CASE derived = {} /\ row \in A
  <2>1. row = Row(FALSE, {"no derived incident on this run"}, {})
    BY <1>4
  <2>2. ~row.eligible /\ row.missing = {"no derived incident on this run"}
    BY <2>1 DEF Row
  <2>3. run.incidents = {}
    BY <1>4
  <2> QED BY <2>2, <2>3
<1>5. CASE fit # {} /\ row \in B
  BY <1>5 DEF Row
<1>6. CASE fit = {} /\ row \in C
  <2>1. PICK i \in Fewest(book, derived) : row = Row(FALSE, Missing(book, i), {i})
    BY <1>6
  <2>2. i \in derived /\ \A j \in derived : ~Eligible(book, j)
    BY <1>6 DEF Fewest
  <2>3. Missing(book, i) # {}
    BY <2>2 DEF Eligible
  <2> QED BY <2>1, <2>2, <2>3 DEF Row
<1> QED BY <1>3, <1>4, <1>5, <1>6

\* What is eligible can be requested.
LEMMA RequestIsGood ==
    ASSUME RunOK(run), NoTwins(store), NEW book \in Runbooks, NEW i \in run.incidents, Eligible(book, i),
           i \in store, ByRulesAlone(i), OnKeptLines(i), run.readable
    PROVE  /\ CreateApproval(i, book) = [status |-> 201, refs |-> Refs(i)]
           /\ Refs(i) # {} /\ \A n \in Refs(i) : i.kind = "ip" => run.log[n].ip = i.entity
           /\ \A s \in Known(i) : book \in EligibleRunbooks(s)
<1>1. PICK g \in run.findings : g.id \in i.ids
  BY IncidentNames
<1>2. Loaded
  BY <1>1, RunIsLoaded
<1>3. i.kind # "rule"
  <2>1. i.kind \in book.kinds
    BY DEF Eligible, Missing
  <2> QED BY <2>1, EligibilityAssumption DEF EligibilityAssumption
<1>4. ASSUME NEW f \in Members(i)
      PROVE  /\ f.lines \subseteq DOMAIN run.log /\ f.lines # {}
             /\ i.kind = "ip" => \A n \in f.lines : run.log[n].ip = i.entity
  <2>1. f \in run.findings /\ f.id \in i.ids
    BY DEF Members
  <2>2. <<i.entity, i.kind>> = Entity(f)
    BY <2>1, IncidentNames
  <2>3. Entity(f)[2] # "rule"
    BY <1>3, <2>2
  <2>4. f.id[1] = "detector" /\ f.on \cap Kept(run.log) # {}
    BY DEF ByRulesAlone, OnKeptLines
  <2>5. i.kind = "ip" => f.ip \in IPv4 /\ i.entity = f.ip
    BY <2>2 DEF Entity
  <2> QED BY <1>2, <2>1, <2>3, <2>4, <2>5, LinesAreCited
<1>5. Refs(i) \subseteq DOMAIN run.log
  BY <1>4 DEF Refs
<1>6. Refs(i) # {}
  <2>1. g \in Members(i)
    BY <1>1 DEF Members
  <2> QED BY <1>4, <2>1 DEF Refs
<1>7. \A n \in Refs(i) : i.kind = "ip" => run.log[n].ip = i.entity
  BY <1>4 DEF Refs
<1>8. Creates(i)
  BY <1>2, <1>5, LinesOfLog DEF Creates, Excerpt, Loaded
<1>9. Known(i) = {i}
  <2>1. SameId(i, i)
    BY DEF SameId
  <2> QED BY <2>1 DEF Known, NoTwins
<1>10. (CHOOSE k \in Known(i) : TRUE) = i
  BY <1>9
<1>11. CreateApproval(i, book) = [status |-> 201, refs |-> Refs(i)]
  BY <1>8, <1>9, <1>10 DEF CreateApproval
<1> QED BY <1>6, <1>7, <1>9, <1>11 DEF EligibleRunbooks

(* The console's places do not contradict each other, for any log, runbooks, *)
(* inventory, model and order of analyses: what copilot_runbook_scan shows   *)
(* eligible, of an incident rules alone made on lines that were kept,        *)
(* create_approval accepts, with lines of the log as its evidence, each of   *)
(* the address the response is about; what it shows as missing no incident   *)
(* has; and _recommendation_advisory ranks eligible runbooks only, each once.*)
THEOREM OffersAreKept == AdviceSpec => []OffersAgree
<1>1. ASSUME AdviceInv, NoTwins(store) PROVE OffersAgree
  <2>1. RunOK(run)
    BY <1>1 DEF AdviceInv
  <2>2. ASSUME NEW book \in Runbooks, NEW row \in Scan(book), row.eligible
        PROVE  OfferIsGood(book, row)
    <3>1. PICK j \in run.incidents : Eligible(book, j) /\ row.incidents = {j}
      BY <2>2, RowsAre
    <3> SUFFICES ASSUME NEW i \in row.incidents \cap store, ByRulesAlone(i), OnKeptLines(i), run.readable
                 PROVE  LET asked == RequestCaseApproval(book, row)
                        IN  /\ asked.status = 201 /\ asked.refs # {}
                            /\ \A n \in asked.refs : i.kind = "ip" => run.log[n].ip = i.entity
                            /\ \A s \in Known(i) : book \in EligibleRunbooks(s)
      BY DEF OfferIsGood
    <3>2. i = j /\ i \in run.incidents /\ Eligible(book, i) /\ i \in store
      BY <3>1
    <3>3. (CHOOSE k \in row.incidents : TRUE) = i
      BY <3>1, <3>2
    <3>4. RequestCaseApproval(book, row) = CreateApproval(i, book)
      BY <2>2, <3>3 DEF RequestCaseApproval
    <3> QED BY <1>1, <2>1, <3>2, <3>4, RequestIsGood
  <2>3. ASSUME NEW book \in Runbooks, NEW row \in Scan(book), ~row.eligible
        PROVE  RefusalIsGood(book, row)
    BY <2>3, RowsAre DEF RefusalIsGood, EligibleRunbooks
  <2> QED BY <2>2, <2>3, RankingsAreBounded DEF OffersAgree
<1> QED BY <1>1, AdviceInductive, StoreHasNoTwins, PTL

-----------------------------------------------------------------------------
(* Approvals: what its handlers and its ledger may say.                      *)
Saving == {"open", "write", "audit"}

(* The approval r works on was approved, by r, in the ledger. *)
ApprovedBy(r) == InLedger(r, target[r], "approve", "approved")

(* Everything r may rely on, by where it stands. *)
HandlerOK(r) ==
    /\ pc[r] = "unsent" => r \notin fired
    /\ pc[r] \in {"stepup", "load", "evaluate", "fire"} => r \notin fired
    /\ op[r] = "create" => pc[r] \notin {"stepup", "audit", "fire"}
    /\ op[r] = "reject" => pc[r] # "evaluate"
    /\ pc[r] \in InService /\ ~(op[r] = "create" /\ pc[r] = "evaluate")
          => target[r] \in Ids
    /\ pc[r] \in InService \ {"stepup"} /\ op[r] # "create" => r \in verified
    /\ pc[r] \in Saving /\ op[r] = "reject" => mem[r][target[r]] = "rejected"
    /\ pc[r] \in Saving /\ op[r] = "approve" /\ r \notin fired
          => /\ mem[r][target[r]] \in {"approved", "failed"}
             /\ mem[r][target[r]] = "approved" => seen[r]
    /\ pc[r] \in Saving /\ r \in fired
          => mem[r][target[r]] = IF r \in contained THEN "executed" ELSE "failed"
    /\ pc[r] = "fire" => op[r] = "approve" /\ seen[r] /\ ApprovedBy(r)
    /\ r \in fired => /\ op[r] = "approve" /\ seen[r] /\ r \in verified
                      /\ target[r] \in Ids /\ ApprovedBy(r)

HandlersOK == \A r \in Requests : HandlerOK(r)

(* Each entry is of a request that was sent, and says rejected only for a  *)
(* reject.                                                                 *)
EntriesOK ==
    \A k \in DOMAIN ledger :
        /\ pc[ledger[k].by] # "unsent"
        /\ ledger[k].status = "rejected" => op[ledger[k].by] = "reject"

(* An executed approval has a connector that answered ok behind it. *)
Backed(a) == \E r \in contained : target[r] = a /\ ApprovedBy(r)

CopiesOK ==
    /\ \A a \in Ids : disk.records[a] = "executed" => Backed(a)
    /\ \A q \in Requests, a \in Ids : mem[q][a] = "executed" => Backed(a)

IInv == TypeOK /\ HandlersOK /\ EntriesOK /\ CopiesOK /\ LedgerIsTrue

(* A decision somebody answers for: it is in the ledger, or the handler that *)
(* took it has yet to append it, or was cut short before it could.           *)
Decided == {"approved"} \cup Settled
Cutting == {"open", "write", "audit", "raised", "killed"}

InLedgerAs(a, status) ==
    \E k \in DOMAIN ledger : ledger[k].id = a /\ ledger[k].status = status

AnswersFor(r, a, status) ==
    target[r] = a /\ mem[r][a] = status /\ pc[r] \in Cutting

Answered(a, status) ==
    InLedgerAs(a, status) \/ \E r \in Requests : AnswersFor(r, a, status)

CreatesOK ==
    \A r \in Requests :
        op[r] = "create" /\ pc[r] \in {"open", "write"} => mem[r][target[r]] = "pending"

DecisionsOK ==
    /\ \A a \in Ids : disk.records[a] \in Decided => Answered(a, disk.records[a])
    /\ \A q \in Requests, a \in Ids : mem[q][a] \in Decided => Answered(a, mem[q][a])

AuditInv == IInv /\ CreatesOK /\ DecisionsOK

-----------------------------------------------------------------------------
(* soc._load returns a store whatever it finds. *)
LEMMA LoadIsStore ==
  ASSUME disk \in File
  PROVE  /\ Load(disk) = disk.records
         /\ Load(disk) \in Store
  BY DEF File, Json, Torn, Load, NoRecords, Store, Status, ApprovalStates, Unreadable

LEMMA JsonIsFile ==
  ASSUME NEW s \in Store
  PROVE  Json(s) \in File /\ Json(s).records = s
  BY DEF File, Json

LEMMA TornIsFile ==
  ASSUME NEW f \in Unreadable
  PROVE  Torn(f) \in File /\ Torn(f).records = NoRecords
  BY DEF File, Torn

LEMMA NoRecordsIsStore == NoRecords \in Store
  BY DEF NoRecords, Store, Status

LEMMA LedgerEntries ==
  ASSUME ledger \in Seq(Entry)
  PROVE  /\ DOMAIN ledger = 1..Len(ledger) /\ Len(ledger) \in Nat
         /\ \A k \in DOMAIN ledger : ledger[k].by \in Requests
  <1>1. \A k \in DOMAIN ledger : ledger[k] \in Entry
    OBVIOUS
  <1> QED
    BY <1>1 DEF Entry

(* An entry appended leaves the others where they are. *)
LEMMA AppendKeeps ==
  ASSUME ledger \in Seq(Entry), NEW e \in Entry, ledger' = Append(ledger, e)
  PROVE  /\ ledger' \in Seq(Entry)
         /\ DOMAIN ledger' = DOMAIN ledger \cup {Len(ledger) + 1}
         /\ DOMAIN ledger = 1..Len(ledger) /\ Len(ledger) \in Nat
         /\ \A k \in DOMAIN ledger : ledger'[k] = ledger[k]
         /\ ledger'[Len(ledger) + 1] = e
  OBVIOUS

LEMMA LedgerGrows ==
  ASSUME ledger \in Seq(Entry), NEW e \in Entry, ledger' = Append(ledger, e),
         NEW r, NEW a, NEW step, NEW status, InLedger(r, a, step, status)
  PROVE  InLedger(r, a, step, status)'
  BY AppendKeeps DEF InLedger

-----------------------------------------------------------------------------
(* The entry a handler is about to append is one the ledger may hold. *)
LEMMA EntryIsEntry ==
  ASSUME TypeOK, HandlersOK, NEW r \in Requests, pc[r] = "audit"
  PROVE  [by |-> r, id |-> target[r], step |-> StepOf(r),
          status |-> mem[r][target[r]]] \in Entry
  <1>1. HandlerOK(r)
    BY DEF HandlersOK
  <1>2. op[r] \in {"approve", "reject"}
    BY <1>1 DEF HandlerOK, TypeOK, Ops
  <1>3. target[r] \in Ids
    BY <1>1 DEF HandlerOK, InService
  <1>4. mem[r][target[r]] \in {"approved"} \cup Settled
    <2>1. CASE r \in fired
      BY <2>1, <1>1 DEF HandlerOK, Saving, Settled
    <2>2. CASE r \notin fired
      BY <2>2, <1>1, <1>2 DEF HandlerOK, Saving, Settled
    <2> QED
      BY <2>1, <2>2
  <1> QED
    BY <1>2, <1>3, <1>4 DEF StepOf, Entry

THEOREM InitTypeOK == ASSUME Init PROVE TypeOK
  <1>1. disk \in File
    BY NoRecordsIsStore, JsonIsFile DEF Init
  <1>2. mem \in [Requests -> Store]
    BY NoRecordsIsStore DEF Init
  <1> QED
    BY <1>1, <1>2 DEF Init, TypeOK, PCs, Ops

(* Type correctness is inductive given what handlers may rely on. *)
LEMMA NextTypeOK ==
  ASSUME TypeOK, HandlersOK, [Next]_vars
  PROVE  TypeOK'
  <1> USE DEF TypeOK, Goto, PCs, InService, Over
  <1>1. ASSUME NEW r \in Requests, SendCreate(r) PROVE TypeOK'
    BY <1>1 DEF SendCreate, Dispatch, files, effects, world, counters, Ops
  <1>2. ASSUME NEW r \in Requests, NEW o \in {"approve", "reject"}, NEW a \in Ids,
               SendDecision(r, o, a)
        PROVE  TypeOK'
    BY <1>2 DEF SendDecision, Dispatch, files, effects, world, counters, Ops
  <1>3. ASSUME NEW r \in Requests, Handle(r) PROVE TypeOK'
    <2> USE DEF files, effects, world, request, counters
    <2>1. CASE RefuseCreate(r)
      BY <2>1 DEF RefuseCreate
    <2>2. CASE \E a \in Ids : AcceptCreate(r, a)
      BY <2>2 DEF AcceptCreate
    <2>3. CASE LoadForCreate(r)
      <3>1. [Load(disk) EXCEPT ![target[r]] = "pending"] \in Store
        BY LoadIsStore DEF Store, Status, ApprovalStates
      <3> QED
        BY <2>3, <3>1 DEF LoadForCreate
    <2>4. CASE \E ok \in BOOLEAN : StepUp(r, ok)
      BY <2>4 DEF StepUp
    <2>5. CASE NotPending(r)
      BY <2>5 DEF NotPending
    <2>6. CASE LoadForReject(r)
      <3>1. [Load(disk) EXCEPT ![target[r]] = "rejected"] \in Store
        BY LoadIsStore DEF Store, Status, ApprovalStates, Settled
      <3> QED
        BY <2>6, <3>1 DEF LoadForReject
    <2>7. CASE LoadForApprove(r)
      BY <2>7, LoadIsStore DEF LoadForApprove
    <2>8. CASE Reevaluate(r)
      <3>1. \A s \in {"approved", "failed"} :
               [mem[r] EXCEPT ![target[r]] = s] \in Store
        BY DEF Store, Status, ApprovalStates, Settled
      <3>2. mem' \in [Requests -> Store]
        BY <2>8, <3>1 DEF Reevaluate
      <3> QED
        BY <2>8, <3>2 DEF Reevaluate
    <2>9. CASE OpenStore(r)
      BY <2>9, TornIsFile DEF OpenStore, Unreadable
    <2>10. CASE WriteStore(r)
      <3>1. disk' \in File
        BY <2>10, TornIsFile, JsonIsFile DEF WriteStore, Unreadable
      <3> QED
        BY <2>10, <3>1 DEF WriteStore
    <2>11. CASE AppendAudit(r)
      <3>1. ledger' \in Seq(Entry)
        BY <2>11, EntryIsEntry, AppendKeeps DEF AppendAudit
      <3> QED
        BY <2>11, <3>1 DEF AppendAudit
    <2>12. CASE AuditRaises(r) \/ RenderRaises(r)
      BY <2>12 DEF AuditRaises, RenderRaises
    <2>13. CASE \E ok \in BOOLEAN : FireConnector(r, ok)
      <3>1. PICK ok \in BOOLEAN : FireConnector(r, ok)
        BY <2>13
      <3>2. \A s \in {"executed", "failed"} :
               [mem[r] EXCEPT ![target[r]] = s] \in Store
        BY DEF Store, Status, ApprovalStates, Settled
      <3>3. mem' \in [Requests -> Store]
        BY <3>1, <3>2 DEF FireConnector
      <3> QED
        BY <3>1, <3>3 DEF FireConnector
    <2> QED
      BY <1>3, <2>1, <2>2, <2>3, <2>4, <2>5, <2>6, <2>7, <2>8, <2>9, <2>10,
         <2>11, <2>12, <2>13 DEF Handle
  <1>4. CASE WorldChanges
    BY <1>4 DEF WorldChanges, files, effects, request, counters
  <1>5. CASE Crash
    BY <1>5 DEF Crash, InFlight, files, effects, world, request
  <1>6. CASE UNCHANGED vars
    BY <1>6 DEF vars
  <1> QED
    BY <1>1, <1>2, <1>3, <1>4, <1>5, <1>6 DEF Next

-----------------------------------------------------------------------------
(* A step of somebody else: nothing of q changes, or only its being alive. *)
Spectator(q) ==
    /\ pc'[q] = pc[q] \/ pc'[q] = "killed"
    /\ op'[q] = op[q] /\ seen'[q] = seen[q] /\ target'[q] = target[q]
    /\ mem'[q] = mem[q]
    /\ q \in fired' <=> q \in fired
    /\ q \in contained' <=> q \in contained
    /\ q \in verified => q \in verified'

LedgerKept ==
    \A r, a, step, status :
        InLedger(r, a, step, status) => InLedger(r, a, step, status)'

LEMMA SpectatorOK ==
  ASSUME NEW q \in Requests, HandlerOK(q), Spectator(q), LedgerKept
  PROVE  HandlerOK(q)'
  <1>1. ApprovedBy(q) => ApprovedBy(q)'
    BY DEF ApprovedBy, LedgerKept, Spectator, InLedger
  <1> QED
    BY <1>1 DEF HandlerOK, Spectator, InService, Saving

LEMMA LedgerSteps ==
  ASSUME [Next]_vars
  PROVE  ledger' = ledger \/ \E r \in Requests : AppendAudit(r)
  BY DEF Next, vars, Handle, SendCreate, SendDecision, WorldChanges, Crash, RefuseCreate,
     AcceptCreate, LoadForCreate, StepUp, NotPending, LoadForReject, LoadForApprove,
     Reevaluate, OpenStore, WriteStore, AuditRaises, RenderRaises, FireConnector, files

LEMMA LedgerIsKept ==
  ASSUME TypeOK, HandlersOK, [Next]_vars
  PROVE  LedgerKept
  <1>1. CASE \E r \in Requests : AppendAudit(r)
    BY <1>1, EntryIsEntry, LedgerGrows DEF AppendAudit, LedgerKept, TypeOK
  <1>2. CASE ledger' = ledger
    BY <1>2 DEF LedgerKept, InLedger
  <1> QED
    BY <1>1, <1>2, LedgerSteps

(* Every step is a step of one request, or of none. *)
LEMMA OthersWatch ==
  ASSUME TypeOK, NEW r \in Requests,
         \/ SendCreate(r) \/ Handle(r)
         \/ \E o \in {"approve", "reject"}, a \in Ids : SendDecision(r, o, a)
  PROVE  \A q \in Requests \ {r} : Spectator(q) /\ pc'[q] = pc[q]
  <1> USE DEF TypeOK, Spectator, Goto, Dispatch, files, effects, world, request, counters
  <1> SUFFICES ASSUME NEW q \in Requests \ {r}
               PROVE  Spectator(q) /\ pc'[q] = pc[q]
    OBVIOUS
  <1>1. CASE SendCreate(r)
    BY <1>1 DEF SendCreate
  <1>2. CASE \E o \in {"approve", "reject"}, a \in Ids : SendDecision(r, o, a)
    BY <1>2 DEF SendDecision
  <1>3. CASE Handle(r)
    BY <1>3 DEF Handle, RefuseCreate, AcceptCreate, LoadForCreate, StepUp, NotPending,
       LoadForReject, LoadForApprove, Reevaluate, OpenStore, WriteStore, AppendAudit,
       AuditRaises, RenderRaises, FireConnector
  <1> QED
    BY <1>1, <1>2, <1>3

(* The handler that takes the step can rely on as much afterwards. *)
LEMMA ActorOK ==
  ASSUME TypeOK, HandlersOK, LedgerKept, NEW r \in Requests,
         \/ SendCreate(r) \/ Handle(r)
         \/ \E o \in {"approve", "reject"}, a \in Ids : SendDecision(r, o, a)
  PROVE  HandlerOK(r)'
  <1> USE DEF TypeOK, Goto, HandlerOK, InService, Saving, Over, PCs,
              files, effects, world, request, counters
  <1>0. HandlerOK(r)
    BY DEF HandlersOK
  <1>1. CASE SendCreate(r)
    BY <1>0, <1>1 DEF SendCreate, Dispatch, Ops
  <1>2. CASE \E o \in {"approve", "reject"}, a \in Ids : SendDecision(r, o, a)
    BY <1>0, <1>2 DEF SendDecision, Dispatch, Ops
  <1>3. CASE RefuseCreate(r)
    BY <1>0, <1>3 DEF RefuseCreate
  <1>4. CASE \E a \in Ids : AcceptCreate(r, a)
    BY <1>0, <1>4 DEF AcceptCreate
  <1>5. CASE LoadForCreate(r)
    BY <1>0, <1>5 DEF LoadForCreate
  <1>6. CASE \E ok \in BOOLEAN : StepUp(r, ok)
    BY <1>0, <1>6 DEF StepUp
  <1>7. CASE NotPending(r)
    BY <1>0, <1>7 DEF NotPending, ApprovedBy, InLedger
  <1>8. CASE LoadForReject(r)
    <2>1. mem'[r][target[r]] = "rejected"
      BY <1>0, <1>8, LoadIsStore DEF LoadForReject, Store
    <2> QED
      BY <1>0, <1>8, <2>1 DEF LoadForReject
  <1>9. CASE LoadForApprove(r)
    BY <1>0, <1>9 DEF LoadForApprove
  <1>10. CASE Reevaluate(r)
    <2>1. /\ mem'[r][target[r]] \in {"approved", "failed"}
          /\ mem'[r][target[r]] = "approved" => seen[r]
      BY <1>0, <1>10 DEF Reevaluate, Store
    <2> QED
      BY <1>0, <1>10, <2>1 DEF Reevaluate
  <1>11. CASE OpenStore(r)
    BY <1>0, <1>11 DEF OpenStore, ApprovedBy, InLedger
  <1>12. CASE WriteStore(r)
    BY <1>0, <1>12 DEF WriteStore, ApprovedBy, InLedger
  <1>13. CASE AppendAudit(r)
    <2>1. ApprovedBy(r) => ApprovedBy(r)'
      BY <1>13 DEF AppendAudit, LedgerKept, ApprovedBy, InLedger
    <2>2. ASSUME pc'[r] = "fire" PROVE op[r] = "approve" /\ seen[r] /\ ApprovedBy(r)'
      <3>1. mem[r][target[r]] = "approved"
        BY <1>13, <2>2 DEF AppendAudit
      <3>2. op[r] = "approve" /\ seen[r] /\ r \notin fired
        BY <1>0, <1>13, <3>1 DEF AppendAudit, Ops
      <3>3. ApprovedBy(r)'
        BY <1>13, <3>1, <3>2, EntryIsEntry, AppendKeeps
           DEF AppendAudit, ApprovedBy, InLedger, StepOf
      <3> QED
        BY <3>2, <3>3
    <2>3. pc'[r] = "fire" => r \notin fired
      BY <1>0, <1>13 DEF AppendAudit
    <2> QED
      BY <1>0, <1>13, <2>1, <2>2, <2>3 DEF AppendAudit
  <1>14. CASE AuditRaises(r) \/ RenderRaises(r)
    BY <1>0, <1>14 DEF AuditRaises, RenderRaises, ApprovedBy, InLedger
  <1>15. CASE \E ok \in BOOLEAN : FireConnector(r, ok)
    <2>1. PICK ok \in BOOLEAN : FireConnector(r, ok)
      BY <1>15
    <2>2. mem'[r][target[r]] = IF r \in contained' THEN "executed" ELSE "failed"
      BY <1>0, <2>1 DEF FireConnector, Store
    <2>3. ApprovedBy(r) => ApprovedBy(r)'
      BY <2>1 DEF FireConnector, ApprovedBy, InLedger
    <2> QED
      BY <1>0, <2>1, <2>2, <2>3 DEF FireConnector
  <1> QED
    BY <1>1, <1>2, <1>3, <1>4, <1>5, <1>6, <1>7, <1>8, <1>9, <1>10, <1>11, <1>12,
       <1>13, <1>14, <1>15 DEF Handle

LEMMA NextHandlersOK ==
  ASSUME TypeOK, HandlersOK, [Next]_vars
  PROVE  HandlersOK'
  <1> SUFFICES ASSUME NEW q \in Requests PROVE HandlerOK(q)'
    BY DEF HandlersOK
  <1>1. HandlerOK(q) /\ LedgerKept
    BY LedgerIsKept DEF HandlersOK
  <1>2. ASSUME NEW r \in Requests,
               \/ SendCreate(r) \/ Handle(r)
               \/ \E o \in {"approve", "reject"}, a \in Ids : SendDecision(r, o, a)
        PROVE  HandlerOK(q)'
    <2>1. CASE q = r
      BY <1>1, <1>2, <2>1, ActorOK
    <2>2. CASE q # r
      BY <1>1, <1>2, <2>2, OthersWatch, SpectatorOK
    <2> QED
      BY <2>1, <2>2
  <1>3. CASE WorldChanges \/ Crash \/ UNCHANGED vars
    <2>1. Spectator(q)
      BY <1>3 DEF WorldChanges, Crash, vars, Spectator, TypeOK, InFlight,
                  files, effects, world, request, counters
    <2> QED
      BY <1>1, <2>1, SpectatorOK
  <1> QED
    BY <1>2, <1>3 DEF Next

-----------------------------------------------------------------------------
(* What stands behind an executed record stays behind it. *)
LEMMA BackedStays ==
  ASSUME TypeOK, HandlersOK, [Next]_vars, NEW a \in Ids, Backed(a)
  PROVE  Backed(a)'
  <1>1. PICK r \in contained : target[r] = a /\ ApprovedBy(r)
    BY DEF Backed
  <1>2. r \in fired /\ r \in Requests
    BY DEF TypeOK
  <1>3. op[r] = "approve" /\ pc[r] # "unsent"
    BY <1>2 DEF HandlersOK, HandlerOK
  <1>4. target'[r] = target[r]
    BY <1>2, <1>3 DEF TypeOK, Next, vars, Handle, SendCreate, SendDecision, Dispatch,
       WorldChanges, Crash, RefuseCreate, AcceptCreate, LoadForCreate, StepUp,
       NotPending, LoadForReject, LoadForApprove, Reevaluate, OpenStore, WriteStore,
       AppendAudit, AuditRaises, RenderRaises, FireConnector, request
  <1>5. r \in contained'
    BY DEF Next, vars, Handle, SendCreate, SendDecision,
       WorldChanges, Crash, RefuseCreate, AcceptCreate, LoadForCreate, StepUp,
       NotPending, LoadForReject, LoadForApprove, Reevaluate, OpenStore, WriteStore,
       AppendAudit, AuditRaises, RenderRaises, FireConnector, effects
  <1>6. ApprovedBy(r)'
    BY <1>1, <1>4, LedgerIsKept DEF ApprovedBy, LedgerKept, InLedger
  <1> QED
    BY <1>1, <1>4, <1>5, <1>6 DEF Backed

LEMMA NextCopiesOK ==
  ASSUME TypeOK, HandlersOK, CopiesOK, [Next]_vars
  PROVE  CopiesOK'
  <1> DEFINE Said(copy) == \A a \in Ids : copy[a] = "executed" => Backed(a)'
  <1>0. /\ Said(disk.records) /\ Said(Load(disk)) /\ Said(NoRecords)
        /\ \A q \in Requests : Said(mem[q])
    BY BackedStays, LoadIsStore DEF CopiesOK, TypeOK, NoRecords
  <1>1. SUFFICES Said(disk'.records) /\ \A q \in Requests : Said(mem'[q])
    BY DEF CopiesOK
  <1> HIDE DEF Said
  <1>2. CASE disk' = disk /\ mem' = mem
    BY <1>0, <1>2
  <1>3. CASE \E r \in Requests : OpenStore(r)
    BY <1>0, <1>3, TornIsFile DEF OpenStore, Unreadable
  <1>4. CASE \E r \in Requests : WriteStore(r)
    BY <1>0, <1>4, TornIsFile, JsonIsFile DEF WriteStore, Unreadable, TypeOK
  <1>5. ASSUME NEW r \in Requests, NEW copy, NEW s \in Status \ {"executed"},
               disk' = disk, mem' = [mem EXCEPT ![r] = [copy EXCEPT ![target[r]] = s]],
               Said(copy), copy \in Store
        PROVE  Said(disk'.records) /\ \A q \in Requests : Said(mem'[q])
    <2>1. Said([copy EXCEPT ![target[r]] = s])
      BY <1>5 DEF Said, Store
    <2> QED
      BY <1>0, <1>5, <2>1 DEF TypeOK
  <1>6. ASSUME NEW r \in Requests, LoadForCreate(r) \/ LoadForReject(r)
        PROVE  Said(disk'.records) /\ \A q \in Requests : Said(mem'[q])
    BY <1>0, <1>5, <1>6, LoadIsStore DEF TypeOK, LoadForCreate, LoadForReject,
       files, Status, ApprovalStates, Settled
  <1>7. CASE \E r \in Requests : LoadForApprove(r)
    BY <1>0, <1>7 DEF LoadForApprove, TypeOK, files
  <1>8. ASSUME NEW r \in Requests, Reevaluate(r)
        PROVE  Said(disk'.records) /\ \A q \in Requests : Said(mem'[q])
    <2>1. PICK s \in {"approved", "failed"} :
             mem' = [mem EXCEPT ![r] = [mem[r] EXCEPT ![target[r]] = s]]
      BY <1>8 DEF Reevaluate
    <2> QED
      BY <1>0, <1>5, <1>8, <2>1 DEF TypeOK, Reevaluate, files, Status, ApprovalStates, Settled
  <1>9. ASSUME NEW r \in Requests, NEW ok \in BOOLEAN, FireConnector(r, ok)
        PROVE  Said(disk'.records) /\ \A q \in Requests : Said(mem'[q])
    <2>1. CASE ~ok
      BY <1>0, <1>5, <1>9, <2>1 DEF TypeOK, FireConnector, files, Status, ApprovalStates, Settled
    <2>2. CASE ok
      <3>1. r \in contained' /\ target'[r] = target[r] /\ ledger' = ledger
        BY <1>9, <2>2 DEF FireConnector, files, request
      <3>2. ApprovedBy(r)'
        BY <1>9, <3>1 DEF HandlersOK, HandlerOK, FireConnector, ApprovedBy, InLedger
      <3>3. ASSUME NEW a \in Ids, a = target[r] PROVE Backed(a)'
        BY <3>1, <3>2, <3>3 DEF Backed
      <3>4. Said([mem[r] EXCEPT ![target[r]] = "executed"])
        BY <1>0, <3>3 DEF Said, TypeOK, Store
      <3>5. disk' = disk /\ mem' = [mem EXCEPT ![r] = [mem[r] EXCEPT ![target[r]] = "executed"]]
        BY <1>9, <2>2 DEF FireConnector, files
      <3> QED
        BY <1>0, <3>4, <3>5 DEF TypeOK
    <2> QED
      BY <2>1, <2>2
  <1> QED
    BY <1>2, <1>3, <1>4, <1>6, <1>7, <1>8, <1>9 DEF Next, vars, Handle, SendCreate,
       SendDecision, WorldChanges, Crash, RefuseCreate, AcceptCreate, StepUp, NotPending,
       AppendAudit, AuditRaises, RenderRaises, files

-----------------------------------------------------------------------------
(* What a request is remembered by in the ledger does not change. *)
LEMMA NextEntriesOK ==
  ASSUME TypeOK, HandlersOK, EntriesOK, [Next]_vars
  PROVE  EntriesOK'
  <1>1. \A q \in Requests : pc[q] # "unsent" => pc'[q] # "unsent" /\ op'[q] = op[q]
    <2>1. CASE UNCHANGED vars \/ WorldChanges
      BY <2>1 DEF vars, WorldChanges, request
    <2>2. CASE Crash
      BY <2>2 DEF Crash, request
    <2>3. CASE \/ \E r \in Requests : SendCreate(r)
               \/ \E r \in Requests, o \in {"approve", "reject"}, a \in Ids : SendDecision(r, o, a)
      BY <2>3 DEF SendCreate, SendDecision, Dispatch, Goto, TypeOK
    <2>4. CASE \E r \in Requests : Handle(r)
      <3>1. PICK r \in Requests : Handle(r)
        BY <2>4
      <3>2. op' = op
        BY <3>1 DEF Handle, RefuseCreate, AcceptCreate, LoadForCreate, StepUp, NotPending,
           LoadForReject, LoadForApprove, Reevaluate, OpenStore, WriteStore, AppendAudit,
           AuditRaises, RenderRaises, FireConnector, request
      <3>3. \E label : label # "unsent" /\ pc' = [pc EXCEPT ![r] = label]
        BY <3>1, Zenon DEF Handle, RefuseCreate, AcceptCreate, LoadForCreate, StepUp, NotPending,
           LoadForReject, LoadForApprove, Reevaluate, OpenStore, WriteStore, AppendAudit,
           AuditRaises, RenderRaises, FireConnector, Goto
      <3> QED
        BY <3>2, <3>3 DEF TypeOK
    <2> QED
      BY <2>1, <2>2, <2>3, <2>4 DEF Next
  <1>2. \A k \in DOMAIN ledger : ledger[k].by \in Requests
    BY LedgerEntries DEF TypeOK
  <1>3. CASE ledger' = ledger
    <2>1. \A k \in DOMAIN ledger' :
             /\ ledger'[k] = ledger[k] /\ k \in DOMAIN ledger
             /\ pc'[ledger'[k].by] # "unsent" /\ op'[ledger'[k].by] = op[ledger[k].by]
      BY <1>1, <1>2, <1>3 DEF EntriesOK
    <2> QED
      BY <2>1 DEF EntriesOK
  <1>4. ASSUME NEW r \in Requests, AppendAudit(r) PROVE EntriesOK'
    <2> DEFINE e == [by |-> r, id |-> target[r], step |-> StepOf(r),
                     status |-> mem[r][target[r]]]
    <2>1. e \in Entry /\ ledger' = Append(ledger, e) /\ pc[r] = "audit"
      BY <1>4, EntryIsEntry DEF AppendAudit
    <2>2. e.status = "rejected" => op[r] = "reject"
      BY <2>1 DEF HandlersOK, HandlerOK, Saving, TypeOK, Ops
    <2> HIDE DEF e
    <2>3. e.by = r
      BY DEF e
    <2> QED
      BY <1>1, <1>2, <2>1, <2>2, <2>3, AppendKeeps DEF EntriesOK, TypeOK
  <1> QED
    BY <1>3, <1>4, LedgerSteps

(* The entry about to be appended is as true as the ones before it. *)
LEMMA NextEntryIsTrue ==
  ASSUME TypeOK, HandlersOK, NEW r \in Requests, pc[r] = "audit"
  PROVE  /\ StepOf(r) = "execute" =>
               /\ r \in fired
               /\ mem[r][target[r]] = (IF r \in contained THEN "executed" ELSE "failed")
               /\ ApprovedBy(r)
         /\ mem[r][target[r]] = "rejected" => r \notin fired
  <1>1. HandlerOK(r) /\ op[r] \in {"approve", "reject"}
    BY DEF HandlersOK, HandlerOK, TypeOK, Ops
  <1> QED
    BY <1>1 DEF HandlerOK, Saving, StepOf

LedgerKeeps(longer) == \A k \in DOMAIN ledger : longer[k] = ledger[k]

LEMMA NextLedgerIsTrue ==
  ASSUME TypeOK, HandlersOK, EntriesOK, LedgerIsTrue, [Next]_vars
  PROVE  LedgerIsTrue'
  <1>0. /\ \A k \in DOMAIN ledger : ledger[k].by \in Requests
        /\ DOMAIN ledger = 1..Len(ledger) /\ Len(ledger) \in Nat
    BY LedgerEntries DEF TypeOK
  (* An entry stays true while its request's firing stays what it was. *)
  <1>1. ASSUME NEW k \in DOMAIN ledger, LedgerKeeps(ledger'),
               fired \subseteq fired', contained \subseteq contained',
               ledger[k].step = "execute" \/ ledger[k].status = "rejected" =>
                  /\ ledger[k].by \in fired' => ledger[k].by \in fired
                  /\ ledger[k].by \in contained' => ledger[k].by \in contained
        PROVE  EntryIsTrue(k)'
    <2>1. EntryIsTrue(k) /\ ledger'[k] = ledger[k] /\ k \in 1..Len(ledger)
      BY <1>0, <1>1 DEF LedgerIsTrue, LedgerKeeps
    <2>2. \A j \in 1..(k - 1) : ledger'[j] = ledger[j]
      BY <1>0, <1>1, <2>1 DEF LedgerKeeps
    <2> QED
      BY <1>1, <2>1, <2>2 DEF EntryIsTrue, Approval
  <1>2. CASE ledger' = ledger /\ fired' = fired /\ contained' = contained
    BY <1>1, <1>2 DEF LedgerIsTrue, LedgerKeeps
  <1>3. ASSUME NEW r \in Requests, NEW ok \in BOOLEAN, FireConnector(r, ok)
        PROVE  LedgerIsTrue'
    <2>1. ledger' = ledger /\ fired' = fired \cup {r} /\ contained' \subseteq contained \cup {r}
          /\ contained \subseteq contained'
      BY <1>3 DEF FireConnector, files
    <2>2. r \notin fired /\ op[r] = "approve"
      BY <1>3 DEF HandlersOK, HandlerOK, FireConnector
    <2>3. \A k \in DOMAIN ledger :
             ledger[k].step = "execute" \/ ledger[k].status = "rejected" => ledger[k].by # r
      BY <2>2 DEF LedgerIsTrue, EntryIsTrue, EntriesOK
    <2> QED
      BY <1>1, <2>1, <2>3 DEF LedgerIsTrue, LedgerKeeps
  <1>4. ASSUME NEW r \in Requests, AppendAudit(r) PROVE LedgerIsTrue'
    <2> DEFINE e == [by |-> r, id |-> target[r], step |-> StepOf(r),
                     status |-> mem[r][target[r]]]
    <2>1. /\ e \in Entry /\ ledger' = Append(ledger, e) /\ pc[r] = "audit"
          /\ fired' = fired /\ contained' = contained
      BY <1>4, EntryIsEntry DEF AppendAudit, effects
    <2>2. /\ e.step = "execute" =>
                /\ e.by \in fired
                /\ e.status = (IF e.by \in contained THEN "executed" ELSE "failed")
                /\ \E j \in DOMAIN ledger : ledger[j] = Approval(e.by, e.id)
          /\ e.status = "rejected" => e.by \notin fired
      BY <2>1, NextEntryIsTrue DEF ApprovedBy, InLedger, Approval
    <2> HIDE DEF e
    <2>3. /\ DOMAIN ledger' = DOMAIN ledger \cup {Len(ledger) + 1}
          /\ ledger'[Len(ledger) + 1] = e
          /\ LedgerKeeps(ledger')
      BY <2>1, AppendKeeps DEF TypeOK, LedgerKeeps
    <2>4. ASSUME NEW n, n = Len(ledger) + 1 PROVE EntryIsTrue(n)'
      <3>1. \A j \in DOMAIN ledger : j \in 1..(n - 1) /\ ledger'[j] = ledger[j]
        BY <1>0, <2>3, <2>4 DEF LedgerKeeps
      <3>2. e.step = "execute" => \E j \in 1..(n - 1) : ledger'[j] = Approval(e.by, e.id)
        BY <2>2, <3>1
      <3> QED
        BY <2>1, <2>2, <2>3, <2>4, <3>2 DEF EntryIsTrue, Approval
    <2> QED
      BY <1>1, <2>1, <2>3, <2>4 DEF LedgerIsTrue
  <1> QED
    BY <1>2, <1>3, <1>4 DEF Next, vars, Handle, SendCreate, SendDecision, WorldChanges,
       Crash, RefuseCreate, AcceptCreate, LoadForCreate, StepUp, NotPending,
       LoadForReject, LoadForApprove, Reevaluate, OpenStore, WriteStore,
       AuditRaises, RenderRaises, files, effects

-----------------------------------------------------------------------------
(* A handler that creates has a pending record to save. *)
LEMMA NextCreatesOK ==
  ASSUME TypeOK, HandlersOK, CreatesOK, [Next]_vars
  PROVE  CreatesOK'
  <1> USE DEF TypeOK, CreatesOK, InService
  <1> SUFFICES ASSUME NEW q \in Requests, op'[q] = "create", pc'[q] \in {"open", "write"}
               PROVE  mem'[q][target'[q]] = "pending"
    OBVIOUS
  <1>1. ASSUME NEW r \in Requests,
               \/ SendCreate(r) \/ Handle(r)
               \/ \E o \in {"approve", "reject"}, a \in Ids : SendDecision(r, o, a)
        PROVE  mem'[q][target'[q]] = "pending"
    <2>1. CASE q # r
      BY <1>1, <2>1, OthersWatch DEF Spectator
    <2>2. CASE q = r
      <3>1. HandlerOK(r)
        BY DEF HandlersOK
      <3>2. CASE LoadForCreate(r)
        <4>1. target[r] \in Ids
          BY <3>1, <3>2 DEF HandlerOK, LoadForCreate
        <4> QED
          BY <2>2, <3>2, <4>1, LoadIsStore DEF LoadForCreate, Store, request
      <3>3. CASE OpenStore(r) \/ WriteStore(r)
        BY <2>2, <3>3 DEF OpenStore, WriteStore, Goto, request
      <3>4. CASE SendCreate(r) \/ \E o \in {"approve", "reject"}, a \in Ids : SendDecision(r, o, a)
        BY <2>2, <3>4 DEF SendCreate, SendDecision, Dispatch, Goto
      <3>5. CASE LoadForReject(r) \/ Reevaluate(r) \/ (\E ok \in BOOLEAN : FireConnector(r, ok))
        BY <2>2, <3>1, <3>5 DEF LoadForReject, Reevaluate, FireConnector, HandlerOK, request
      <3>6. CASE \/ RefuseCreate(r) \/ (\E a \in Ids : AcceptCreate(r, a)) \/ NotPending(r)
                 \/ (\E ok \in BOOLEAN : StepUp(r, ok)) \/ LoadForApprove(r)
                 \/ AppendAudit(r) \/ AuditRaises(r) \/ RenderRaises(r)
        BY <2>2, <3>6 DEF RefuseCreate, AcceptCreate, NotPending, StepUp, LoadForApprove,
                          AppendAudit, AuditRaises, RenderRaises, Goto
      <3> QED
        BY <1>1, <3>2, <3>3, <3>4, <3>5, <3>6 DEF Handle
    <2> QED
      BY <2>1, <2>2
  <1>2. CASE WorldChanges \/ Crash \/ UNCHANGED vars
    BY <1>2 DEF WorldChanges, Crash, InFlight, vars, files, effects, world, request
  <1> QED
    BY <1>1, <1>2 DEF Next

(* What answers for a decision keeps answering: a handler that is done with  *)
(* its save has put the decision in the ledger, or is one that creates.      *)
LEMMA AnsweredStays ==
  ASSUME TypeOK, HandlersOK, CreatesOK, [Next]_vars,
         NEW a \in Ids, NEW st \in Decided, Answered(a, st)
  PROVE  Answered(a, st)'
  <1>1. CASE InLedgerAs(a, st)
    <2>1. PICK k \in DOMAIN ledger : ledger[k].id = a /\ ledger[k].status = st
      BY <1>1 DEF InLedgerAs
    <2>2. k \in DOMAIN ledger' /\ ledger'[k] = ledger[k]
      <3>1. CASE \E r \in Requests : AppendAudit(r)
        BY <3>1, EntryIsEntry, AppendKeeps DEF AppendAudit, TypeOK
      <3>2. CASE ledger' = ledger
        BY <3>2
      <3> QED
        BY <3>1, <3>2, LedgerSteps
    <2> QED
      BY <2>1, <2>2 DEF Answered, InLedgerAs
  <1>2. ASSUME NEW r \in Requests, AnswersFor(r, a, st) PROVE Answered(a, st)'
    <2> USE DEF TypeOK, Cutting
    <2>0. target[r] = a /\ mem[r][a] = st /\ pc[r] \in Cutting
      BY <1>2 DEF AnswersFor
    <2>1. ASSUME Spectator(r) PROVE Answered(a, st)'
      BY <2>0, <2>1 DEF Spectator, Answered, AnswersFor
    <2>2. CASE WorldChanges \/ Crash \/ UNCHANGED vars
      <3>1. Spectator(r)
        BY <2>2 DEF WorldChanges, Crash, vars, Spectator, InFlight,
                    files, effects, world, request, counters
      <3> QED
        BY <2>1, <3>1
    <2>3. ASSUME NEW q \in Requests,
                 \/ SendCreate(q) \/ Handle(q)
                 \/ \E o \in {"approve", "reject"}, b \in Ids : SendDecision(q, o, b),
                 q # r
          PROVE  Answered(a, st)'
      BY <2>1, <2>3, OthersWatch
    <2>4. CASE OpenStore(r)
      BY <2>0, <2>4 DEF OpenStore, Goto, request, Answered, AnswersFor
    <2>5. CASE WriteStore(r)
      <3>1. op[r] # "create"
        BY <2>0, <2>5 DEF WriteStore, CreatesOK, Decided, Settled
      <3> QED
        BY <2>0, <2>5, <3>1 DEF WriteStore, Goto, request, Answered, AnswersFor
    <2>6. CASE AppendAudit(r)
      <3> DEFINE e == [by |-> r, id |-> target[r], step |-> StepOf(r),
                       status |-> mem[r][target[r]]]
      <3>1. e \in Entry /\ ledger' = Append(ledger, e) /\ e.id = a /\ e.status = st
        BY <2>0, <2>6, EntryIsEntry DEF AppendAudit
      <3> HIDE DEF e
      <3>2. InLedgerAs(a, st)'
        BY <3>1, AppendKeeps DEF InLedgerAs
      <3> QED
        BY <3>2 DEF Answered
    <2>7. CASE AuditRaises(r) \/ RenderRaises(r)
      BY <2>0, <2>7 DEF AuditRaises, RenderRaises, Goto, request, Answered, AnswersFor
    <2>8. CASE \/ SendCreate(r)
               \/ \E o \in {"approve", "reject"}, b \in Ids : SendDecision(r, o, b)
      BY <2>0, <2>8 DEF SendCreate, SendDecision, Dispatch
    <2>9. CASE Handle(r)
      BY <2>0, <2>4, <2>5, <2>6, <2>7, <2>9
         DEF Handle, RefuseCreate, AcceptCreate, LoadForCreate, StepUp, NotPending,
             LoadForReject, LoadForApprove, Reevaluate, FireConnector
    <2> QED
      BY <2>2, <2>3, <2>8, <2>9 DEF Next
  <1> QED
    BY <1>1, <1>2 DEF Answered

(* No store, on disk or in a handler's hands, holds an unanswered decision. *)
LEMMA NextDecisionsOK ==
  ASSUME TypeOK, HandlersOK, CreatesOK, DecisionsOK, [Next]_vars
  PROVE  DecisionsOK'
  <1> DEFINE Said(copy) == \A a \in Ids, st \in Decided : copy[a] = st => Answered(a, st)'
  <1>0. /\ Said(disk.records) /\ Said(Load(disk)) /\ Said(NoRecords)
        /\ \A q \in Requests : Said(mem[q])
    BY AnsweredStays, LoadIsStore DEF DecisionsOK, TypeOK, NoRecords, Decided, Settled
  <1>1. SUFFICES Said(disk'.records) /\ \A q \in Requests : Said(mem'[q])
    BY DEF DecisionsOK
  <1> HIDE DEF Said
  <1>2. CASE disk' = disk /\ mem' = mem
    BY <1>0, <1>2
  <1>3. CASE \E r \in Requests : OpenStore(r)
    BY <1>0, <1>3, TornIsFile DEF OpenStore, Unreadable
  <1>4. CASE \E r \in Requests : WriteStore(r)
    BY <1>0, <1>4, TornIsFile, JsonIsFile DEF WriteStore, Unreadable, TypeOK
  (* A handler edits the record it works on and is about to save it. *)
  <1>5. ASSUME NEW r \in Requests, NEW copy \in Store, NEW s \in Status, Said(copy),
               disk' = disk, mem' = [mem EXCEPT ![r] = [copy EXCEPT ![target[r]] = s]],
               s \in Decided => pc'[r] = "open", target' = target
        PROVE  Said(disk'.records) /\ \A q \in Requests : Said(mem'[q])
    <2>1. mem'[r] = [copy EXCEPT ![target[r]] = s]
      BY <1>5 DEF TypeOK
    <2>2. ASSUME NEW a \in Ids, NEW st \in Decided, mem'[r][a] = st PROVE Answered(a, st)'
      <3>1. CASE a # target[r]
        BY <1>5, <2>1, <2>2, <3>1 DEF Said, Store
      <3>2. CASE a = target[r]
        <4>1. mem'[r][a] = s
          BY <1>5, <2>1, <3>2 DEF Store
        <4> QED
          BY <1>5, <2>2, <3>2, <4>1 DEF Answered, AnswersFor, Cutting
      <3> QED
        BY <3>1, <3>2
    <2>3. Said(mem'[r])
      BY <2>2 DEF Said
    <2> QED
      BY <1>0, <1>5, <2>3 DEF TypeOK
  <1>6. ASSUME NEW r \in Requests, LoadForCreate(r) \/ LoadForReject(r)
        PROVE  Said(disk'.records) /\ \A q \in Requests : Said(mem'[q])
    <2>1. PICK s \in {"pending", "rejected"} :
             mem' = [mem EXCEPT ![r] = [Load(disk) EXCEPT ![target[r]] = s]]
      BY <1>6 DEF LoadForCreate, LoadForReject
    <2>2. /\ disk' = disk /\ target' = target /\ pc'[r] = "open"
          /\ s \in Status /\ Load(disk) \in Store
      BY <1>6, LoadIsStore DEF LoadForCreate, LoadForReject, files, request, Goto, TypeOK,
         Status, ApprovalStates, Settled
    <2> QED
      BY <1>0, <1>5, <2>1, <2>2
  <1>7. CASE \E r \in Requests : LoadForApprove(r)
    BY <1>0, <1>7 DEF LoadForApprove, TypeOK, files
  <1>8. ASSUME NEW r \in Requests, Reevaluate(r) \/ \E ok \in BOOLEAN : FireConnector(r, ok)
        PROVE  Said(disk'.records) /\ \A q \in Requests : Said(mem'[q])
    <2>1. PICK s \in {"approved", "executed", "failed"} :
             mem' = [mem EXCEPT ![r] = [mem[r] EXCEPT ![target[r]] = s]]
      BY <1>8 DEF Reevaluate, FireConnector
    <2>2. /\ disk' = disk /\ target' = target /\ pc'[r] = "open"
          /\ s \in Status /\ mem[r] \in Store
      BY <1>8 DEF Reevaluate, FireConnector, files, request, Goto, TypeOK,
         Status, ApprovalStates, Settled
    <2> QED
      BY <1>0, <1>5, <2>1, <2>2
  <1> QED
    BY <1>2, <1>3, <1>4, <1>6, <1>7, <1>8 DEF Next, vars, Handle, SendCreate,
       SendDecision, WorldChanges, Crash, RefuseCreate, AcceptCreate, StepUp, NotPending,
       AppendAudit, AuditRaises, RenderRaises, files

-----------------------------------------------------------------------------
LEMMA InitIInv == Init => IInv
  <1> SUFFICES ASSUME Init PROVE IInv
    OBVIOUS
  <1>1. HandlersOK
    BY DEF Init, HandlersOK, HandlerOK, InService, Saving
  <1>2. CopiesOK
    BY NoRecordsIsStore, JsonIsFile DEF Init, CopiesOK, NoRecords
  <1>3. EntriesOK /\ LedgerIsTrue
    BY DEF Init, EntriesOK, LedgerIsTrue, EntryIsTrue
  <1> QED
    BY <1>1, <1>2, <1>3, InitTypeOK DEF IInv

LEMMA NextIInv == IInv /\ [Next]_vars => IInv'
  BY NextTypeOK, NextHandlersOK, NextEntriesOK, NextCopiesOK, NextLedgerIsTrue DEF IInv

THEOREM Inductive == Spec => []IInv
  BY InitIInv, NextIInv, PTL DEF Spec

(* Every reachable state has the declared types. *)
THEOREM TypeCorrect == Spec => []TypeOK
  BY Inductive, PTL DEF IInv

(* No connector fires before its approve was verified, evaluated and put on *)
(* the ledger, however requests interleave and wherever the process dies.   *)
THEOREM ApprovalPrecedesFiring == Spec => []FiredOnlyAfterApproval
  <1>1. IInv => FiredOnlyAfterApproval
    BY DEF IInv, TypeOK, HandlersOK, HandlerOK, ApprovedBy, FiredOnlyAfterApproval
  <1> QED
    BY <1>1, Inductive, PTL

(* No record claims a containment that no connector reported. *)
THEOREM NothingFakeContains == Spec => []ContainmentIsReal
  <1>1. IInv => ContainmentIsReal
    BY LoadIsStore DEF IInv, TypeOK, CopiesOK, Backed, ApprovedBy, ContainmentIsReal,
                       Recorded
  <1> QED
    BY <1>1, Inductive, PTL

(* The ledger reports each act as it went, and the approval before the act. *)
THEOREM LedgerTellsTheTruth == Spec => []LedgerIsTrue
  BY Inductive, PTL DEF IInv

(* Whoever finds a decision on disk finds it in the ledger, or a handler     *)
(* that is about to put it there or was cut short before it could: no        *)
(* interleaving of stale copies lets a decision pass the ledger by.          *)
THEOREM DecisionsAreAudited == Spec => []DecidedIsAudited
  <1>1. Init => AuditInv
    <2> SUFFICES ASSUME Init PROVE AuditInv
      OBVIOUS
    <2>1. CreatesOK
      BY DEF Init, CreatesOK
    <2>2. DecisionsOK
      BY NoRecordsIsStore, JsonIsFile DEF Init, DecisionsOK, NoRecords, Decided, Settled
    <2> QED
      BY <2>1, <2>2, InitIInv DEF AuditInv
  <1>2. AuditInv /\ [Next]_vars => AuditInv'
    BY NextIInv, NextCreatesOK, NextDecisionsOK DEF AuditInv, IInv
  <1>3. AuditInv => DecidedIsAudited
    <2> SUFFICES ASSUME AuditInv, NEW a \in Ids, Recorded(a) \in {"approved"} \cup Settled
                 PROVE  \/ InLedgerAs(a, Recorded(a))
                        \/ \E r \in Requests : AnswersFor(r, a, Recorded(a))
      BY DEF DecidedIsAudited, InLedgerAs, AnswersFor, Cutting
    <2>1. Recorded(a) = disk.records[a]
      BY LoadIsStore DEF AuditInv, IInv, TypeOK, Recorded
    <2> QED
      BY <2>1 DEF AuditInv, DecisionsOK, Decided, Answered
  <1> QED
    BY <1>1, <1>2, <1>3, PTL DEF Spec

-----------------------------------------------------------------------------
(***************************************************************************)
(* One request at a time: the flow implements ApprovalLifecycle.  The      *)
(* invariant says that the request in service works on the store as it is  *)
(* on disk, with its own record edited, and that ids are drawn once.       *)
(***************************************************************************)
Alone ==
    /\ IsFiniteSet(InFlight)
    /\ \A q, r \in InFlight : q = r

(* An id has one create; decisions are of ids whose create is over. *)
IdsOK ==
    /\ \A c, d \in Requests :
          /\ op[c] = "create" /\ op[d] = "create"
          /\ target[c] \in Ids /\ target[c] = target[d]
          => c = d
    /\ \A c \in Requests :
          /\ pc[c] = "unsent" => op[c] = "create"
          /\ op[c] = "create" /\ pc[c] \in {"unsent", "evaluate"} => target[c] = None
          /\ op[c] # "create" => \E a \in Ids : target[c] = a /\ Stored(a)
    /\ \A a \in Ids : Settling[a] # "absent" => Stored(a)

(* A connector fires once for an approval, which is then no longer pending. *)
FiringOK ==
    /\ IsFiniteSet(fired)
    /\ \A q, r \in fired : target[q] = target[r] => q = r
    /\ \A q \in fired : Settling[target[q]] # "pending"
    /\ \A q \in fired, r \in Requests \ fired :
          op[r] = "approve" /\ pc[r] \in {"evaluate", "open", "write", "audit", "fire"}
             => target[q] # target[r]

WorkOK ==
    \A r \in Requests :
        /\ pc[r] = "write" => disk = Torn("empty")
        /\ pc[r] = "evaluate" /\ op[r] = "approve" =>
              mem[r] = disk.records /\ mem[r][target[r]] = "pending"
        /\ pc[r] = "open" =>
              /\ mem[r] = [disk.records EXCEPT ![target[r]] = mem[r][target[r]]]
              /\ op[r] # "create" =>
                    disk.records[target[r]] = IF r \in fired THEN "approved" ELSE "pending"
        /\ pc[r] \in {"audit", "fire"} => disk.records = mem[r]
        /\ pc[r] = "fire" => mem[r][target[r]] = "approved"

SerialInv == IInv /\ CreatesOK /\ Alone /\ IdsOK /\ FiringOK /\ WorkOK

Actor(r) ==
    \/ SendCreate(r) \/ Handle(r)
    \/ \E o \in {"approve", "reject"}, a \in Ids : SendDecision(r, o, a)

Sent(r) == SendCreate(r) \/ \E o \in {"approve", "reject"}, a \in Ids : SendDecision(r, o, a)

LEMMA ActorSteps ==
  ASSUME [Next]_vars
  PROVE  (\E r \in Requests : Actor(r)) \/ WorldChanges \/ Crash \/ UNCHANGED vars
  BY DEF Next, Actor

(* Steps that leave every handler where it is, or dead. *)
LEMMA NobodysStep ==
  ASSUME TypeOK, WorldChanges \/ Crash \/ UNCHANGED vars
  PROVE  /\ UNCHANGED <<disk, fired, op, target, mem>>
         /\ \/ UNCHANGED <<pc, crashes>>
            \/ /\ crashes' = crashes + 1
               /\ pc' = [r \in Requests |-> IF r \in InFlight THEN "killed" ELSE pc[r]]
  BY DEF WorldChanges, Crash, vars, files, effects, request, counters

LEMMA WhoHandles ==
  ASSUME NEW r \in Requests, Handle(r)
  PROVE  r \in InFlight
  BY DEF Handle, RefuseCreate, AcceptCreate, LoadForCreate, StepUp, NotPending, LoadForReject,
     LoadForApprove, Reevaluate, OpenStore, WriteStore, AppendAudit, AuditRaises, RenderRaises,
     FireConnector,
     InFlight, InService

LEMMA NextAlone ==
  ASSUME MaxInFlight = 1, TypeOK, Alone, [Next]_vars
  PROVE  Alone'
  <1> USE DEF TypeOK
  <1>1. ASSUME NEW r \in Requests, Handle(r) PROVE Alone'
    <2>1. r \in InFlight /\ \A q \in Requests \ {r} : pc'[q] = pc[q]
      BY <1>1, WhoHandles, OthersWatch
    <2>2. InFlight' \subseteq InFlight
      BY <2>1 DEF InFlight
    <2> QED
      BY <2>2, FS_Subset DEF Alone
  <1>2. ASSUME NEW r \in Requests, Sent(r) PROVE Alone'
    <2>1. Cardinality(InFlight) < 1
      BY <1>2 DEF Sent, SendCreate, SendDecision, Dispatch
    <2>2. InFlight = {}
      BY <2>1, FS_EmptySet, FS_CardinalityType DEF Alone
    <2>3. \A q \in Requests \ {r} : pc'[q] = pc[q]
      BY <1>2, OthersWatch DEF Sent
    <2>4. InFlight' \subseteq {r}
      BY <2>2, <2>3 DEF InFlight
    <2>5. IsFiniteSet({r})
      BY FS_Singleton
    <2> QED
      BY <2>4, <2>5, FS_Subset DEF Alone
  <1>3. CASE WorldChanges \/ Crash \/ UNCHANGED vars
    <2>1. InFlight' \subseteq InFlight
      BY <1>3, NobodysStep DEF InFlight, InService
    <2> QED
      BY <2>1, FS_Subset DEF Alone
  <1> QED
    BY <1>1, <1>2, <1>3, ActorSteps DEF Actor, Sent

(* The store as it will be found, in this state and in the next. *)
LEMMA SettlingIs ==
  /\ Alone => \A r \in Requests : pc[r] = "write" => Settling = mem[r]
  /\ TypeOK /\ (\A r \in Requests : pc[r] # "write") => Settling = disk.records
  /\ Alone' => \A r \in Requests : pc'[r] = "write" => Settling' = mem'[r]
  /\ TypeOK' /\ (\A r \in Requests : pc'[r] # "write") => Settling' = disk'.records
  <1>1. ASSUME Alone, NEW r \in Requests, pc[r] = "write" PROVE Settling = mem[r]
    <2> DEFINE w == CHOOSE q \in Requests : pc[q] = "write"
    <2>1. w \in Requests /\ pc[w] = "write"
      BY <1>1
    <2>2. w = r
      BY <1>1, <2>1 DEF Alone, InFlight, InService
    <2> QED
      BY <1>1, <2>2 DEF Settling
  <1>2. ASSUME Alone', NEW r \in Requests, pc'[r] = "write" PROVE Settling' = mem'[r]
    <2> DEFINE w == CHOOSE q \in Requests : pc'[q] = "write"
    <2>1. w \in Requests /\ pc'[w] = "write"
      BY <1>2
    <2>2. w = r
      BY <1>2, <2>1 DEF Alone, InFlight, InService
    <2> QED
      BY <1>2, <2>2 DEF Settling
  <1>3. TypeOK /\ (\A r \in Requests : pc[r] # "write") => Settling = disk.records
    BY LoadIsStore DEF Settling, TypeOK
  <1>4. TypeOK' /\ (\A r \in Requests : pc'[r] # "write") => Settling' = disk'.records
    BY DEF Settling, TypeOK, File, Json, Torn, Load, NoRecords
  <1> QED
    BY <1>1, <1>2, <1>3, <1>4

(* A save takes effect when it truncates the file, and a crash between       *)
(* truncation and write loses every record.                                  *)
LEMMA SettlingMoves ==
  ASSUME TypeOK, TypeOK', Alone, Alone', WorkOK, [Next]_vars
  PROVE  \/ \E r \in Requests :
               /\ OpenStore(r)
               /\ Settling = disk.records /\ Settling' = mem[r]
         \/ Crash /\ Settling' \in {Settling, NoRecords}
         \/ (\A r \in Requests : ~OpenStore(r)) /\ ~Crash /\ Settling' = Settling
  <1> USE DEF TypeOK, InService
  <1>1. ASSUME NEW r \in Requests, OpenStore(r) PROVE Settling = disk.records /\ Settling' = mem[r]
    <2>1. pc[r] = "open" /\ pc'[r] = "write" /\ mem' = mem
      BY <1>1 DEF OpenStore, Goto
    <2>2. \A q \in Requests : pc[q] # "write"
      BY <2>1 DEF Alone, InFlight
    <2> QED
      BY <2>1, <2>2, SettlingIs
  <1>2. ASSUME NEW r \in Requests, WriteStore(r) PROVE Settling' = Settling
    <2>1. pc[r] = "write" /\ disk = Torn("empty") /\ pc'[r] # "write" /\ mem' = mem
      BY <1>2 DEF WriteStore, WorkOK, Goto
    <2>2. disk' = Json(mem[r])
      BY <1>2, <2>1 DEF WriteStore, Torn
    <2>3. \A q \in Requests : pc'[q] # "write"
      BY <1>2, <2>1, OthersWatch DEF Alone, InFlight, Handle
    <2> QED
      BY <2>1, <2>2, <2>3, SettlingIs, JsonIsFile
  <1>3. ASSUME NEW r \in Requests, Actor(r), ~OpenStore(r), ~WriteStore(r) PROVE Settling' = Settling
    <2>1. disk' = disk /\ pc[r] # "write" /\ pc'[r] # "write"
      BY <1>3 DEF Actor, SendCreate, SendDecision, Dispatch, Handle, RefuseCreate, AcceptCreate,
         LoadForCreate, StepUp, NotPending, LoadForReject, LoadForApprove, Reevaluate,
         AppendAudit, AuditRaises, RenderRaises, FireConnector, Goto, files
    <2>2. \A q \in Requests \ {r} : pc'[q] = pc[q]
      BY <1>3, OthersWatch DEF Actor
    <2>3. r \in InFlight \/ r \in InFlight'
      <3>1. CASE Handle(r)
        BY <3>1, WhoHandles
      <3>2. CASE ~Handle(r)
        BY <1>3, <3>2 DEF Actor, SendCreate, SendDecision, Dispatch, Goto, InFlight
      <3> QED
        BY <3>1, <3>2
    <2>4. \A q \in Requests : pc[q] # "write" /\ pc'[q] # "write"
      BY <2>1, <2>2, <2>3 DEF Alone, InFlight
    <2> QED
      BY <2>1, <2>4, SettlingIs
  <1>4. ASSUME Crash PROVE Settling' \in {Settling, NoRecords}
    <2>1. disk' = disk /\ \A q \in Requests : pc'[q] # "write"
      BY <1>4 DEF Crash, InFlight, files
    <2>2. CASE \E q \in Requests : pc[q] = "write"
      BY <2>1, <2>2, SettlingIs DEF WorkOK, Torn
    <2>3. CASE \A q \in Requests : pc[q] # "write"
      BY <2>1, <2>3, SettlingIs
    <2> QED
      BY <2>2, <2>3
  <1>5. CASE WorldChanges \/ UNCHANGED vars
    <2>1. disk' = disk /\ pc' = pc /\ mem' = mem
      BY <1>5 DEF WorldChanges, vars, files
    <2>2. Settling' = Settling
      BY <2>1 DEF Settling
    <2> QED
      BY <1>1, <1>4, <2>2
  <1> QED
    BY <1>1, <1>2, <1>3, <1>4, <1>5, ActorSteps

(* A create that is over stays over. *)
LEMMA StoredStays ==
  ASSUME TypeOK, HandlersOK, IdsOK, [Next]_vars, NEW a \in Ids, Stored(a)
  PROVE  Stored(a)'
  <1>1. PICK c \in Requests : op[c] = "create" /\ target[c] = a /\ pc[c] \notin {"evaluate", "load", "open"}
    BY DEF Stored
  <1>2. pc[c] # "unsent"
    BY <1>1, ApprovalsAssumption DEF IdsOK
  <1>3. op'[c] = "create" /\ target'[c] = a /\ pc'[c] \notin {"evaluate", "load", "open"}
    <2>1. ASSUME NEW r \in Requests, Actor(r), r # c
          PROVE  op'[c] = "create" /\ target'[c] = a /\ pc'[c] \notin {"evaluate", "load", "open"}
      BY <1>1, <2>1, OthersWatch DEF Actor, Spectator
    <2>2. ASSUME Actor(c)
          PROVE  op'[c] = "create" /\ target'[c] = a /\ pc'[c] \notin {"evaluate", "load", "open"}
      <3>1. pc[c] \notin InService \ {"write"}
        BY <1>1 DEF HandlersOK, HandlerOK, InService
      <3>2. WriteStore(c)
        BY <1>2, <2>2, <3>1 DEF Actor, SendCreate, SendDecision, Dispatch, Handle, RefuseCreate,
           AcceptCreate, LoadForCreate, StepUp, NotPending, LoadForReject, LoadForApprove,
           Reevaluate, OpenStore, AppendAudit, AuditRaises, RenderRaises,
           FireConnector, InService
      <3> QED
        BY <1>1, <3>2 DEF WriteStore, Goto, request, TypeOK
    <2>3. CASE WorldChanges \/ Crash \/ UNCHANGED vars
      BY <1>1, <2>3, NobodysStep DEF TypeOK
    <2> QED
      BY <2>1, <2>2, <2>3, ActorSteps
  <1> QED
    BY <1>3 DEF Stored

(* Nobody else is in service when a request is. *)
LEMMA OthersIdle ==
  ASSUME MaxInFlight = 1, TypeOK, Alone, NEW r \in Requests, Actor(r)
  PROVE  \A q \in Requests \ {r} : pc[q] \notin InService /\ pc'[q] = pc[q]
  <1>1. \A q \in Requests \ {r} : pc'[q] = pc[q]
    BY OthersWatch DEF Actor
  <1>2. CASE Handle(r)
    BY <1>1, <1>2, WhoHandles DEF Alone, InFlight
  <1>3. CASE ~Handle(r)
    <2>1. Cardinality(InFlight) < 1
      BY <1>3 DEF Actor, SendCreate, SendDecision, Dispatch
    <2>2. InFlight = {}
      BY <2>1, FS_EmptySet, FS_CardinalityType DEF Alone
    <2> QED
      BY <1>1, <2>2 DEF InFlight
  <1> QED
    BY <1>2, <1>3

(* What a request that is being served may do to who it is. *)
LEMMA Identity ==
  ASSUME TypeOK, NEW r \in Requests, Actor(r)
  PROVE  \/ op'[r] = op[r] /\ target'[r] = target[r] /\ pc[r] # "unsent" /\ pc'[r] # "unsent"
            /\ (op[r] = "create" /\ pc'[r] = "evaluate" => pc[r] = "evaluate")
         \/ SendCreate(r) /\ op'[r] = "create" /\ target'[r] = target[r] /\ pc'[r] = "evaluate"
            /\ pc[r] = "unsent"
         \/ \E o \in {"approve", "reject"}, a \in Ids :
               SendDecision(r, o, a) /\ op'[r] = o /\ target'[r] = a /\ ~Fresh(a)
               /\ pc[r] = "unsent" /\ pc'[r] = "stepup"
         \/ \E a \in Ids :
               AcceptCreate(r, a) /\ op'[r] = "create" /\ target'[r] = a /\ Fresh(a) /\ pc'[r] = "load"
  <1> USE DEF TypeOK
  <1>1. CASE SendCreate(r)
    BY <1>1 DEF SendCreate, Dispatch, Goto
  <1>2. CASE \E o \in {"approve", "reject"}, a \in Ids : SendDecision(r, o, a)
    BY <1>2 DEF SendDecision, Dispatch, Goto
  <1>3. CASE \E a \in Ids : AcceptCreate(r, a)
    BY <1>3 DEF AcceptCreate, Goto
  <1>4. CASE Handle(r) /\ ~\E a \in Ids : AcceptCreate(r, a)
    BY <1>4 DEF Handle, RefuseCreate, LoadForCreate, StepUp, NotPending, LoadForReject,
       LoadForApprove, Reevaluate, OpenStore, WriteStore, AppendAudit, AuditRaises, RenderRaises,
       FireConnector,
       Goto, request
  <1> QED
    BY <1>1, <1>2, <1>3, <1>4 DEF Actor

LEMMA NextIdsOK ==
  ASSUME MaxInFlight = 1, TypeOK, TypeOK', HandlersOK, Alone, Alone', IdsOK, WorkOK, [Next]_vars
  PROVE  IdsOK'
  <1> USE ApprovalsAssumption
  <1>1. \A a \in Ids : Stored(a) => Stored(a)'
    BY StoredStays
  <1>2. \A c, d \in Requests :
           /\ op'[c] = "create" /\ op'[d] = "create"
           /\ target'[c] \in Ids /\ target'[c] = target'[d]
           => c = d
    <2>1. ASSUME NEW r \in Requests, Actor(r), NEW c \in Requests, NEW d \in Requests,
                 op'[c] = "create", op'[d] = "create", target'[c] \in Ids, target'[c] = target'[d],
                 c # d, d # r
          PROVE  FALSE
      <3>1. op[d] = "create" /\ target[d] = target'[d]
        BY <2>1, OthersWatch DEF Actor, Spectator
      <3>2. CASE c # r
        BY <2>1, <3>1, <3>2, OthersWatch DEF Actor, Spectator, IdsOK
      <3>3. CASE c = r
        BY <2>1, <3>1, <3>3, Identity DEF IdsOK, Fresh
      <3> QED
        BY <3>2, <3>3
    <2>2. CASE WorldChanges \/ Crash \/ UNCHANGED vars
      BY <2>2, NobodysStep DEF IdsOK
    <2> QED
      BY <2>1, <2>2, ActorSteps
  <1>3. ASSUME NEW c \in Requests
        PROVE  /\ pc'[c] = "unsent" => op'[c] = "create"
               /\ op'[c] = "create" /\ pc'[c] \in {"unsent", "evaluate"} => target'[c] = None
               /\ op'[c] # "create" => \E a \in Ids : target'[c] = a /\ Stored(a)'
    <2>1. ASSUME NEW r \in Requests, Actor(r), r # c
          PROVE  /\ op'[c] = op[c] /\ target'[c] = target[c] /\ pc'[c] = pc[c]
      BY <2>1, OthersWatch DEF Actor, Spectator
    <2>2. CASE WorldChanges \/ Crash \/ UNCHANGED vars
      <3>1. /\ op'[c] = op[c] /\ target'[c] = target[c]
            /\ pc'[c] = pc[c] \/ pc'[c] = "killed"
        BY <2>2, NobodysStep DEF TypeOK
      <3> QED
        BY <1>1, <3>1 DEF IdsOK
    <2>3. CASE Actor(c)
      <3>1. CASE \E o \in {"approve", "reject"}, a \in Ids :
                   SendDecision(c, o, a) /\ op'[c] = o /\ target'[c] = a /\ ~Fresh(a)
                   /\ pc[c] = "unsent" /\ pc'[c] = "stepup"
        <4>1. PICK a \in Ids : target'[c] = a /\ ~Fresh(a)
          BY <3>1
        <4>2. PICK d \in Requests : op[d] = "create" /\ target[d] = a
          BY <4>1 DEF Fresh
        <4>3. d # c
          BY <3>1, <4>1, <4>2 DEF IdsOK
        <4>4. Stored(a)
          BY <2>3, <4>2, <4>3, OthersIdle DEF Stored, InService
        <4> QED
          BY <1>1, <3>1, <4>1, <4>4
      <3>2. CASE ~\E o \in {"approve", "reject"}, a \in Ids :
                   SendDecision(c, o, a) /\ op'[c] = o /\ target'[c] = a /\ ~Fresh(a)
                   /\ pc[c] = "unsent" /\ pc'[c] = "stepup"
        BY <1>1, <2>3, <3>2, Identity DEF IdsOK
      <3> QED
        BY <3>1, <3>2
    <2> QED
      BY <1>1, <2>1, <2>2, <2>3, ActorSteps DEF IdsOK
  <1>4. \A a \in Ids : Settling'[a] # "absent" => Stored(a)'
    <2>1. ASSUME NEW r \in Requests, OpenStore(r), Settling = disk.records, Settling' = mem[r],
                 NEW a \in Ids, Settling'[a] # "absent"
          PROVE  Stored(a)'
      <3>1. mem[r] = [disk.records EXCEPT ![target[r]] = mem[r][target[r]]] /\ mem[r] \in Store
        BY <2>1 DEF WorkOK, OpenStore, TypeOK
      <3>2. CASE a # target[r]
        BY <1>1, <2>1, <3>1, <3>2, LoadIsStore DEF IdsOK, Store, TypeOK
      <3>3. CASE a = target[r] /\ op[r] = "create"
        BY <2>1, <3>3 DEF OpenStore, Goto, request, Stored, TypeOK
      <3>4. CASE a = target[r] /\ op[r] # "create"
        BY <1>1, <3>4 DEF IdsOK
      <3> QED
        BY <3>2, <3>3, <3>4
    <2> QED
      BY <1>1, <2>1, SettlingMoves DEF IdsOK, NoRecords
  <1> QED
    BY <1>2, <1>3, <1>4 DEF IdsOK

LEMMA NextWorkOK ==
  ASSUME MaxInFlight = 1, TypeOK, TypeOK', HandlersOK, Alone, WorkOK, [Next]_vars
  PROVE  WorkOK'
  <1> USE DEF TypeOK, InService
  <1>1. ASSUME NEW r \in Requests, NEW x \in Requests, Actor(x), x # r
        PROVE  pc'[r] \notin InService
    BY <1>1, OthersIdle
  <1>2. CASE WorldChanges \/ Crash \/ UNCHANGED vars
    <2>1. \A r \in Requests : pc'[r] = pc[r] \/ pc'[r] \notin InService
      BY <1>2, NobodysStep
    <2> QED
      BY <1>2, <2>1, NobodysStep DEF WorkOK
  <1>3. ASSUME NEW r \in Requests, Actor(r)
        PROVE  /\ pc'[r] = "write" => disk' = Torn("empty")
               /\ pc'[r] = "evaluate" /\ op'[r] = "approve" =>
                     mem'[r] = disk'.records /\ mem'[r][target'[r]] = "pending"
               /\ pc'[r] = "open" =>
                     /\ mem'[r] = [disk'.records EXCEPT ![target'[r]] = mem'[r][target'[r]]]
                     /\ op'[r] # "create" =>
                           disk'.records[target'[r]] = IF r \in fired' THEN "approved" ELSE "pending"
               /\ pc'[r] \in {"audit", "fire"} => disk'.records = mem'[r]
               /\ pc'[r] = "fire" => mem'[r][target'[r]] = "approved"
    <2>0. HandlerOK(r) /\ Load(disk) = disk.records /\ disk.records \in Store /\ mem[r] \in Store
      BY LoadIsStore DEF HandlersOK
    <2>1. CASE Sent(r) \/ RefuseCreate(r) \/ (\E a \in Ids : AcceptCreate(r, a))
               \/ (\E ok \in BOOLEAN : StepUp(r, ok)) \/ NotPending(r) \/ AuditRaises(r) \/ RenderRaises(r)
      BY <2>1 DEF Sent, SendCreate, SendDecision, Dispatch, RefuseCreate, AcceptCreate, StepUp,
                  NotPending, AuditRaises, RenderRaises, Goto, request
    <2>2. CASE LoadForCreate(r) \/ LoadForReject(r)
      <3>1. target[r] \in Ids /\ r \notin fired
        BY <2>0, <2>2 DEF LoadForCreate, LoadForReject, HandlerOK
      <3> QED
        BY <2>0, <2>2, <3>1 DEF LoadForCreate, LoadForReject, Goto, request, files, effects, Store
    <2>3. CASE LoadForApprove(r)
      BY <2>0, <2>3 DEF LoadForApprove, Goto, request, files, Store
    <2>4. CASE Reevaluate(r)
      <3>1. PICK st \in {"approved", "failed"} :
               mem' = [mem EXCEPT ![r] = [mem[r] EXCEPT ![target[r]] = st]]
        BY <2>4 DEF Reevaluate
      <3>2. /\ pc[r] = "evaluate" /\ op[r] = "approve" /\ pc'[r] = "open"
            /\ UNCHANGED <<disk, op, target, fired>>
        BY <2>4 DEF Reevaluate, Goto, request, files, effects
      <3>3. target[r] \in Ids /\ r \notin fired
        BY <2>0, <3>2 DEF HandlerOK
      <3>4. mem[r] = disk.records /\ mem[r][target[r]] = "pending"
        BY <3>2 DEF WorkOK
      <3> QED
        BY <2>0, <3>1, <3>2, <3>3, <3>4 DEF Store
    <2>5. CASE OpenStore(r)
      BY <2>5 DEF OpenStore, Goto
    <2>6. CASE WriteStore(r)
      <3>1. disk' = Json(mem[r]) /\ pc'[r] \in {"answered", "audit"} /\ mem' = mem
        BY <2>6 DEF WriteStore, Goto, WorkOK, Torn
      <3> QED
        BY <2>0, <3>1, JsonIsFile
    <2>7. CASE AppendAudit(r)
      BY <2>7 DEF AppendAudit, Goto, request, WorkOK
    <2>8. CASE \E ok \in BOOLEAN : FireConnector(r, ok)
      <3>1. PICK st \in {"executed", "failed"} :
               mem' = [mem EXCEPT ![r] = [mem[r] EXCEPT ![target[r]] = st]]
        BY <2>8 DEF FireConnector
      <3>2. /\ pc[r] = "fire" /\ pc'[r] = "open" /\ r \in fired'
            /\ UNCHANGED <<disk, op, target>>
        BY <2>8 DEF FireConnector, Goto, request, files
      <3>3. target[r] \in Ids
        BY <2>0, <3>2 DEF HandlerOK
      <3>4. disk.records = mem[r] /\ mem[r][target[r]] = "approved"
        BY <3>2 DEF WorkOK
      <3> QED
        BY <2>0, <3>1, <3>2, <3>3, <3>4 DEF Store
    <2> QED
      BY <1>3, <2>1, <2>2, <2>3, <2>4, <2>5, <2>6, <2>7, <2>8 DEF Actor, Sent, Handle
  <1> QED
    BY <1>1, <1>2, <1>3, ActorSteps DEF WorkOK

(* Firing is a step of a request that stands before its connector. *)
LEMMA FiringSteps ==
  ASSUME [Next]_vars
  PROVE  \/ fired' = fired
         \/ \E r \in Requests :
               /\ fired' = fired \cup {r} /\ pc[r] = "fire"
               /\ UNCHANGED <<disk, target>>
               /\ \E ok \in BOOLEAN : FireConnector(r, ok)
  BY DEF Next, vars, Handle, SendCreate, SendDecision, WorldChanges, Crash, RefuseCreate,
     AcceptCreate, LoadForCreate, StepUp, NotPending, LoadForReject, LoadForApprove,
     Reevaluate, OpenStore, WriteStore, AppendAudit, AuditRaises, RenderRaises,
     FireConnector, files, effects,
     request, Goto

LEMMA NextFiringOK ==
  ASSUME MaxInFlight = 1, TypeOK, TypeOK', HandlersOK, Alone, Alone', IdsOK, FiringOK, WorkOK,
         [Next]_vars
  PROVE  FiringOK'
  <1> USE DEF TypeOK, InService
  <1>1. \A q \in fired : target'[q] = target[q] /\ target[q] \in Ids /\ op[q] = "approve"
    <2> SUFFICES ASSUME NEW q \in fired
                 PROVE  target'[q] = target[q] /\ target[q] \in Ids /\ op[q] = "approve"
      OBVIOUS
    <2>1. HandlerOK(q) /\ q \in Requests
      BY DEF HandlersOK
    <2>2. pc[q] # "unsent" /\ op[q] = "approve" /\ target[q] \in Ids
      BY <2>1 DEF HandlerOK
    <2>3. target'[q] = target[q]
      <3>1. ASSUME NEW r \in Requests, Actor(r), r # q PROVE target'[q] = target[q]
        BY <2>1, <3>1, OthersWatch DEF Actor, Spectator
      <3>2. ASSUME Actor(q) PROVE target'[q] = target[q]
        BY <2>1, <2>2, <3>2, Identity DEF AcceptCreate
      <3> QED
        BY <2>1, <3>1, <3>2, NobodysStep, ActorSteps
    <2> QED
      BY <2>2, <2>3
  <1>2. IsFiniteSet(fired')
    BY FiringSteps, FS_AddElement DEF FiringOK
  <1>3. \A q, r \in fired' : target'[q] = target'[r] => q = r
    <2>1. ASSUME NEW x \in Requests, fired' = fired \cup {x}, pc[x] = "fire", UNCHANGED target,
                 NEW q \in fired, target[q] = target[x]
          PROVE  q = x
      <3>1. op[x] = "approve"
        BY <2>1 DEF HandlersOK, HandlerOK
      <3> QED
        BY <2>1, <3>1 DEF FiringOK
    <2> QED
      BY <1>1, <2>1, FiringSteps DEF FiringOK
  <1>4. ASSUME NEW q \in fired' PROVE Settling'[target'[q]] # "pending"
    <2>1. ASSUME NEW x \in Requests, fired' = fired \cup {x}, pc[x] = "fire", UNCHANGED <<disk, target>>,
                 \E ok \in BOOLEAN : FireConnector(x, ok)
          PROVE  Settling'[target'[q]] # "pending"
      <3>1. disk.records = mem[x] /\ mem[x][target[x]] = "approved"
        BY <2>1 DEF WorkOK
      <3>2. \A r \in Requests : pc[r] # "write"
        BY <2>1 DEF Alone, InFlight
      <3>3. Settling = disk.records
        BY <3>2, SettlingIs
      <3>4. Settling' = Settling
        <4>1. ~Crash /\ \A r \in Requests : ~OpenStore(r)
          BY <2>1 DEF Crash, OpenStore, FireConnector, Goto, effects, InFlight, Alone
        <4> QED
          BY <4>1, SettlingMoves
      <3> QED
        BY <2>1, <3>1, <3>3, <3>4 DEF FiringOK
    <2>2. CASE fired' = fired
      <3>1. q \in fired /\ target'[q] = target[q] /\ Settling[target[q]] # "pending" /\ target[q] \in Ids
        BY <1>1, <2>2 DEF FiringOK
      <3>2. ASSUME NEW r \in Requests, OpenStore(r), Settling = disk.records, Settling' = mem[r]
            PROVE  Settling'[target'[q]] # "pending"
        <4>1. /\ pc[r] = "open" /\ mem[r] \in Store /\ disk.records \in Store
              /\ mem[r] = [disk.records EXCEPT ![target[r]] = mem[r][target[r]]]
          BY <3>2, LoadIsStore DEF OpenStore, WorkOK
        <4>2. CASE target[r] # target[q]
          BY <3>1, <3>2, <4>1, <4>2 DEF Store
        <4>3. CASE target[r] = target[q]
          <5>1. op[r] # "create"
            <6>1. Stored(target[q])
              BY <1>1, <3>1 DEF IdsOK
            <6> QED
              BY <3>1, <4>1, <4>3, <6>1 DEF Stored, IdsOK
          <5>2. HandlerOK(r) /\ op[r] \in Ops
            BY DEF HandlersOK
          <5>3. mem[r][target[r]] # "pending"
            BY <4>1, <5>1, <5>2 DEF HandlerOK, Saving, Ops
          <5> QED
            BY <3>1, <3>2, <4>3, <5>3
        <4> QED
          BY <4>2, <4>3
      <3> QED
        BY <3>1, <3>2, SettlingMoves DEF NoRecords
    <2> QED
      BY <2>1, <2>2, FiringSteps
  <1>5. ASSUME NEW q \in fired', NEW r \in Requests \ fired', op'[r] = "approve",
               pc'[r] \in {"evaluate", "open", "write", "audit", "fire"}
        PROVE  target'[q] # target'[r]
    <2>1. CASE Actor(r)
      <3>1. fired' = fired
        <4>1. ~\E ok \in BOOLEAN : FireConnector(r, ok)
          BY <1>5 DEF FireConnector
        <4>2. \A x \in Requests \ {r} : pc[x] # "fire"
          BY <2>1, OthersIdle
        <4> QED
          BY <4>1, <4>2, FiringSteps
      <3>2. op[r] = "approve" /\ target'[r] = target[r]
        BY <1>5, <2>1, Identity
      <3>3. CASE pc[r] \in {"evaluate", "open", "write", "audit", "fire"}
        BY <1>1, <3>1, <3>2, <3>3 DEF FiringOK
      <3>4. CASE pc[r] \notin {"evaluate", "open", "write", "audit", "fire"}
        <4>1. LoadForApprove(r)
          BY <1>5, <2>1, <3>2, <3>4 DEF Actor, SendCreate, SendDecision, Dispatch, Handle,
             RefuseCreate, AcceptCreate, LoadForCreate, StepUp, NotPending, LoadForReject,
             Reevaluate, OpenStore, WriteStore, AppendAudit, AuditRaises, RenderRaises,
             FireConnector, Goto
        <4>2. Load(disk)[target[r]] = "pending" /\ pc[r] = "load"
          BY <4>1 DEF LoadForApprove
        <4>3. \A x \in Requests : pc[x] # "write"
          BY <4>2 DEF Alone, InFlight
        <4>4. Settling[target[r]] = "pending"
          BY <4>2, <4>3, SettlingIs, LoadIsStore
        <4> QED
          BY <1>1, <3>1, <3>2, <4>4 DEF FiringOK
      <3> QED
        BY <3>3, <3>4
    <2>2. ASSUME NEW x \in Requests, Actor(x), x # r PROVE FALSE
      BY <1>5, <2>2, OthersIdle
    <2>3. CASE WorldChanges \/ Crash \/ UNCHANGED vars
      BY <1>1, <1>5, <2>3, NobodysStep DEF FiringOK
    <2> QED
      BY <2>1, <2>2, <2>3, ActorSteps
  <1> QED
    BY <1>2, <1>3, <1>4, <1>5 DEF FiringOK

-----------------------------------------------------------------------------
(* The steps of the state machine. *)
LifeOf(a) == IF Settling[a] = "absent" /\ Stored(a) THEN "lost" ELSE Settling[a]
FiringsOf(a) == {r \in fired : target[r] = a}

LEMMA StoreViews ==
  /\ life = [a \in Ids |-> LifeOf(a)] /\ firings = [a \in Ids |-> Cardinality(FiringsOf(a))]
  /\ life' = [a \in Ids |-> LifeOf(a)'] /\ firings' = [a \in Ids |-> Cardinality(FiringsOf(a)')]
  BY DEF life, firings, LifeOf, FiringsOf

(* Only a save, and a crash, end a create. *)
LEMMA StoredSame ==
  ASSUME TypeOK, HandlersOK, IdsOK, [Next]_vars, ~Crash,
         \A r \in Requests : ~(OpenStore(r) /\ op[r] = "create"),
         NEW a \in Ids
  PROVE  Stored(a)' <=> Stored(a)
  <1> USE ApprovalsAssumption DEF TypeOK
  <1>1. ASSUME NEW c \in Requests, op'[c] = "create", target'[c] = a,
               pc'[c] \notin {"evaluate", "load", "open"}
        PROVE  op[c] = "create" /\ target[c] = a /\ pc[c] \notin {"evaluate", "load", "open"}
    <2>1. ASSUME NEW r \in Requests, Actor(r), r # c
          PROVE  op[c] = "create" /\ target[c] = a /\ pc[c] \notin {"evaluate", "load", "open"}
      BY <1>1, <2>1, OthersWatch DEF Actor, Spectator
    <2>2. ASSUME Actor(c)
          PROVE  op[c] = "create" /\ target[c] = a /\ pc[c] \notin {"evaluate", "load", "open"}
      <3>1. op[c] = "create" /\ target[c] = a
        BY <1>1, <2>2, Identity DEF IdsOK
      <3>2. pc[c] # "evaluate"
        BY <3>1 DEF IdsOK
      <3>3. HandlerOK(c)
        BY DEF HandlersOK
      <3>4. pc[c] \notin {"load", "open"}
        BY <1>1, <2>2, <3>1, <3>3 DEF Actor, SendCreate, SendDecision, Dispatch, Handle,
           RefuseCreate, AcceptCreate, LoadForCreate, StepUp, NotPending, LoadForReject,
           LoadForApprove, Reevaluate, OpenStore, WriteStore, AppendAudit, AuditRaises, RenderRaises,
           FireConnector, Goto
      <3> QED
        BY <3>1, <3>2, <3>4
    <2>3. CASE WorldChanges \/ UNCHANGED vars
      BY <1>1, <2>3 DEF WorldChanges, vars, request
    <2> QED
      BY <2>1, <2>2, <2>3, ActorSteps
  <1>2. Stored(a)' => Stored(a)
    BY <1>1 DEF Stored
  <1> QED
    BY <1>2, StoredStays

(* A fired request keeps its target. *)
LEMMA FiredKeeps ==
  ASSUME TypeOK, HandlersOK, [Next]_vars, fired' = fired, NEW a
  PROVE  FiringsOf(a)' = FiringsOf(a)
  <1>1. \A q \in fired : target'[q] = target[q]
    <2> SUFFICES ASSUME NEW q \in fired PROVE target'[q] = target[q]
      OBVIOUS
    <2>1. q \in Requests /\ pc[q] # "unsent" /\ op[q] = "approve"
      BY DEF HandlersOK, HandlerOK, TypeOK
    <2>2. ASSUME NEW r \in Requests, Actor(r), r # q PROVE target'[q] = target[q]
      BY <2>1, <2>2, OthersWatch DEF Actor, Spectator
    <2>3. ASSUME Actor(q) PROVE target'[q] = target[q]
      BY <2>1, <2>3, Identity DEF AcceptCreate
    <2> QED
      BY <2>1, <2>2, <2>3, NobodysStep, ActorSteps
  <1> QED
    BY <1>1 DEF FiringsOf

LEMMA SaveIsMove ==
  ASSUME MaxInFlight = 1, SerialInv, SerialInv', NEW r \in Requests, OpenStore(r), Next,
         Settling = disk.records, Settling' = mem[r]
  PROVE  Lifecycle!LifecycleNext
  <1> USE DEF SerialInv, IInv
  <1>1. pc[r] = "open" /\ pc'[r] = "write" /\ UNCHANGED <<op, target, fired, contained, crashes>>
    BY DEF OpenStore, Goto, request, effects, counters, TypeOK
  <1>2. PICK t \in Ids : t = target[r] /\ HandlerOK(r) /\ op[r] \in Ops
    BY <1>1 DEF HandlersOK, HandlerOK, InService, TypeOK
  <1>3. /\ mem[r] \in Store /\ Settling \in Store
        /\ mem[r] = [Settling EXCEPT ![t] = mem[r][t]]
    BY <1>1, <1>2, LoadIsStore DEF TypeOK, WorkOK
  <1>4. \A a \in Ids : FiringsOf(a)' = FiringsOf(a)
    BY <1>1, FiredKeeps
  <1>5. firings' = firings
    BY <1>4, StoreViews
  <1>6. \A a \in Ids \ {t} : Stored(a)' <=> Stored(a)
    <2> SUFFICES ASSUME NEW a \in Ids \ {t} PROVE Stored(a)' => Stored(a)
      BY StoredStays
    <2>1. \A c \in Requests \ {r} : op'[c] = op[c] /\ target'[c] = target[c] /\ pc'[c] = pc[c]
      BY OthersWatch DEF Handle, Spectator
    <2> QED
      BY <1>1, <1>2, <2>1 DEF Stored
  <1>7. \A a \in Ids \ {t} : LifeOf(a)' = LifeOf(a)
    <2>1. \A a \in Ids \ {t} : Settling'[a] = Settling[a]
      BY <1>2, <1>3 DEF Store
    <2> QED
      BY <1>6, <2>1 DEF LifeOf
  <1>8. ASSUME NEW from, NEW to, LifeOf(t) = from, LifeOf(t)' = to
        PROVE  Lifecycle!Move(t, from, to)
    <2>1. life' = [life EXCEPT ![t] = to]
      BY <1>2, <1>7, <1>8, StoreViews
    <2>2. life[t] = from
      BY <1>2, <1>8, StoreViews
    <2> QED
      BY <1>1, <1>5, <2>1, <2>2 DEF Lifecycle!Move
  <1>9. CASE op[r] = "create"
    <2>1. ~Stored(t)
      BY <1>1, <1>2, <1>9 DEF IdsOK, Stored
    <2>2. LifeOf(t) = "absent"
      BY <1>2, <2>1 DEF IdsOK, LifeOf
    <2>3. LifeOf(t)' = "pending"
      BY <1>1, <1>2, <1>9 DEF CreatesOK, LifeOf
    <2>4. Lifecycle!Request(t)
      BY <1>8, <2>2, <2>3 DEF Lifecycle!Request
    <2> QED
      BY <1>2, <2>4 DEF Lifecycle!LifecycleNext
  <1>10. CASE op[r] # "create"
    <2>1. Settling[t] = IF r \in fired THEN "approved" ELSE "pending"
      BY <1>1, <1>2, <1>10 DEF WorkOK
    <2>2. LifeOf(t) = Settling[t]
      BY <2>1 DEF LifeOf
    <2>3. mem[r][t] # "absent" => LifeOf(t)' = mem[r][t]
      BY <1>2 DEF LifeOf
    <2>4. CASE op[r] = "reject"
      <3>1. mem[r][t] = "rejected" /\ r \notin fired
        BY <1>1, <1>2, <2>4 DEF HandlerOK, Saving
      <3>2. Lifecycle!Reject(t)
        BY <1>8, <2>1, <2>2, <2>3, <3>1 DEF Lifecycle!Reject
      <3> QED
        BY <1>2, <3>2 DEF Lifecycle!LifecycleNext
    <2>5. CASE op[r] = "approve" /\ r \notin fired
      <3>1. mem[r][t] \in {"approved", "failed"}
        BY <1>1, <1>2, <2>5 DEF HandlerOK, Saving
      <3>2. Lifecycle!Approve(t) \/ Lifecycle!Refuse(t)
        BY <1>8, <2>1, <2>2, <2>3, <2>5, <3>1 DEF Lifecycle!Approve, Lifecycle!Refuse
      <3> QED
        BY <1>2, <3>2 DEF Lifecycle!LifecycleNext
    <2>6. CASE r \in fired
      <3>1. mem[r][t] \in {"executed", "failed"}
        BY <1>1, <1>2, <2>6 DEF HandlerOK, Saving
      <3>2. FiringsOf(t) = {r}
        BY <1>2, <2>6 DEF FiringsOf, FiringOK
      <3>3. firings[t] = 1
        BY <1>2, <3>2, StoreViews, FS_Singleton
      <3>4. Lifecycle!Settle(t)
        BY <1>8, <2>1, <2>2, <2>3, <2>6, <3>1, <3>3 DEF Lifecycle!Settle
      <3> QED
        BY <1>2, <3>4 DEF Lifecycle!LifecycleNext
    <2> QED
      BY <1>2, <1>10, <2>4, <2>5, <2>6 DEF Ops
  <1> QED
    BY <1>9, <1>10

LEMMA FiringIsFire ==
  ASSUME MaxInFlight = 1, SerialInv, SerialInv', [Next]_vars,
         NEW r \in Requests, NEW ok \in BOOLEAN, FireConnector(r, ok),
         Settling' = Settling, \A a \in Ids : Stored(a)' <=> Stored(a)
  PROVE  Lifecycle!LifecycleNext
  <1> DEFINE t == target[r]
  <1> USE DEF SerialInv, IInv
  <1>1. /\ pc[r] = "fire" /\ UNCHANGED <<target, crashes>> /\ fired' = fired \cup {r}
        /\ op[r] = "approve" /\ r \notin fired /\ t \in Ids
    BY DEF FireConnector, request, counters, HandlersOK, HandlerOK, InService
  <1>2. Settling[t] = "approved"
    <2>1. disk.records = mem[r] /\ mem[r][t] = "approved"
      BY <1>1 DEF WorkOK
    <2>2. \A q \in Requests : pc[q] # "write"
      BY <1>1 DEF Alone, InFlight, InService
    <2> QED
      BY <2>1, <2>2, SettlingIs
  <1>3. life[t] = "approved" /\ life' = life
    <2>1. \A a \in Ids : LifeOf(a)' = LifeOf(a)
      BY DEF LifeOf
    <2>2. LifeOf(t) = "approved"
      BY <1>2 DEF LifeOf
    <2> QED
      BY <1>1, <2>1, <2>2, StoreViews
  <1>4. FiringsOf(t) = {} /\ FiringsOf(t)' = {r}
    BY <1>1 DEF FiringsOf, FiringOK, TypeOK
  <1>5. \A a \in Ids \ {t} : FiringsOf(a)' = FiringsOf(a)
    BY <1>1 DEF FiringsOf
  <1>6. Cardinality({}) = 0 /\ Cardinality({r}) = 1
    BY FS_EmptySet, FS_Singleton
  <1>7. firings[t] = 0 /\ firings' = [firings EXCEPT ![t] = 1]
    BY <1>1, <1>4, <1>5, <1>6, StoreViews
  <1>8. Lifecycle!Fire(t)
    BY <1>1, <1>3, <1>7 DEF Lifecycle!Fire
  <1> QED
    BY <1>1, <1>8 DEF Lifecycle!LifecycleNext

LEMMA CrashIsLoss ==
  ASSUME MaxInFlight = 1, SerialInv, SerialInv', Crash, [Next]_vars,
         Settling' \in {Settling, NoRecords}
  PROVE  Lifecycle!LifecycleNext
  <1> DEFINE S == {a \in Ids : LifeOf(a)' = "lost"}
  <1> USE DEF SerialInv, IInv
  <1>1. crashes' = crashes + 1 /\ UNCHANGED <<fired, target>>
    BY DEF Crash, effects, request
  <1>2. firings' = firings
    BY <1>1, FiredKeeps, StoreViews
  <1>3. ASSUME NEW a \in Ids, LifeOf(a)' # "lost" PROVE LifeOf(a)' = LifeOf(a)
    <2>1. Stored(a) => Stored(a)'
      BY StoredStays
    <2>2. Settling[a] # "absent" => Stored(a)
      BY DEF IdsOK
    <2>3. NoRecords[a] = "absent"
      BY DEF NoRecords
    <2> QED
      BY <1>3, <2>1, <2>2, <2>3 DEF LifeOf
  <1>4. \A a \in Ids : LifeOf(a)' = IF a \in S THEN "lost" ELSE LifeOf(a)
    BY <1>3
  <1> HIDE DEF S
  <1>5. life' = [a \in Ids |-> IF a \in S THEN "lost" ELSE life[a]]
    BY <1>4, StoreViews
  <1>6. Lifecycle!CrashLoses(S)
    BY <1>1, <1>2, <1>5 DEF Lifecycle!CrashLoses
  <1>7. S \in SUBSET Ids
    BY DEF S
  <1> QED
    BY <1>6, <1>7 DEF Lifecycle!LifecycleNext

LEMMA LifeStep ==
  ASSUME MaxInFlight = 1, SerialInv, SerialInv', [Next]_vars
  PROVE  [Lifecycle!LifecycleNext]_(Lifecycle!avars)
  <1> USE DEF SerialInv, IInv
  <1>1. ASSUME NEW r \in Requests, OpenStore(r), Settling = disk.records, Settling' = mem[r]
        PROVE  Lifecycle!LifecycleNext
    <2>1. Next
      BY <1>1 DEF Next, Handle
    <2> QED
      BY <1>1, <2>1, SaveIsMove
  <1>2. CASE Crash /\ Settling' \in {Settling, NoRecords}
    BY <1>2, CrashIsLoss
  <1>3. CASE (\A r \in Requests : ~OpenStore(r)) /\ ~Crash /\ Settling' = Settling
    <2>1. \A a \in Ids : Stored(a)' <=> Stored(a)
      BY <1>3, StoredSame
    <2>2. CASE \E r \in Requests, ok \in BOOLEAN : FireConnector(r, ok)
      BY <1>3, <2>1, <2>2, FiringIsFire
    <2>3. CASE ~\E r \in Requests, ok \in BOOLEAN : FireConnector(r, ok)
      <3>1. fired' = fired /\ crashes' = crashes
        <4>1. fired' = fired
          BY <2>3, FiringSteps
        <4>2. crashes' = crashes
          BY <1>3 DEF Next, vars, Handle, SendCreate, SendDecision, WorldChanges, RefuseCreate,
             AcceptCreate, LoadForCreate, StepUp, NotPending, LoadForReject, LoadForApprove,
             Reevaluate, OpenStore, WriteStore, AppendAudit, AuditRaises, RenderRaises,
             FireConnector, counters
        <4> QED
          BY <4>1, <4>2
      <3>2. \A a \in Ids : FiringsOf(a)' = FiringsOf(a) /\ LifeOf(a)' = LifeOf(a)
        BY <1>3, <2>1, <3>1, FiredKeeps DEF LifeOf
      <3>3. UNCHANGED <<life, firings>>
        BY <3>2, StoreViews
      <3> QED
        BY <3>1, <3>3 DEF Lifecycle!avars
    <2> QED
      BY <2>2, <2>3
  <1> QED
    BY <1>1, <1>2, <1>3, SettlingMoves

LEMMA InitSerialInv ==
  ASSUME Init
  PROVE  SerialInv /\ Lifecycle!LifecycleInit
  <1> USE ApprovalsAssumption
  <1>1. IInv /\ Load(disk) = NoRecords /\ disk.records = NoRecords
    BY InitIInv, NoRecordsIsStore, JsonIsFile, LoadIsStore DEF Init, IInv, TypeOK
  <1>2. Settling = NoRecords
    BY <1>1 DEF Init, Settling
  <1>3. Alone
    <2>1. InFlight = {}
      BY DEF Init, InFlight, InService
    <2> QED
      BY <2>1, FS_EmptySet DEF Alone
  <1>4. \A a \in Ids : NoRecords[a] = "absent" /\ ~Stored(a)
    BY DEF Init, NoRecords, Stored
  <1>5. IdsOK
    BY <1>2, <1>4 DEF Init, IdsOK
  <1>6. FiringOK /\ WorkOK /\ CreatesOK
    BY FS_EmptySet DEF Init, FiringOK, WorkOK, CreatesOK
  <1>7. \A a \in Ids : LifeOf(a) = "absent" /\ FiringsOf(a) = {}
    BY <1>2, <1>4 DEF LifeOf, FiringsOf, Init
  <1>8. life = [a \in Ids |-> "absent"] /\ firings = [a \in Ids |-> 0]
    BY <1>7, StoreViews, FS_EmptySet
  <1>9. Lifecycle!LifecycleInit
    BY <1>8 DEF Lifecycle!LifecycleInit, Init
  <1> QED
    BY <1>1, <1>3, <1>5, <1>6, <1>9 DEF SerialInv

(* Served one request at a time, the three handlers implement the documented *)
(* state machine, crashes included: every step of the program is a step of   *)
(* the machine or none, whatever the number of requests and approvals.       *)
THEOREM SerialIsLifecycle ==
  ASSUME MaxInFlight = 1
  PROVE  Spec => ImplementsLifecycle
  <1>1. Init => SerialInv /\ Lifecycle!LifecycleInit
    BY InitSerialInv
  <1>2. SerialInv /\ [Next]_vars => SerialInv'
    <2> SUFFICES ASSUME SerialInv, [Next]_vars PROVE SerialInv'
      OBVIOUS
    <2>1. IInv'
      BY NextIInv DEF SerialInv
    <2>2. CreatesOK' /\ Alone'
      BY NextCreatesOK, NextAlone DEF SerialInv, IInv
    <2>3. IdsOK' /\ FiringOK' /\ WorkOK'
      BY <2>1, <2>2, NextIdsOK, NextFiringOK, NextWorkOK DEF SerialInv, IInv
    <2> QED
      BY <2>1, <2>2, <2>3 DEF SerialInv
  <1>3. SerialInv /\ SerialInv' /\ [Next]_vars => [Lifecycle!LifecycleNext]_(Lifecycle!avars)
    BY LifeStep
  <1> QED
    BY <1>1, <1>2, <1>3, PTL DEF Spec, ImplementsLifecycle, Lifecycle!LifecycleSpec
=============================================================================
