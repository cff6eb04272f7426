------------------------- MODULE LogAnalyzerProofs -------------------------
(***************************************************************************)
(* The two halves of log_analyzer.py.  Whatever the file, its records have  *)
(* the lines they say and what they leave out is known (Ingest).  Whatever  *)
(* the model answers and in whatever order, prose is its finding's own, and *)
(* what the model failed to read is in the report (Analyzer).               *)
(***************************************************************************)
EXTENDS Ingest, Analyzer, FiniteSetTheorems, WellFoundedInduction, TLAPS

-----------------------------------------------------------------------------
(* Analyzer. *)

(* The least of a set of numbers, and the greatest of a bounded one.         *)
LEMMA MinIs ==
    ASSUME NEW S \in SUBSET Nat, S # {}
    PROVE  Min(S) \in S /\ \A y \in S : Min(S) <= y
<1>1. PICK x \in S : \A y \in S : <<y, x>> \notin OpToRel(<, Nat)
  BY WFMin, NatLessThanWellFounded, Zenon
<1>2. \A y \in S : ~(y < x)
  BY <1>1, Zenon DEF OpToRel
<1>3. \E z \in S : \A y \in S : z =< y
  BY <1>2
<1> QED BY <1>3 DEF Min

LEMMA MaxIs ==
    ASSUME NEW n \in Nat, NEW S \in SUBSET (1..n), S # {}
    PROVE  Max(S) \in S
<1> DEFINE T == {n - x : x \in S}
<1>1. T \in SUBSET Nat /\ T # {}
  <2>1. \A x \in S : n - x \in Nat
    OBVIOUS
  <2> QED BY <2>1
<1>2. PICK x \in S : n - x = Min(T)
  BY <1>1, MinIs
<1>3. \A y \in S : n - x <= n - y
  BY <1>1, <1>2, MinIs
<1>4. \A y \in S : x >= y
  BY <1>3
<1> QED BY <1>4 DEF Max

-----------------------------------------------------------------------------
(* What is asked is put in order: all of it, and nothing else. *)
Rank(asks, a) == Cardinality({b \in asks : Earlier(b, a)})

LEMMA RankIs ==
    ASSUME NEW asks \in SUBSET (Nat \X Nat), IsFiniteSet(asks)
    PROVE  /\ \A a \in asks : Rank(asks, a) + 1 \in 1..Cardinality(asks)
           /\ \A a, b \in asks : a # b => Rank(asks, a) # Rank(asks, b)
<1> DEFINE Ahead(a) == {b \in asks : Earlier(b, a)}
<1>1. \A a \in asks : /\ IsFiniteSet(Ahead(a)) /\ Cardinality(Ahead(a)) \in Nat
                      /\ Rank(asks, a) = Cardinality(Ahead(a))
  BY FS_Subset, FS_CardinalityType DEF Rank
<1>2. Cardinality(asks) \in Nat
  BY FS_CardinalityType
<1>3. ASSUME NEW a \in asks
      PROVE  Rank(asks, a) < Cardinality(asks)
  <2>1. Ahead(a) \in SUBSET asks /\ a \notin Ahead(a)
    BY DEF Earlier
  <2>2. Cardinality(Ahead(a)) <= Cardinality(asks) /\ Cardinality(asks) # Cardinality(Ahead(a))
    BY <2>1, FS_Subset
  <2>3. Cardinality(Ahead(a)) \in Nat /\ Rank(asks, a) = Cardinality(Ahead(a))
    BY <1>1
  <2> HIDE DEF Ahead
  <2> QED BY <1>2, <2>2, <2>3
<1>4. ASSUME NEW a \in asks, NEW b \in asks, Earlier(a, b)
      PROVE  Rank(asks, a) < Rank(asks, b)
  <2>1. Ahead(a) \in SUBSET Ahead(b)
    BY <1>4 DEF Earlier
  <2>2. a \in Ahead(b) /\ a \notin Ahead(a)
    BY <1>4 DEF Earlier
  <2>3. /\ Cardinality(Ahead(a)) <= Cardinality(Ahead(b))
        /\ Cardinality(Ahead(b)) # Cardinality(Ahead(a))
    BY <1>1, <2>1, <2>2, FS_Subset
  <2>4. /\ Cardinality(Ahead(a)) \in Nat /\ Rank(asks, a) = Cardinality(Ahead(a))
        /\ Cardinality(Ahead(b)) \in Nat /\ Rank(asks, b) = Cardinality(Ahead(b))
    BY <1>1
  <2> HIDE DEF Ahead
  <2> QED BY <2>3, <2>4
<1>5. \A a, b \in asks : a # b => Earlier(a, b) \/ Earlier(b, a)
  <2> TAKE a, b \in asks
  <2>1. a = <<a[1], a[2]>> /\ b = <<b[1], b[2]>> /\ {a[1], a[2], b[1], b[2]} \subseteq Nat
    OBVIOUS
  <2> QED BY <2>1 DEF Earlier
<1>6. \A a \in asks : Rank(asks, a) \in Nat
  BY <1>1
<1> HIDE DEF Ahead
<1>7. \A a, b \in asks : a # b => Rank(asks, a) # Rank(asks, b)
  BY <1>4, <1>5, <1>6
<1> QED BY <1>2, <1>3, <1>6, <1>7

LEMMA InOrderIs ==
    ASSUME NEW asks \in SUBSET (Nat \X Nat), IsFiniteSet(asks)
    PROVE  LET order == InOrder(asks)
           IN  /\ Cardinality(asks) \in Nat /\ DOMAIN order = 1..Cardinality(asks)
               /\ Len(order) = Cardinality(asks)
               /\ \A n \in DOMAIN order : order[n] \in asks
               /\ \A a \in asks : \E n \in DOMAIN order : order[n] = a
<1> DEFINE N == Cardinality(asks)
           place == [a \in asks |-> Rank(asks, a) + 1]
<1>1. N \in Nat /\ \A a \in asks : Rank(asks, a) \in Nat
  BY FS_CardinalityType, FS_Subset DEF Rank
<1>2. place \in Injection(asks, 1..N)
  BY <1>1, RankIs DEF Injection, IsInjective
<1>3. IsFiniteSet(1..N) /\ Cardinality(1..N) = N
  BY <1>1, FS_Interval
<1>4. place \in Surjection(asks, 1..N)
  BY <1>2, <1>3, FS_Injection
<1>5. \A n \in 1..N : \E a \in asks : Rank(asks, a) = n - 1
  <2> SUFFICES ASSUME NEW n \in 1..N
               PROVE  \E a \in asks : Rank(asks, a) = n - 1
    OBVIOUS
  <2>1. PICK a \in asks : place[a] = n
    BY <1>4 DEF Surjection
  <2>2. Rank(asks, a) + 1 = n
    BY <2>1
  <2> QED BY <1>1, <2>2
<1>6. ASSUME NEW n \in 1..N
      PROVE  InOrder(asks)[n] \in asks /\ Rank(asks, InOrder(asks)[n]) = n - 1
  <2>1. InOrder(asks)[n] = CHOOSE a \in asks : Rank(asks, a) = n - 1
    BY DEF InOrder, Rank
  <2> QED BY <1>5, <2>1
<1>7. DOMAIN InOrder(asks) = 1..N /\ Len(InOrder(asks)) = N
  BY <1>1 DEF InOrder
<1>8. ASSUME NEW a \in asks
      PROVE  \E n \in 1..N : InOrder(asks)[n] = a
  <2>1. Rank(asks, a) + 1 \in 1..N
    BY RankIs
  <2>2. Rank(asks, InOrder(asks)[Rank(asks, a) + 1]) = Rank(asks, a)
    BY <1>1, <1>6, <2>1
  <2>3. InOrder(asks)[Rank(asks, a) + 1] = a
    BY <1>6, <2>1, <2>2, RankIs
  <2> QED BY <2>1, <2>3
<1> QED BY <1>1, <1>6, <1>7, <1>8

-----------------------------------------------------------------------------
Replies == {"pending", "good", "odd", "raises"} \cup Failures
Work == [chunk : Nat, about : Nat, attempt : Nat, reply : Replies, taken : BOOLEAN]

TypeOK ==
    /\ input \in Inputs
    /\ stage \in {"explain", "reask", "compare", "final", "raised", "aborted"}
    /\ jobs \in Seq(Work)
    /\ prose = [j \in Found |-> prose[j]]

(* A job is about a chunk or about a finding of it; while the findings of    *)
(* chunks are being explained there are none of the second kind, and later   *)
(* none of the first that has not been handled.                              *)
JobsOK ==
    \A k \in DOMAIN jobs :
        /\ jobs[k].about # 0 =>
             jobs[k].about \in Found /\ jobs[k].chunk \in Rules[jobs[k].about].at
        /\ stage = "explain" => jobs[k].about = 0
        /\ stage \in {"reask", "compare", "final"} /\ jobs[k].about = 0 => jobs[k].taken

(* Every selected chunk was asked about; what has been handled was answered  *)
(* or is noted.                                                              *)
CoverOK == \A c \in Selected : \E k \in DOMAIN jobs : jobs[k].chunk = c /\ jobs[k].about = 0

NotedOK ==
    \A k \in DOMAIN jobs : jobs[k].about = 0 /\ jobs[k].taken =>
        jobs[k].reply \in {"good", "raises"} \/ jobs[k].chunk \in notes

Alone == {k \in DOMAIN jobs : jobs[k].about # 0}

MissingOK ==
    stage \in {"reask", "compare", "final"} =>
        \A j \in Found :
            \/ Rules[j].at \cap Selected = {} \/ prose[j] # None
            \/ \E k \in DOMAIN jobs : jobs[k].about = j
            \/ Cardinality(Alone) = SECOND_PASS_MAX

(* As ProseIsOwn, with the test the code makes of what a text names. *)
ProseFits ==
    \A j \in Found : prose[j] # None =>
        /\ prose[j].chunk \in Rules[j].at
        /\ prose[j].text.rule = Rules[j].type
              \/ (prose[j].text.rule = NoRule /\ (prose[j].asked = j \/ Here(prose[j].chunk) = {j}))
        /\ Names(prose[j].text, j)
              \/ (prose[j].asked = j /\ Siblings(prose[j].chunk, j) = {j})

IInv == TypeOK /\ JobsOK /\ CoverOK /\ NotedOK /\ MissingOK /\ ProseFits

-----------------------------------------------------------------------------
LEMMA InputIs ==
    ASSUME input \in Inputs
    PROVE  /\ Chunks \subseteq Nat /\ Found \subseteq Nat \ {0} /\ IsFiniteSet(Found)
           /\ \A j \in Found : Rules[j].at \subseteq Chunks
           /\ Selected \subseteq Chunks /\ IsFiniteSet(Selected)
<1>1. /\ input.chunks \in Nat
      /\ Len(Rules) \in Nat /\ Found = 1..Len(Rules)
      /\ \A j \in Found : Rules[j].at \subseteq 1..input.chunks
  BY InputsAssumption DEF Rules, Found
<1>2. IsFiniteSet(Found) /\ IsFiniteSet(Chunks)
  BY <1>1, FS_Interval DEF Chunks
<1>3. Selected \subseteq Chunks
  <2>1. CASE GapFill
    BY <2>1 DEF Selected
  <2>2. CASE ~GapFill
    <3>1. \A j \in {k \in Top : Rules[k].at # {}} : Max(Rules[j].at) \in 1..input.chunks
      BY <1>1, MaxIs DEF Top
    <3> QED BY <2>2, <3>1 DEF Selected, Chunks
  <2> QED BY <2>1, <2>2
<1>4. IsFiniteSet(Selected)
  BY <1>2, <1>3, FS_Subset
<1> QED BY <1>1, <1>2, <1>3, <1>4 DEF Chunks

(* Nothing of the input changes. *)
LEMMA InputStays ==
    ASSUME UNCHANGED input
    PROVE  /\ Rules' = Rules /\ Found' = Found /\ Selected' = Selected
           /\ \A c : Here(c)' = Here(c)
           /\ \A c, j : Siblings(c, j)' = Siblings(c, j)
           /\ \A t, j : Names(t, j)' <=> Names(t, j)
<1>1. Rules' = Rules /\ Found' = Found
  BY DEF Rules, Found
<1>2. GapFill' <=> GapFill
  BY DEF GapFill
<1>3. Chunks' = Chunks /\ Top' = Top
  BY <1>1 DEF Chunks, Top
<1>4. Selected' = Selected
  BY <1>1, <1>2, <1>3 DEF Selected
<1>5. \A c : Here(c)' = Here(c)
  BY <1>1 DEF Here
<1>6. \A c, j : Siblings(c, j)' = Siblings(c, j)
  BY <1>1, <1>5 DEF Siblings
<1>7. \A t, j : Names(t, j)' <=> Names(t, j)
  BY <1>1 DEF Names, Words, Within
<1> QED BY <1>1, <1>4, <1>5, <1>6, <1>7

-----------------------------------------------------------------------------
Own(j, p) ==
    /\ p.chunk \in Rules[j].at
    /\ p.text.rule = Rules[j].type
          \/ (p.text.rule = NoRule /\ (p.asked = j \/ Here(p.chunk) = {j}))
    /\ Names(p.text, j) \/ (p.asked = j /\ Siblings(p.chunk, j) = {j})

(* A step that asks nothing new: what it handles it has an answer for or     *)
(* notes, and what prose it adds is the finding's own.                       *)
Stays ==
    /\ UNCHANGED input
    /\ stage' \in {"explain", "reask", "compare", "final", "raised", "aborted"}
    /\ stage' = "explain" => stage = "explain"
    /\ stage' \in {"reask", "compare", "final"} => stage \in {"reask", "compare", "final"}
    /\ jobs' \in Seq(Work) /\ DOMAIN jobs' = DOMAIN jobs
    /\ \A k \in DOMAIN jobs : /\ jobs'[k].chunk = jobs[k].chunk /\ jobs'[k].about = jobs[k].about
                              /\ jobs[k].taken => jobs'[k].taken
                              /\ jobs[k].reply \in {"good", "raises"} => jobs'[k].reply = jobs[k].reply
    /\ notes \subseteq notes'
    /\ \A k \in DOMAIN jobs : jobs[k].about = 0 /\ jobs'[k].taken /\ ~jobs[k].taken =>
          jobs'[k].reply \in {"good", "raises"} \/ jobs[k].chunk \in notes'
    /\ prose' = [j \in Found |-> prose'[j]]
    /\ \A j \in Found : prose'[j] = prose[j] \/ (prose'[j] # None /\ Own(j, prose'[j]))

LEMMA StaysKeeps ==
    ASSUME IInv, Stays
    PROVE  IInv'
<1> USE DEF Stays
<1>1. TypeOK /\ JobsOK /\ CoverOK /\ NotedOK /\ MissingOK /\ ProseFits
  BY DEF IInv
<1>2. /\ Rules' = Rules /\ Found' = Found /\ Selected' = Selected
      /\ \A c : Here(c)' = Here(c)
      /\ \A c, j : Siblings(c, j)' = Siblings(c, j)
      /\ \A t, j : Names(t, j)' <=> Names(t, j)
  BY InputStays
<1>3. TypeOK'
  BY <1>1, <1>2 DEF TypeOK
<1>4. JobsOK'
  BY <1>1, <1>2 DEF JobsOK
<1>5. CoverOK'
  BY <1>1, <1>2 DEF CoverOK
<1>6. NotedOK'
  BY <1>1 DEF NotedOK
<1>7. MissingOK'
  <2>1. Alone' = Alone
    BY DEF Alone
  <2> QED BY <1>1, <1>2, <2>1 DEF MissingOK
<1>8. ProseFits'
  <2>1. \A j \in Found : prose[j] # None => Own(j, prose[j])
    BY <1>1 DEF ProseFits, Own
  <2>2. \A j \in Found : prose'[j] # None => Own(j, prose'[j])
    BY <2>1
  <2> QED BY <1>2, <2>2 DEF ProseFits, Own
<1> QED BY <1>3, <1>4, <1>5, <1>6, <1>7, <1>8 DEF IInv

LEMMA WorkIs ==
    ASSUME jobs \in Seq(Work), NEW k \in DOMAIN jobs, NEW w \in Work,
           jobs' = [jobs EXCEPT ![k] = w]
    PROVE  /\ jobs' \in Seq(Work) /\ DOMAIN jobs' = DOMAIN jobs
           /\ jobs'[k] = w /\ \A i \in DOMAIN jobs \ {k} : jobs'[i] = jobs[i]
  OBVIOUS

LEMMA AnswerStays ==
    ASSUME IInv, NEW k \in DOMAIN jobs, Answer(k)
    PROVE  Stays
<1>1. TypeOK
  BY DEF IInv
<1>2. PICK kind \in Failures \cup {"good", "odd", "raises"} : jobs' = Replied(k, kind)
  BY DEF Answer
<1>3. jobs[k] \in Work /\ jobs[k].reply = "pending"
  BY <1>1 DEF TypeOK, Answer, InFlight, Unanswered
<1>4. UNCHANGED <<input, stage, prose, notes>>
  BY DEF Answer
<1>5. PICK w \in Work : /\ jobs' = [jobs EXCEPT ![k] = w]
                        /\ w.chunk = jobs[k].chunk /\ w.about = jobs[k].about /\ w.taken = jobs[k].taken
  <2>1. CASE jobs' = [jobs EXCEPT ![k].attempt = @ + 1]
    <3>1. [jobs[k] EXCEPT !.attempt = @ + 1] \in Work
      BY <1>3 DEF Work
    <3> QED BY <1>3, <2>1, <3>1 DEF Work
  <2>2. CASE jobs' = [jobs EXCEPT ![k].reply = kind]
    <3>1. [jobs[k] EXCEPT !.reply = kind] \in Work
      BY <1>3 DEF Work, Replies
    <3> QED BY <1>3, <2>2, <3>1 DEF Work
  <2> QED BY <1>2, <2>1, <2>2 DEF Replied
<1>6. /\ jobs' \in Seq(Work) /\ DOMAIN jobs' = DOMAIN jobs
      /\ jobs'[k] = w /\ \A i \in DOMAIN jobs \ {k} : jobs'[i] = jobs[i]
  BY <1>1, <1>5, WorkIs DEF TypeOK
<1> QED BY <1>1, <1>3, <1>4, <1>5, <1>6 DEF Stays, TypeOK

LEMMA ToldIs ==
    ASSUME NEW says \in Explanations, NEW i \in DOMAIN says, NEW c \in Nat, NEW j \in Nat
    PROVE  Told(c, says[i], j) # None
<1>1. Told(c, says[i], j) \in [text : {says[n] : n \in DOMAIN says}, chunk : Nat, asked : Nat]
  BY DEF Told
<1> QED BY <1>1, ExplanationsAssumption

LEMMA AttachIsOwn ==
    ASSUME TypeOK, NEW c \in Nat, NEW says \in Explanations, prose' = Attach(c, says)
    PROVE  /\ prose' = [j \in Found |-> prose'[j]]
           /\ \A j \in Found : prose'[j] = prose[j] \/ (prose'[j] # None /\ Own(j, prose'[j]))
<1>1. IsFiniteSet(Found) /\ Found \subseteq Nat \ {0}
  BY InputIs DEF TypeOK
<1>2. prose' = [j \in Found |-> prose'[j]]
  BY DEF Attach
<1>3. ASSUME NEW j \in Found, prose'[j] # prose[j]
      PROVE  prose'[j] # None /\ Own(j, prose'[j])
  <2> DEFINE i == Min(Fit(c, j, says))
  <2>1. Fit(c, j, says) # {} /\ prose'[j] = Told(c, says[i], 0)
    BY <1>3 DEF Attach
  <2>2. Fit(c, j, says) \in SUBSET Nat
    BY ExplanationsAssumption DEF Fit
  <2>3. i \in Fit(c, j, says)
    BY <2>1, <2>2, MinIs
  <2>4. i \in DOMAIN says /\ j \in Targets(c, says[i]) /\ Names(says[i], j)
    BY <2>3 DEF Fit
  <2>5. prose'[j] # None
    BY <2>1, <2>4, ToldIs
  <2>6. j \in Here(c) /\ c \in Rules[j].at
    BY <2>4 DEF Targets, Here
  <2>7. says[i].rule = Rules[j].type \/ (says[i].rule = NoRule /\ Here(c) = {j})
    <3>1. CASE says[i].rule = NoRule /\ Cardinality(Here(c)) = 1
      <4>1. IsFiniteSet(Here(c))
        BY <1>1, FS_Subset DEF Here
      <4>2. \E x : Here(c) = {x}
        BY <3>1, <4>1, FS_Singleton
      <4> QED BY <2>6, <3>1, <4>2
    <3>2. CASE j \in {x \in Here(c) : Rules[x].type = says[i].rule}
      BY <3>2
    <3> QED BY <2>4, <3>1, <3>2 DEF Targets
  <2>8. /\ prose'[j].text = says[i] /\ prose'[j].chunk = c
    BY <2>1 DEF Told
  <2> HIDE DEF i
  <2> QED BY <2>4, <2>5, <2>6, <2>7, <2>8 DEF Own
<1> QED BY <1>2, <1>3

LEMMA TakenIs ==
    ASSUME IInv, NEW k \in DOMAIN jobs, Taken(k)
    PROVE  /\ jobs' \in Seq(Work) /\ DOMAIN jobs' = DOMAIN jobs
           /\ \A i \in DOMAIN jobs : /\ jobs'[i].chunk = jobs[i].chunk /\ jobs'[i].about = jobs[i].about
                                     /\ jobs'[i].reply = jobs[i].reply
                                     /\ jobs[i].taken => jobs'[i].taken
           /\ \A i \in DOMAIN jobs \ {k} : jobs'[i] = jobs[i]
           /\ jobs[k] \in Work
<1> DEFINE w == [jobs[k] EXCEPT !.taken = TRUE]
<1>1. jobs \in Seq(Work)
  BY DEF IInv, TypeOK
<1>2. jobs[k] \in Work
  BY <1>1
<1>3. /\ w \in Work /\ w.chunk = jobs[k].chunk /\ w.about = jobs[k].about
      /\ w.reply = jobs[k].reply /\ w.taken
  BY <1>2 DEF Work
<1>4. jobs' = [jobs EXCEPT ![k] = w]
  BY DEF Taken
<1> HIDE DEF w
<1>5. /\ jobs' \in Seq(Work) /\ DOMAIN jobs' = DOMAIN jobs
      /\ jobs'[k] = w /\ \A i \in DOMAIN jobs \ {k} : jobs'[i] = jobs[i]
  BY <1>1, <1>3, <1>4, WorkIs
<1> QED BY <1>2, <1>3, <1>5

LEMMA ReplyStays ==
    ASSUME IInv, NEW k \in DOMAIN jobs, HandleReply(k)
    PROVE  Stays
<1>1. TypeOK /\ stage = "explain"
  BY DEF IInv, HandleReply
<1>2. /\ jobs' \in Seq(Work) /\ DOMAIN jobs' = DOMAIN jobs
      /\ \A i \in DOMAIN jobs : /\ jobs'[i].chunk = jobs[i].chunk /\ jobs'[i].about = jobs[i].about
                                /\ jobs'[i].reply = jobs[i].reply
                                /\ jobs[i].taken => jobs'[i].taken
      /\ \A i \in DOMAIN jobs \ {k} : jobs'[i] = jobs[i]
      /\ jobs[k] \in Work
  BY TakenIs DEF HandleReply
<1>3. UNCHANGED <<input, stage>>
  BY DEF HandleReply
<1>4. notes \subseteq notes' /\ (jobs[k].reply \in {"good", "raises"} \/ jobs[k].chunk \in notes')
  <2>1. jobs[k].reply \in {"good", "raises"} \cup Failures
    BY <1>2 DEF HandleReply, Ready, Work, Replies
  <2> QED BY <2>1 DEF HandleReply, Noted
<1>5. /\ prose' = [j \in Found |-> prose'[j]]
      /\ \A j \in Found : prose'[j] = prose[j] \/ (prose'[j] # None /\ Own(j, prose'[j]))
  <2>1. CASE jobs[k].reply = "good"
    <3>1. PICK says \in Explanations : prose' = Attach(jobs[k].chunk, says)
      BY <2>1 DEF HandleReply
    <3>2. jobs[k].chunk \in Nat
      BY <1>2 DEF Work
    <3> QED BY <1>1, <3>1, <3>2, AttachIsOwn
  <2>2. CASE jobs[k].reply # "good"
    BY <1>1, <2>2 DEF HandleReply, TypeOK
  <2> QED BY <2>1, <2>2
<1>6. \A i \in DOMAIN jobs : jobs[i].about = 0 /\ jobs'[i].taken /\ ~jobs[i].taken =>
          jobs'[i].reply \in {"good", "raises"} \/ jobs[i].chunk \in notes'
  BY <1>2, <1>4
<1> QED BY <1>1, <1>2, <1>3, <1>4, <1>5, <1>6 DEF Stays

LEMMA SingleStays ==
    ASSUME IInv, NEW k \in DOMAIN jobs, HandleSingle(k)
    PROVE  Stays
<1> DEFINE c == jobs[k].chunk
           j == jobs[k].about
<1>1. TypeOK /\ JobsOK /\ stage = "reask" /\ Ready(k)
  BY DEF IInv, HandleSingle
<1>2. /\ jobs' \in Seq(Work) /\ DOMAIN jobs' = DOMAIN jobs
      /\ \A i \in DOMAIN jobs : /\ jobs'[i].chunk = jobs[i].chunk /\ jobs'[i].about = jobs[i].about
                                /\ jobs'[i].reply = jobs[i].reply
                                /\ jobs[i].taken => jobs'[i].taken
      /\ \A i \in DOMAIN jobs \ {k} : jobs'[i] = jobs[i]
      /\ jobs[k] \in Work
  BY TakenIs DEF HandleSingle
<1>3. UNCHANGED <<input, stage, notes>>
  BY DEF HandleSingle
<1>4. j # 0 /\ j \in Found /\ c \in Rules[j].at /\ j \in Nat /\ c \in Nat
  <2>1. j # 0
    BY <1>1 DEF JobsOK, Ready
  <2> QED BY <1>1, <1>2, <2>1 DEF JobsOK, Work
<1>5. /\ prose' = [i \in Found |-> prose'[i]]
      /\ \A i \in Found : prose'[i] = prose[i] \/ (prose'[i] # None /\ Own(i, prose'[i]))
  <2>1. CASE \E says \in Explanations : prose' = ToldAlone(c, j, says) /\ Answers(c, j, says) # {}
    <3>1. PICK says \in Explanations : prose' = ToldAlone(c, j, says) /\ Answers(c, j, says) # {}
      BY <2>1
    <3> DEFINE n == Min(Answers(c, j, says))
               t == Told(c, says[n], j)
    <3>2. Answers(c, j, says) \in SUBSET Nat
      BY ExplanationsAssumption DEF Answers
    <3>3. n \in Answers(c, j, says)
      BY <3>1, <3>2, MinIs
    <3>4. /\ n \in DOMAIN says /\ says[n].rule \in {NoRule, Rules[j].type}
          /\ Siblings(c, j) # {j} => Names(says[n], j)
      BY <3>3 DEF Answers
    <3>5. t # None
      BY <1>4, <3>4, ToldIs
    <3>6. prose' = [prose EXCEPT ![j] = t]
      BY <3>1 DEF ToldAlone
    <3>7. t.text = says[n] /\ t.chunk = c /\ t.asked = j
      BY DEF Told
    <3> HIDE DEF t, n
    <3>8. Own(j, t)
      BY <1>4, <3>4, <3>7 DEF Own
    <3> HIDE DEF j
    <3> QED BY <1>1, <1>4, <3>5, <3>6, <3>8 DEF TypeOK
  <2>2. CASE prose' = prose
    BY <1>1, <2>2 DEF TypeOK
  <2> QED BY <2>1, <2>2 DEF HandleSingle, ToldAlone
<1>6. \A i \in DOMAIN jobs : jobs[i].about = 0 /\ jobs'[i].taken /\ ~jobs[i].taken => FALSE
  BY <1>2, <1>4
<1> QED BY <1>1, <1>2, <1>3, <1>5, <1>6 DEF Stays

(* The steps of the main thread that ask nothing. *)
LEMMA QuietStays ==
    ASSUME IInv, \/ UNCHANGED driverVars \/ \E k \in DOMAIN jobs : HandleOdd(k)
                 \/ Abort \/ StartCompare \/ WriteReport \/ \E c \in Chunks : RateAlone(c)
    PROVE  Stays
<1>1. TypeOK
  BY DEF IInv
<1>2. /\ UNCHANGED <<input, jobs, prose, notes>>
      /\ \/ stage' = stage \/ stage' \in {"raised", "aborted"}
         \/ stage \in {"reask", "compare"} /\ stage' \in {"compare", "final"}
  BY DEF HandleOdd, Abort, StartCompare, WriteReport, RateAlone, driverVars
<1> QED BY <1>1, <1>2 DEF Stays, TypeOK

-----------------------------------------------------------------------------
(* The second pass asks about findings of selected chunks, all of those      *)
(* without prose or as many as its cap allows.                               *)
Unexplained == {p \in Selected \X Found : p[2] \in Here(p[1]) /\ prose[p[2]] = None}

LEMMA RetryIs ==
    ASSUME TypeOK
    PROVE  LET again == Retry(Missing)
           IN  /\ again \in Seq(Work)
               /\ \A n \in DOMAIN again :
                    /\ again[n].about \in Found \ {0} /\ again[n].chunk \in Rules[again[n].about].at
                    /\ ~again[n].taken
               /\ \/ Len(again) = SECOND_PASS_MAX
                  \/ \A p \in Unexplained : \E n \in DOMAIN again : again[n].about = p[2]
<1>1. /\ Chunks \subseteq Nat /\ Found \subseteq Nat \ {0} /\ IsFiniteSet(Found)
      /\ \A j \in Found : Rules[j].at \subseteq Chunks
      /\ Selected \subseteq Chunks /\ IsFiniteSet(Selected)
  BY InputIs DEF TypeOK
<1>2. IsFiniteSet(Unexplained)
  <2>1. IsFiniteSet(Selected \X Found)
    BY <1>1, FS_Product
  <2> QED BY <2>1, FS_Subset DEF Unexplained
<1>3. Unexplained \in SUBSET (Nat \X Nat)
  BY <1>1 DEF Unexplained
<1> DEFINE N == Cardinality(Unexplained)
<1>4. /\ N \in Nat /\ DOMAIN Missing = 1..N /\ Len(Missing) = N
      /\ \A n \in 1..N : Missing[n] \in Unexplained
      /\ \A p \in Unexplained : \E n \in 1..N : Missing[n] = p
  <2>1. Missing = InOrder(Unexplained)
    BY DEF Missing, Unexplained
  <2> QED BY <1>2, <1>3, <2>1, InOrderIs
<1> DEFINE again == Retry(Missing)
           m == Least(N, SECOND_PASS_MAX)
<1>5. m \in Nat /\ m <= N /\ m \in {N, SECOND_PASS_MAX}
  BY <1>4, AnalyzerAssumption DEF Least
<1>6. DOMAIN again = 1..m
  BY <1>4 DEF Retry
<1>7. ASSUME NEW n \in 1..m
      PROVE  LET j == Missing[n][2]
             IN  /\ again[n] = Job(FirstShown(j), j)
                 /\ j \in Found /\ FirstShown(j) \in Rules[j].at
  <2> DEFINE j == Missing[n][2]
  <2>1. Missing[n] \in Unexplained
    BY <1>4, <1>5
  <2>2. j \in Found /\ Missing[n][1] \in Selected \cap Rules[j].at
    BY <2>1 DEF Unexplained, Here
  <2>3. FirstShown(j) \in Selected \cap Rules[j].at
    BY <1>1, <2>2, MinIs DEF FirstShown
  <2>4. again[n] = Job(FirstShown(j), j)
    BY <1>4, <1>6 DEF Retry
  <2> QED BY <2>2, <2>3, <2>4
<1> HIDE DEF N, m, again
<1>8. ASSUME NEW n \in 1..m
      PROVE  /\ again[n] \in Work /\ again[n].about = Missing[n][2]
             /\ again[n].about \in Found \ {0} /\ again[n].chunk \in Rules[again[n].about].at
             /\ ~again[n].taken
  <2>1. PICK j \in Found : again[n] = Job(FirstShown(j), j) /\ FirstShown(j) \in Rules[j].at /\ j = Missing[n][2]
    BY <1>7
  <2>2. FirstShown(j) \in Nat /\ j \in Nat \ {0}
    BY <1>1, <2>1
  <2> QED BY <2>1, <2>2 DEF Job, Work, Replies
<1>9. again \in Seq(Work) /\ Len(again) = m
  <2>1. again = [n \in 1..m |-> again[n]]
    BY <1>4 DEF again, Retry, m
  <2> QED BY <1>5, <1>8, <2>1
<1>10. CASE m = N
  <2>1. \A p \in Unexplained : \E n \in DOMAIN again : again[n].about = p[2]
    BY <1>4, <1>6, <1>8, <1>10
  <2> QED BY <1>6, <1>8, <1>9, <2>1 DEF again
<1>11. CASE m = SECOND_PASS_MAX
  BY <1>6, <1>8, <1>9, <1>11 DEF again
<1> QED BY <1>5, <1>10, <1>11

LEMMA ReaskKeeps ==
    ASSUME IInv, Reask
    PROVE  IInv'
<1> DEFINE again == Retry(Missing)
<1>1. TypeOK /\ JobsOK /\ CoverOK /\ NotedOK /\ MissingOK /\ ProseFits
  BY DEF IInv
<1>2. UNCHANGED <<input, prose, notes>> /\ stage = "explain" /\ stage' = "reask" /\ Over
  BY DEF Reask
<1>3. /\ again \in Seq(Work)
      /\ \A n \in DOMAIN again :
            /\ again[n].about \in Found \ {0} /\ again[n].chunk \in Rules[again[n].about].at
            /\ ~again[n].taken
      /\ \/ Len(again) = SECOND_PASS_MAX
         \/ \A p \in Unexplained : \E n \in DOMAIN again : again[n].about = p[2]
  BY <1>1, RetryIs
<1>4. jobs' = jobs \o again
  BY DEF Reask
<1>5. /\ Rules' = Rules /\ Found' = Found /\ Selected' = Selected
      /\ \A c : Here(c)' = Here(c)
      /\ \A c, j : Siblings(c, j)' = Siblings(c, j)
      /\ \A t, j : Names(t, j)' <=> Names(t, j)
  BY <1>2, InputStays
<1> HIDE DEF again
<1> DEFINE old == Len(jobs)
           new == Len(again)
<1>6. /\ old \in Nat /\ new \in Nat /\ DOMAIN jobs = 1..old /\ DOMAIN again = 1..new
      /\ jobs' \in Seq(Work) /\ DOMAIN jobs' = 1..(old + new)
      /\ \A k \in 1..old : jobs'[k] = jobs[k]
      /\ \A k \in (old + 1)..(old + new) : jobs'[k] = again[k - old] /\ k - old \in 1..new
      /\ \A n \in 1..new : jobs'[old + n] = again[n] /\ old + n \in (old + 1)..(old + new)
  BY <1>1, <1>3, <1>4 DEF TypeOK
<1> HIDE DEF old, new
<1>7. \A k \in DOMAIN jobs' : k \in 1..old \/ k \in (old + 1)..(old + new)
  BY <1>6
<1>8. TypeOK'
  BY <1>1, <1>2, <1>5, <1>6 DEF TypeOK
<1>9. JobsOK'
  <2>1. \A k \in 1..old : jobs'[k].about = 0 /\ jobs'[k].taken
    BY <1>1, <1>2, <1>6 DEF JobsOK, Over
  <2>2. \A k \in (old + 1)..(old + new) :
            jobs'[k].about \in Found \ {0} /\ jobs'[k].chunk \in Rules[jobs'[k].about].at
    BY <1>3, <1>6
  <2> QED BY <1>2, <1>5, <1>7, <2>1, <2>2 DEF JobsOK
<1>10. CoverOK'
  <2> SUFFICES ASSUME NEW c \in Selected
               PROVE  \E k \in DOMAIN jobs' : jobs'[k].chunk = c /\ jobs'[k].about = 0
    BY <1>5 DEF CoverOK
  <2>1. PICK k \in 1..old : jobs[k].chunk = c /\ jobs[k].about = 0
    BY <1>1, <1>6 DEF CoverOK
  <2>2. jobs'[k] = jobs[k] /\ k \in DOMAIN jobs'
    BY <1>6
  <2> QED BY <2>1, <2>2
<1>11. NotedOK'
  <2>1. \A k \in (old + 1)..(old + new) : ~jobs'[k].taken
    BY <1>3, <1>6
  <2> QED BY <1>1, <1>2, <1>6, <1>7, <2>1 DEF NotedOK
<1>12. MissingOK'
  <2>1. CASE new = SECOND_PASS_MAX
    <3>1. Alone' = (old + 1)..(old + new)
      <4>1. \A k \in 1..old : jobs'[k].about = 0
        BY <1>1, <1>2, <1>6 DEF JobsOK
      <4>2. \A k \in (old + 1)..(old + new) : jobs'[k].about # 0 /\ k \in DOMAIN jobs'
        BY <1>3, <1>6
      <4> QED BY <1>7, <4>1, <4>2 DEF Alone
    <3>2. Cardinality((old + 1)..(old + new)) = new
      <4>1. old + 1 \in Int /\ old + new \in Int /\ (IF old + 1 > old + new THEN 0 ELSE (old + new) - (old + 1) + 1) = new
        BY <1>6
      <4> QED BY <4>1, FS_Interval
    <3> QED BY <2>1, <3>1, <3>2 DEF MissingOK
  <2>2. CASE \A p \in Unexplained : \E n \in DOMAIN again : again[n].about = p[2]
    <3>1. ASSUME NEW j \in Found, NEW c \in Rules[j].at \cap Selected, prose[j] = None
          PROVE  \E k \in DOMAIN jobs' : jobs'[k].about = j
      <4>1. <<c, j>> \in Unexplained
        BY <3>1 DEF Unexplained, Here
      <4>2. PICK n \in 1..new : again[n].about = j
        BY <1>6, <2>2, <4>1
      <4>3. jobs'[old + n] = again[n] /\ old + n \in DOMAIN jobs'
        BY <1>6
      <4> QED BY <4>2, <4>3
    <3> QED BY <1>2, <1>5, <3>1 DEF MissingOK
  <2> QED BY <1>3, <2>1, <2>2 DEF new
<1>13. ProseFits'
  BY <1>1, <1>2, <1>5 DEF ProseFits
<1> QED BY <1>8, <1>9, <1>10, <1>11, <1>12, <1>13 DEF IInv

LEMMA InitHolds ==
    ASSUME DriverInit
    PROVE  IInv
<1>1. input \in Inputs /\ stage = "explain" /\ jobs = ChunkJobs /\ prose = Silence /\ notes = {}
  BY DEF DriverInit
<1>2. /\ Chunks \subseteq Nat /\ Found \subseteq Nat \ {0} /\ IsFiniteSet(Found)
      /\ Selected \subseteq Chunks /\ IsFiniteSet(Selected)
  BY <1>1, InputIs
<1> DEFINE asks == Selected \X {0}
           N == Cardinality(asks)
<1>3. IsFiniteSet(asks)
  BY <1>2, FS_Singleton, FS_Product
<1>4. asks \in SUBSET (Nat \X Nat)
  <2>1. Selected \in SUBSET Nat /\ {0} \in SUBSET Nat
    BY <1>2
  <2> HIDE DEF asks
  <2>2. \A p \in Selected \X {0} : p \in Nat \X Nat
    BY <2>1
  <2> QED BY <2>2 DEF asks
<1> HIDE DEF asks
<1>5. /\ N \in Nat /\ DOMAIN InOrder(asks) = 1..N
      /\ \A n \in 1..N : InOrder(asks)[n] \in asks
      /\ \A p \in asks : \E n \in 1..N : InOrder(asks)[n] = p
  BY <1>3, <1>4, InOrderIs
<1>6. jobs = [n \in 1..N |-> Job(InOrder(asks)[n][1], 0)]
  BY <1>1, <1>5 DEF ChunkJobs, asks
<1> HIDE DEF N
<1>7. \A n \in 1..N : InOrder(asks)[n][1] \in Nat
  BY <1>2, <1>5 DEF asks
<1>8. \A n \in 1..N : Job(InOrder(asks)[n][1], 0) \in Work
  BY <1>7 DEF Job, Work, Replies
<1>9. TypeOK
  <2>1. jobs \in Seq(Work)
    BY <1>5, <1>6, <1>8
  <2> QED BY <1>1, <2>1 DEF TypeOK, Silence
<1>10. \A k \in DOMAIN jobs : jobs[k].about = 0 /\ ~jobs[k].taken
  BY <1>6 DEF Job
<1>11. CoverOK
  <2> SUFFICES ASSUME NEW c \in Selected
               PROVE  \E k \in DOMAIN jobs : jobs[k].chunk = c /\ jobs[k].about = 0
    BY DEF CoverOK
  <2>1. <<c, 0>> \in asks
    BY DEF asks
  <2>2. PICK n \in 1..N : InOrder(asks)[n] = <<c, 0>>
    BY <1>5, <2>1
  <2> QED BY <1>6, <2>2 DEF Job
<1> QED BY <1>1, <1>9, <1>10, <1>11 DEF IInv, JobsOK, NotedOK, MissingOK, ProseFits, Silence

-----------------------------------------------------------------------------
LEMMA NextKeeps ==
    ASSUME IInv, [DriverNext]_driverVars
    PROVE  IInv'
<1>1. CASE \E k \in DOMAIN jobs : Answer(k) \/ HandleReply(k) \/ HandleSingle(k)
  BY <1>1, AnswerStays, ReplyStays, SingleStays, StaysKeeps
<1>2. CASE \/ UNCHANGED driverVars \/ \E k \in DOMAIN jobs : HandleOdd(k)
           \/ Abort \/ StartCompare \/ WriteReport \/ \E c \in Chunks : RateAlone(c)
  BY <1>2, QuietStays, StaysKeeps
<1>3. CASE Reask
  BY <1>3, ReaskKeeps
<1> QED BY <1>1, <1>2, <1>3 DEF DriverNext, Take, MainStep

LEMMA InvHolds == DriverSpec => []IInv
<1>1. DriverInit => IInv
  BY InitHolds
<1>2. IInv /\ [DriverNext]_driverVars => IInv'
  BY NextKeeps
<1> QED BY <1>1, <1>2, PTL DEF DriverSpec

(* What a finding is explained with was written about a chunk the finding    *)
(* is in, not about another rule, and has the finding's own address or host  *)
(* for a word, or in a word that contains it, unless it was asked about that *)
(* finding alone where no other of its rule could be meant:                  *)
(* attach_explanations and explain_single.                                   *)
THEOREM ProseIsTheFindingsOwn == DriverSpec => []ProseIsOwn
<1>1. ASSUME NEW text, NEW j \in Found, Names(text, j)
      PROVE  Words(text, j) \/ \E word \in text.words :
                word # Rules[j].ident /\ <<Rules[j].ident, word>> \in Inside
  BY <1>1 DEF Names, Words, Within
<1>2. IInv => ProseIsOwn
  BY <1>1 DEF IInv, ProseFits, ProseIsOwn
<1> QED BY <1>2, InvHolds, PTL

(* A chunk the model gave no usable answer about is noted in the report,     *)
(* unless its worker raised; a finding of a chunk that was shown has prose,  *)
(* was asked about by itself or fell to the cap; and what is reported missed *)
(* was rated in every chunk.                                                 *)
THEOREM FailuresReachTheReport == DriverSpec => []FailuresAreReported
<1>1. ASSUME IInv
      PROVE  FailuresAreReported
  <2>1. TypeOK /\ JobsOK /\ CoverOK /\ NotedOK /\ MissingOK
    BY <1>1 DEF IInv
  <2>2. ASSUME stage \in {"compare", "final"}, NEW c \in Selected
        PROVE  c \in notes \/ \E k \in DOMAIN jobs :
                  jobs[k].chunk = c /\ jobs[k].about = 0 /\ jobs[k].reply \in {"good", "raises"}
    BY <2>1, <2>2 DEF CoverOK, JobsOK, NotedOK
  <2>3. ASSUME stage \in {"compare", "final"}, NEW j \in Found
        PROVE  \/ Rules[j].at \cap Selected = {} \/ prose[j] # None
               \/ \E k \in DOMAIN jobs : jobs[k].about = j
               \/ Cardinality({k \in DOMAIN jobs : jobs[k].about # 0}) = SECOND_PASS_MAX
    BY <2>1, <2>3 DEF MissingOK, Alone
  <2>4. ASSUME NEW j \in Found, Verdict(j) = "MISSED", NEW c \in Selected
        PROVE  alone[c].status \in Usable
    <3>1. CASE \E d \in Selected : j \in alone[d].hits
      <4>1. ~\A d \in Selected : j \notin alone[d].hits
        BY <3>1
      <4>2. Verdict(j) = "RATED"
        BY <3>1, <4>1 DEF Verdict
      <4> QED BY <2>4, <4>2
    <3>2. CASE \A d \in Selected : j \notin alone[d].hits
      <4>1. ~\E d \in Selected : j \in alone[d].hits
        BY <3>2
      <4>2. Verdict(j) = IF CoverageOk THEN "MISSED" ELSE "UNKNOWN"
        BY <3>2, <4>1 DEF Verdict
      <4>3. CoverageOk
        BY <2>4, <4>2
      <4> QED BY <4>3 DEF CoverageOk
    <3> QED BY <3>1, <3>2
  <2> QED BY <2>2, <2>3, <2>4 DEF FailuresAreReported
<1> QED BY <1>1, InvHolds, PTL

-----------------------------------------------------------------------------
(* Ingest. *)

(***************************************************************************)
(* A native loader has, of the lines before p, the ones of its kinds; it    *)
(* has met the ones that are not blank.  NRecords and NTotal are what it    *)
(* ends with, which the file alone decides.                                 *)
(***************************************************************************)
Rec(i) == [n |-> i, lines |-> {i}]

TableFormats == {"log360_csv", "auth_csv"}
MonthFormats == {"rfc3164", "log360_syslog"}

NativeKinds(f) ==
    CASE f \in {"canonical", "logcat", "rfc5424"} \cup Loghub -> {f}
      [] f = "iso8601_syslog" -> {"iso8601"}
      [] f = "jsonlog" -> {"event", "object"}
      [] f = "log360_syslog" -> {"envelope"}
      [] f = "rfc3164" -> {"syslog"}
      [] f = "log360_csv" -> {"row", "log360Header"}
      [] f = "auth_csv" -> {"row", "authHeader"}
      [] OTHER -> {}

Before(p) == {i \in DOMAIN Lines : i < p}

(* What a loader meets at line i, makes a record of, and the record.         *)
Meets(f, i) == IF f \in TableFormats THEN RowStarts(i) ELSE Lines[i] # "blank"
Uses(f, i) ==
    IF f \in TableFormats THEN RowStarts(i) /\ Row(i, NativeKinds(f)) # {}
    ELSE Lines[i] \in NativeKinds(f)
NativeRec(f, i) == [n |-> i, lines |-> IF f \in TableFormats THEN RowAt(i) ELSE {i}]

Use(f, p) == {i \in Before(p) : Uses(f, i)}
Met(f, p) == {i \in Before(p) : Meets(f, i)}

Counts(f) == f \notin {"rfc5424", "jsonlog"}

NativeAt(f, p) ==
    /\ records = {NativeRec(f, i) : i \in Use(f, p)}
    /\ total = Cardinality(Met(f, p))
    /\ Counts(f) => unparsed = Cardinality(Met(f, p) \ Use(f, p))

End == Len(Lines) + 1
NRecords == {NativeRec(SniffFormat, i) : i \in Use(SniffFormat, End)}
NTotal == Cardinality(Met(SniffFormat, End))
NRaises ==
    \/ SniffFormat = "rfc3164" /\ Has("foreign")
    \/ SniffFormat = "log360_syslog" /\ Has("foreignEnvelope")

KeptC == ~NRaises /\ Cardinality(NRecords) > 0 /\ 10 * Cardinality(NRecords) >= 6 * NTotal

-----------------------------------------------------------------------------
(* The universal parsers, the same way: the numbers Nums of the records one *)
(* ends with are the file's and not the loader's.                           *)
LineKinds(f) ==
    CASE f = "generic_text" -> Kinds \ {"blank"}
      [] f = "windows_cbs" -> {"cbs"}
      [] f = "jsonl" -> Json
      [] OTHER -> {}

LineFormats == {"generic_text", "windows_cbs", "jsonl"}
DocumentFormats == {"json", "xml", "html", "evtx"}

Text(f, p) == {i \in Before(p) : Lines[i] \in LineKinds(f)}
Rows(p) == {i \in Before(p) : RowStarts(i)}
Skipped(p) == {i \in Before(p) : Lines[i] = "blank" \/ InCell(i)}

ItemsOf(f) ==
    CASE f = "json" -> JsonItems [] f = "xml" -> XmlItems
      [] f = "html" -> HtmlItems [] f = "evtx" -> EvtxItems

ItemRecs(items) == {[n |-> i, lines |-> items[i]] : i \in DOMAIN items}

(* An event begins at a stamp or at the first line that is not blank, and is *)
(* one when it has a stamp, a code or a field.                               *)
Begins(i) ==
    /\ i \in NonBlank
    /\ Lines[i] = "stamp" \/ \A j \in NonBlank : i <= j

Says(i, p) ==
    \E j \in i..(p - 1) : Lines[j] \in {"stamp", "code", "field"} /\ \A k \in (i + 1)..j : ~Begins(k)

Events(p) == {i \in Before(p) : Begins(i) /\ Says(i, p)}

Nums(f) ==
    CASE f \in LineFormats -> Text(f, End)
      [] f = "csv" -> 2..(Cardinality(Rows(End)) + 1)
      [] f \in DocumentFormats -> DOMAIN ItemsOf(f)
      [] f = "windows_event_text" -> Events(End)
      [] OTHER -> {}

(* What a parser has after the lines before p.                               *)
TextAt(f, p) ==
    /\ records = {Rec(i) : i \in Text(f, p)}
    /\ Cardinality({i \in NonBlank : i < p} \ Text(f, p)) <= unparsed

CsvAt(p) ==
    /\ unparsed = 0
    /\ Parsed = Cardinality(Rows(p)) /\ Numbers(records) = 2..(Parsed + 1)
    /\ Lines[1] = "blank" \/ Rows(p) \subseteq Held
    /\ \A r \in records : r.lines = {} \/ \E i \in DOMAIN Lines :
            r.lines = RowAt(i) /\ r.n + Uncounted(i) = i

DocumentAt(f, p) ==
    IF p = 1 /\ Lines # <<>> THEN records = {} ELSE records = ItemRecs(ItemsOf(f))

(* parse_windows_text: the event it is in reaches from the line it began at  *)
(* to the last one read, and the events before it are records.               *)
CurrentAt(p) ==
    IF event.open
    THEN \E b \in Before(p) :
            /\ event = [lines |-> b..(p - 1), said |-> Says(b, p), open |-> TRUE]
            /\ Begins(b) /\ \A k \in (b + 1)..(p - 1) : ~Begins(k)
            /\ \A r \in records : \A i \in r.lines : i < b
            /\ ~event.said => records = {}
    ELSE event = NoEvent /\ (p <= Len(Lines) => \A i \in NonBlank : p <= i)

Lost(p) == {i \in NonBlank : i < p} \ (Held \cup event.lines)

WindowsAt(p) ==
    /\ CurrentAt(p)
    /\ Events(p) = Numbers(records) \cup (IF event.said THEN {FirstLine(event.lines)} ELSE {})
    /\ \A r \in records : /\ r.lines \subseteq Before(p)
                          /\ r.n \in r.lines /\ r.n = FirstLine(r.lines)
    /\ \A r, s \in records : r.n = s.n => r = s
    /\ \A i \in Lost(p), j \in Held \cup event.lines : i < j
    /\ total = p - 1
    /\ Route = "console" => \/ unparsed = 0 /\ (event.open \/ NonBlank = {} \/ p <= Len(Lines))
                            \/ /\ p > Len(Lines) /\ ~event.open
                               /\ unparsed = AtLeast(0, total - Cardinality(records))

UniversalAt(f, p) ==
    /\ unparsed \in Nat
    /\ f \in LineFormats => TextAt(f, p)
    /\ f = "csv" => CsvAt(p)
    /\ f \in DocumentFormats => DocumentAt(f, p)
    /\ IF f = "windows_event_text" THEN WindowsAt(p) ELSE event = NoEvent
    /\ f \notin LineFormats \cup DocumentFormats \cup {"csv", "windows_event_text"} =>
          records = {} /\ p = 1

-----------------------------------------------------------------------------
(* ConsoleNums is what the console shows of the file, whichever loader made  *)
(* the report; Made is what a report may be, of a file and a mode.           *)
Chosen == DetectInputFormat
Displayed == IF Raises(Chosen) THEN "generic_text" ELSE Chosen
ConsoleNums == IF KeptC THEN Numbers(NRecords) ELSE Nums(Displayed)
Fallen == Raises(Chosen) \/ Chosen = "generic_text" \/ Nums(Chosen) = {}

Made(rep) ==
    IF mode = "console" THEN Numbers(rep.records) = ConsoleNums
    ELSE \/ rep.records = {}
         \/ rep.format = SniffFormat /\ rep.records = NRecords /\ rep.total = NTotal /\ ~NRaises
         \/ NRecords = {} /\ ~Raises(Chosen) /\ Numbers(rep.records) = Nums(Chosen)
         \/ mode = "force" /\ rep.format = "generic_text" /\ NRecords = {} /\ Fallen
              /\ Numbers(rep.records) = Nums("generic_text")

(* Why it is past the native loader.                                         *)
NotKept ==
    /\ Route = "console" => ~KeptC
    /\ Route # "console" =>
          /\ NRecords = {} /\ ~NRaises
          /\ native.format = SniffFormat /\ native.records = {} /\ native.unparsed \in Nat
          /\ Counts(SniffFormat) =>
                native.unparsed = Cardinality(Met(SniffFormat, End) \ Use(SniffFormat, End))

IngestTypeOK ==
    /\ file \in Files /\ mode \in Modes /\ phase \in {"analysis", "display"}
    /\ pos \in Nat \ {0} /\ IsFiniteSet(records) /\ unparsed \in Nat

Reading ==
    /\ pc \in {"run", "sniff"} => records = {} /\ total = 0 /\ unparsed = 0 /\ event = NoEvent
    /\ pc = "native" => /\ fmt = SniffFormat /\ NativeAt(fmt, pos) /\ event = NoEvent
                        /\ fmt \in MonthFormats /\ pos > 1 => ~NRaises
    /\ pc = "route" => /\ fmt = SniffFormat /\ NativeAt(fmt, End) /\ event = NoEvent
                       /\ ~NRaises /\ native = Stats
    /\ pc \in {"detect", "universal"} => NotKept
    /\ pc = "detect" => event = NoEvent
    /\ pc = "universal" =>
          /\ UniversalAt(fmt, pos) /\ pos <= End /\ ~Raises(fmt)
          /\ Route = "console" => fmt = Displayed
          /\ Route # "console" => \/ fmt = Chosen /\ fmt # "generic_text"
                                  \/ Route = "force" /\ fmt = "generic_text" /\ Fallen
    /\ pc = "loaded" =>
          /\ event = NoEvent
          /\ phase = "display" => Numbers(records) = ConsoleNums
          /\ phase = "analysis" => Made(Stats)

Shown == phase = "display" => Made(report) /\ (pc # "shown" => report.records # {})

(* The inductive invariant.                                                 *)
IngestInv == IngestTypeOK /\ Reading /\ Shown /\ LossIsKnown /\ LinesAreTrue

-----------------------------------------------------------------------------
LEMMA FileIs ==
    ASSUME file \in Files
    PROVE  /\ Lines \in Seq(Kinds) /\ Len(Lines) \in Nat /\ DOMAIN Lines = 1..Len(Lines)
           /\ \A i \in DOMAIN Lines : Lines[i] \in Kinds
           /\ file.items \in Seq(DOMAIN Lines)
           /\ Lines = <<>> => file.body = "lines"
           /\ NonBlank \subseteq 1..Len(Lines) /\ IsFiniteSet(NonBlank)
           /\ \A p : IsFiniteSet(Before(p))
<1>1. /\ Lines \in Seq(Kinds) /\ file.items \in Seq(DOMAIN Lines)
      /\ Lines = <<>> => file.body = "lines"
  BY IngestAssumption DEF Lines
<1>2. /\ Len(Lines) \in Nat /\ DOMAIN Lines = 1..Len(Lines)
      /\ \A i \in DOMAIN Lines : Lines[i] \in Kinds
  BY <1>1
<1>3. IsFiniteSet(1..Len(Lines))
  BY <1>2, FS_Interval
<1>4. NonBlank \subseteq 1..Len(Lines) /\ \A p : Before(p) \subseteq 1..Len(Lines)
  BY <1>2 DEF NonBlank, Before
<1> QED BY <1>1, <1>2, <1>3, <1>4, FS_Subset

LEMMA FileStays ==
    ASSUME UNCHANGED file
    PROVE  /\ Lines' = Lines /\ NonBlank' = NonBlank /\ End' = End
           /\ \A i : (InCell(i)' <=> InCell(i)) /\ RowAt(i)' = RowAt(i) /\ Uncounted(i)' = Uncounted(i)
           /\ \A f, i : NativeRec(f, i)' = NativeRec(f, i)
           /\ \A p : Before(p)' = Before(p)
           /\ \A f, p : Use(f, p)' = Use(f, p) /\ Met(f, p)' = Met(f, p) /\ Text(f, p)' = Text(f, p)
           /\ \A p : Rows(p)' = Rows(p) /\ Events(p)' = Events(p)
           /\ \A i : Begins(i)' <=> Begins(i)
           /\ \A i, p : Says(i, p)' = Says(i, p)
           /\ \A f : ItemsOf(f)' = ItemsOf(f) /\ Nums(f)' = Nums(f) /\ (Raises(f)' <=> Raises(f))
           /\ SniffFormat' = SniffFormat /\ Chosen' = Chosen
           /\ NRecords' = NRecords /\ NTotal' = NTotal /\ (NRaises' <=> NRaises) /\ (KeptC' <=> KeptC)
           /\ Displayed' = Displayed /\ ConsoleNums' = ConsoleNums /\ (Fallen' <=> Fallen)
<1>1. Lines' = Lines
  BY DEF Lines
<1>2. NonBlank' = NonBlank /\ End' = End
  BY <1>1 DEF NonBlank, End
<1>3. \A p : Before(p)' = Before(p)
  BY <1>1 DEF Before
<1>4. \A f : NativeKinds(f)' = NativeKinds(f)
  BY <1>1 DEF NativeKinds
<1>4a. \A i : /\ InCell(i)' <=> InCell(i)
              /\ Ended(i)' <=> Ended(i)
  BY <1>1 DEF InCell, Ended
<1>4b. \A i : /\ RowAt(i)' = RowAt(i) /\ Uncounted(i)' = Uncounted(i)
              /\ RowStarts(i)' <=> RowStarts(i)
  BY <1>1, <1>4a DEF RowAt, Uncounted, RowStarts
<1>4c. \A i, kinds : Row(i, kinds)' = Row(i, kinds)
  BY <1>1, <1>4a, <1>4b DEF Row
<1>4d. \A f, i : /\ Meets(f, i)' <=> Meets(f, i)
                 /\ Uses(f, i)' <=> Uses(f, i)
                 /\ NativeRec(f, i)' = NativeRec(f, i)
  BY <1>1, <1>4, <1>4b, <1>4c DEF Meets, Uses, NativeRec
<1>5. \A f, p : Use(f, p)' = Use(f, p) /\ Met(f, p)' = Met(f, p) /\ Text(f, p)' = Text(f, p)
  BY <1>1, <1>3, <1>4d DEF Use, Met, Text
<1>6. \A i : Begins(i)' <=> Begins(i)
  BY <1>1, <1>2 DEF Begins
<1>7. \A i, p : Says(i, p)' = Says(i, p)
  BY <1>1, <1>6 DEF Says
<1>8. \A p : Rows(p)' = Rows(p) /\ Events(p)' = Events(p)
  BY <1>3, <1>6, <1>7, <1>4b DEF Rows, Events
<1>9. \A f : ItemsOf(f)' = ItemsOf(f)
  BY <1>2 DEF ItemsOf, JsonItems, XmlItems, HtmlItems, EvtxItems, Items
<1>10. \A f : Nums(f)' = Nums(f)
  BY <1>2, <1>5, <1>8, <1>9 DEF Nums
<1>11. \A k : First(k)' = First(k)
  BY <1>2 DEF First
<1>12. /\ \A k : Seen(k)' = Seen(k)
       /\ \A k, kinds : Among(k, kinds)' = Among(k, kinds)
       /\ Head1' = Head1
  <2>1. First(1)' = First(1)
    BY <1>11
  <2>2. (CHOOSE i \in First(1) : TRUE)' = CHOOSE i \in First(1) : TRUE
    BY <2>1, Zenon
  <2>3. Head1' = Head1
    <3> DEFINE h == CHOOSE i \in First(1) : TRUE
               Of(none, lines, i) == IF none = {} THEN "blank" ELSE lines[i]
    <3>1. Head1 = Of(NonBlank, Lines, h) /\ Head1' = Of(NonBlank', Lines', h')
      BY Zenon DEF Head1
    <3>2. h' = h
      BY <2>1, Zenon
    <3> HIDE DEF h, Of
    <3> QED BY <1>1, <1>2, <3>1, <3>2, Zenon
  <2>4. \A k, kinds : Among(k, kinds)' = Among(k, kinds)
    BY <1>1, <1>11 DEF Among
  <2> QED BY <1>11, <2>3, <2>4 DEF Seen
<1>13. WholeJson' = WholeJson
  BY <1>12 DEF WholeJson
<1>14. \A f : Raises(f)' <=> Raises(f)
  BY <1>13 DEF Raises
<1>15. SniffFormat' = SniffFormat
  <2>1. /\ SniffsLog360Syslog' = SniffsLog360Syslog
        /\ SniffsAuthCsv' = SniffsAuthCsv
        /\ SniffsLogcat' = SniffsLogcat
        /\ SniffsRfc5424' = SniffsRfc5424
        /\ SniffsIso8601' = SniffsIso8601
        /\ SniffsJsonlog' = SniffsJsonlog
    BY <1>12 DEF SniffsLog360Syslog, SniffsAuthCsv, SniffsLogcat, SniffsRfc5424, SniffsIso8601, SniffsJsonlog
  <2>2. LoghubBest' = LoghubBest
    <3> DEFINE Best(count, seen) ==
                 LET best == CHOOSE j \in DOMAIN LoghubOrder : \A k \in DOMAIN LoghubOrder :
                                 count[j] > count[k] \/ (count[j] = count[k] /\ j <= k)
                 IN  IF count[best] > 0 /\ count[best] >= AtLeast(1, (2 * seen) \div 3)
                     THEN LoghubOrder[best] ELSE Absent
               Count == [j \in DOMAIN LoghubOrder |-> Among(Probe, {LoghubOrder[j]})]
    <3>1. Count' = Count
      BY <1>12
    <3>2. LoghubBest = Best(Count, Seen(Probe)) /\ LoghubBest' = Best(Count', Seen(Probe)')
      BY Zenon DEF LoghubBest
    <3>3. Seen(Probe)' = Seen(Probe)
      BY <1>12
    <3> HIDE DEF Best, Count
    <3> QED BY <3>1, <3>2, <3>3, Zenon
  <2> QED BY <1>12, <2>1, <2>2, Zenon DEF SniffFormat
<1>16. Chosen' = Chosen
  <2>1. /\ LooksLikeWindowsExport' = LooksLikeWindowsExport
        /\ LooksLikeWindowsCbs' = LooksLikeWindowsCbs
        /\ LooksLikeLog4j' = LooksLikeLog4j
        /\ LooksLikeCsv' = LooksLikeCsv
    BY <1>12 DEF LooksLikeWindowsExport, LooksLikeWindowsCbs, LooksLikeLog4j, LooksLikeCsv
  <2> DEFINE Format(head, ext, body, win, cbs, log4j, whole, csv, n) ==
               LET curly == head \in {"event", "object"} \/ body = "json"
               IN  FirstOf(<< <<"evtx", ext = ".evtx">>,
                              <<"xml", head \in {"rfc5424", "tag"} \/ ext = ".xml">>,
                              <<"html", body = "html" \/ ext = ".html">>,
                              <<"jsonl", ext = ".jsonl">>,
                              <<"json", ext = ".json">>,
                              <<"csv", ext = ".csv">>,
                              <<"windows_event_text", win>>,
                              <<"windows_cbs", cbs>>,
                              <<"generic_text", log4j>>,
                              <<"json", curly /\ whole>>,
                              <<"jsonl", curly /\ head \in Json /\ n > 1>>,
                              <<"generic_text", ext # ".log">>,
                              <<"csv", csv>>,
                              <<"generic_text", TRUE>> >>)
  <2>2. /\ Chosen = Format(Head1, file.ext, file.body, LooksLikeWindowsExport, LooksLikeWindowsCbs,
                            LooksLikeLog4j, WholeJson, LooksLikeCsv, Len(Lines))
        /\ Chosen' = Format(Head1', file'.ext, file'.body, LooksLikeWindowsExport', LooksLikeWindowsCbs',
                             LooksLikeLog4j', WholeJson', LooksLikeCsv', Len(Lines'))
    BY Zenon DEF Chosen, DetectInputFormat
  <2>3. Head1' = Head1 /\ Lines' = Lines /\ WholeJson' = WholeJson /\ file' = file
    BY <1>1, <1>12, <1>13
  <2> HIDE DEF Format
  <2> QED BY <2>1, <2>2, <2>3, Zenon
<1>17. NRecords' = NRecords /\ NTotal' = NTotal /\ (NRaises' <=> NRaises)
  BY <1>1, <1>2, <1>5, <1>15, <1>4d DEF NRecords, NTotal, NRaises, Has
<1>18. KeptC' <=> KeptC
  BY <1>17 DEF KeptC
<1>19. Displayed' = Displayed
  BY <1>14, <1>16 DEF Displayed
<1>20. ConsoleNums' = ConsoleNums
  BY <1>10, <1>17, <1>18, <1>19 DEF ConsoleNums
<1>21. Fallen' <=> Fallen
  BY <1>10, <1>14, <1>16 DEF Fallen
<1> QED BY <1>1, <1>2, <1>3, <1>5, <1>6, <1>7, <1>8, <1>9, <1>10, <1>14, <1>15, <1>16, <1>17, <1>18, <1>19, <1>20,
           <1>21, <1>4a, <1>4b, <1>4d

LEMMA RecsFinite ==
    ASSUME NEW S, IsFiniteSet(S)
    PROVE  IsFiniteSet({Rec(i) : i \in S})
<1> DEFINE T == {Rec(i) : i \in S}
           f == [i \in S |-> Rec(i)]
<1>1. f \in Surjection(S, T)
  BY DEF Surjection
<1> QED BY <1>1, FS_Surjection

LEMMA NativeRecsFinite ==
    ASSUME NEW f, NEW S, IsFiniteSet(S)
    PROVE  IsFiniteSet({NativeRec(f, i) : i \in S})
<1> DEFINE T == {NativeRec(f, i) : i \in S}
           g == [i \in S |-> NativeRec(f, i)]
<1>1. g \in Surjection(S, T)
  BY DEF Surjection
<1> QED BY <1>1, FS_Surjection

LEMMA ItemRecsFinite ==
    ASSUME NEW items, IsFiniteSet(DOMAIN items)
    PROVE  IsFiniteSet(ItemRecs(items))
<1> DEFINE S == DOMAIN items
           T == {[n |-> i, lines |-> items[i]] : i \in S}
           g == [i \in S |-> [n |-> i, lines |-> items[i]]]
<1>1. g \in Surjection(S, T)
  BY DEF Surjection
<1> QED BY <1>1, FS_Surjection DEF ItemRecs

LEMMA ItemsFinite ==
    ASSUME file \in Files, NEW f \in DocumentFormats
    PROVE  IsFiniteSet(DOMAIN ItemsOf(f))
<1>1. IsFiniteSet(DOMAIN file.items)
  <2>1. Len(file.items) \in Nat /\ DOMAIN file.items = 1..Len(file.items)
    BY FileIs
  <2> QED BY <2>1, FS_Interval
<1>2. IsFiniteSet(DOMAIN Items) /\ IsFiniteSet(DOMAIN EvtxItems)
  BY <1>1 DEF Items, EvtxItems
<1>3. IsFiniteSet(DOMAIN <<>>) /\ IsFiniteSet(DOMAIN <<NonBlank>>)
  <2>1. DOMAIN <<>> = {} /\ DOMAIN <<NonBlank>> = {1}
    OBVIOUS
  <2>2. IsFiniteSet({}) /\ IsFiniteSet({1})
    BY FS_EmptySet, FS_Singleton
  <2> QED BY <2>1, <2>2, Zenon
<1> QED BY <1>2, <1>3 DEF ItemsOf, JsonItems, XmlItems, HtmlItems, DocumentFormats

LEMMA NumbersFinite ==
    ASSUME NEW S, IsFiniteSet(S)
    PROVE  IsFiniteSet(Numbers(S))
<1> DEFINE f == [r \in S |-> r.n]
<1>1. f \in Surjection(S, Numbers(S))
  BY DEF Surjection, Numbers
<1> QED BY <1>1, FS_Surjection

LEMMA NativeStays ==
    ASSUME NativeAt(fmt, pos), UNCHANGED <<file, fmt, pos, counts>>
    PROVE  NativeAt(fmt, pos)'
BY FileStays DEF NativeAt, counts, Counts

LEMMA ShownStays ==
    ASSUME Shown, pc # "shown", UNCHANGED <<file, mode, phase, report>>
    PROVE  Shown'
BY FileStays DEF Shown, Made

LEMMA NotKeptStays ==
    ASSUME NotKept, UNCHANGED <<file, mode, phase, native>>
    PROVE  NotKept'
BY FileStays DEF NotKept, Route, Counts

LEMMA NativeNext ==
    ASSUME UNCHANGED file,
           records' = {NativeRec(fmt', i) : i \in Use(fmt', pos')},
           total' = Cardinality(Met(fmt', pos')),
           Counts(fmt') => unparsed' = Cardinality(Met(fmt', pos') \ Use(fmt', pos'))
    PROVE  NativeAt(fmt, pos)'
<1>1. /\ \A f, i : NativeRec(f, i)' = NativeRec(f, i)
      /\ \A f, p : Use(f, p)' = Use(f, p)
      /\ \A f, p : Met(f, p)' = Met(f, p)
  BY FileStays
<1> QED BY <1>1 DEF NativeAt, Counts

(* A native loader at its next line: what it uses becomes a record, what it  *)
(* meets is counted, and said or not.                                        *)
NativeStep(f, said) ==
    /\ pc = "native" /\ fmt = f /\ pos <= Len(Lines) /\ pos' = pos + 1
    /\ records' = records \cup (IF Uses(f, pos) THEN {NativeRec(f, pos)} ELSE {})
    /\ total' = IF Meets(f, pos) THEN total + 1 ELSE total
    /\ unparsed' = IF said /\ Meets(f, pos) /\ ~Uses(f, pos) THEN unparsed + 1 ELSE unparsed
    /\ UNCHANGED <<file, mode, phase, pc, fmt, event, native, report>>

LEMMA NativeStepKeeps ==
    ASSUME IngestInv, NEW f, NEW said \in BOOLEAN, NativeStep(f, said),
           said <=> Counts(f), f \in MonthFormats => ~NRaises
    PROVE  IngestInv'
<1>1. /\ pc = "native" /\ fmt = f /\ pos <= Len(Lines) /\ pos' = pos + 1
      /\ UNCHANGED <<file, mode, phase, pc, fmt, event, native, report>>
  BY DEF NativeStep
<1>2. /\ IngestTypeOK /\ Reading /\ Shown /\ NativeAt(f, pos) /\ fmt = SniffFormat /\ event = NoEvent
  BY <1>1 DEF IngestInv, Reading
<1>3. /\ Len(Lines) \in Nat /\ DOMAIN Lines = 1..Len(Lines) /\ pos \in DOMAIN Lines
      /\ \A p : IsFiniteSet(Before(p))
  BY <1>1, <1>2, FileIs DEF IngestTypeOK
<1>4. Before(pos + 1) = Before(pos) \cup {pos} /\ pos \notin Before(pos)
  BY <1>3 DEF Before
<1> DEFINE used == Uses(f, pos)
           met == Meets(f, pos)
<1>5. /\ Use(f, pos + 1) = IF used THEN Use(f, pos) \cup {pos} ELSE Use(f, pos)
      /\ Met(f, pos + 1) = IF met THEN Met(f, pos) \cup {pos} ELSE Met(f, pos)
      /\ pos \notin Use(f, pos) /\ pos \notin Met(f, pos)
      /\ Use(f, pos) \subseteq Before(pos) /\ Met(f, pos) \subseteq Before(pos)
  BY <1>3, <1>4 DEF Use, Met
<1>6. IsFiniteSet(Use(f, pos)) /\ IsFiniteSet(Met(f, pos)) /\ IsFiniteSet(Met(f, pos) \ Use(f, pos))
  BY <1>3, <1>5, FS_Subset
<1>7. records' = {NativeRec(f, i) : i \in Use(f, pos + 1)}
  <2>1. records' = records \cup (IF used THEN {NativeRec(f, pos)} ELSE {})
    BY DEF NativeStep
  <2>2. records = {NativeRec(f, i) : i \in Use(f, pos)}
    BY <1>2 DEF NativeAt
  <2> QED BY <1>5, <2>1, <2>2
<1>8. total' = Cardinality(Met(f, pos + 1))
  <2>1. total' = IF met THEN total + 1 ELSE total
    BY DEF NativeStep
  <2>2. total = Cardinality(Met(f, pos))
    BY <1>2 DEF NativeAt
  <2> QED BY <1>5, <1>6, <2>1, <2>2, FS_AddElement
<1>9. unparsed' \in Nat /\ (Counts(f) => unparsed' = Cardinality(Met(f, pos + 1) \ Use(f, pos + 1)))
  <2>1. unparsed' = IF said /\ met /\ ~used THEN unparsed + 1 ELSE unparsed
    BY DEF NativeStep
  <2>2. unparsed \in Nat
    BY <1>2 DEF IngestTypeOK
  <2>3. Counts(f) => unparsed = Cardinality(Met(f, pos) \ Use(f, pos))
    BY <1>2 DEF NativeAt
  <2>4. Met(f, pos + 1) \ Use(f, pos + 1) =
            IF met /\ ~used THEN (Met(f, pos) \ Use(f, pos)) \cup {pos} ELSE Met(f, pos) \ Use(f, pos)
    BY <1>5
  <2>5. Cardinality((Met(f, pos) \ Use(f, pos)) \cup {pos}) = Cardinality(Met(f, pos) \ Use(f, pos)) + 1
    BY <1>5, <1>6, FS_AddElement
  <2> QED BY <2>1, <2>2, <2>3, <2>4, <2>5
<1>10. NativeAt(fmt, pos)'
  <2>1. UNCHANGED file /\ fmt' = f /\ pos' = pos + 1
    BY <1>1
  <2> QED BY <2>1, <1>7, <1>8, <1>9, NativeNext
<1>11. IngestTypeOK'
  <2>1. IsFiniteSet(Use(f, pos + 1))
    BY <1>5, <1>6, FS_AddElement
  <2>2. IsFiniteSet(records')
    BY <1>7, <2>1, NativeRecsFinite
  <2> QED BY <1>1, <1>2, <1>3, <1>9, <2>2, FileStays DEF IngestTypeOK
<1>12. Reading'
  BY <1>1, <1>2, <1>10, FileStays DEF Reading
<1> QED BY <1>1, <1>2, <1>11, <1>12, ShownStays DEF IngestInv, LossIsKnown, LinesAreTrue

LEMMA NativeLineKeeps ==
    ASSUME IngestInv, NEW f, NEW said \in BOOLEAN, NativeLine(f, NativeKinds(f), said),
           f \notin TableFormats, "blank" \notin NativeKinds(f),
           said <=> Counts(f), f \in MonthFormats => ~NRaises
    PROVE  IngestInv'
<1>1. Single(pos, NativeKinds(f)) = IF Uses(f, pos) THEN {NativeRec(f, pos)} ELSE {}
  BY DEF Single, Uses, NativeRec
<1>2. NativeStep(f, said)
  BY <1>1 DEF NativeLine, NativeStep, Meets, Uses
<1> QED BY <1>2, NativeStepKeeps

LEMMA TableLineKeeps ==
    ASSUME IngestInv, NEW f \in TableFormats, TableLine(f, NativeKinds(f))
    PROVE  IngestInv'
<1>1. RowStarts(pos) => Row(pos, NativeKinds(f)) = IF Uses(f, pos) THEN {NativeRec(f, pos)} ELSE {}
  BY DEF Row, Uses, NativeRec
<1>2. /\ Uses(f, pos) => Meets(f, pos)
      /\ Meets(f, pos) <=> RowStarts(pos)
      /\ RowStarts(pos) => (Uses(f, pos) <=> Row(pos, NativeKinds(f)) # {})
  BY DEF Uses, Meets
<1>3. NativeStep(f, TRUE)
  BY <1>1, <1>2 DEF TableLine, NativeStep, counts
<1>4. Counts(f) /\ f \notin MonthFormats
  BY DEF Counts, TableFormats, MonthFormats
<1> QED BY <1>3, <1>4, NativeStepKeeps

(* What makes the parts of the invariant hold when the step is not one that  *)
(* ends a load.                                                              *)
LEMMA ElsewhereHolds ==
    ASSUME Reading', IngestTypeOK', Shown, pc # "shown", pc' # "loaded",
           UNCHANGED <<file, mode, phase, report>>
    PROVE  IngestInv'
BY ShownStays DEF IngestInv, LossIsKnown, LinesAreTrue

LEMMA FilesAndPlaces ==
    ASSUME IngestInv
    PROVE  /\ IngestTypeOK /\ Reading /\ Shown
           /\ Len(Lines) \in Nat /\ DOMAIN Lines = 1..Len(Lines) /\ End = Len(Lines) + 1
           /\ pos \in Nat \ {0} /\ IsFiniteSet(records) /\ unparsed \in Nat
           /\ pc = "universal" => pos <= End
           /\ NonBlank \subseteq DOMAIN Lines /\ IsFiniteSet(NonBlank)
           /\ \A p : IsFiniteSet(Before(p))
           /\ \A p \in Nat : Len(Lines) < p => Before(p) = DOMAIN Lines
<1>1. IngestTypeOK /\ Reading /\ Shown
  BY DEF IngestInv
<1>2. /\ Len(Lines) \in Nat /\ DOMAIN Lines = 1..Len(Lines) /\ End = Len(Lines) + 1
      /\ NonBlank \subseteq DOMAIN Lines /\ IsFiniteSet(NonBlank)
      /\ \A p : IsFiniteSet(Before(p))
  BY <1>1, FileIs DEF IngestTypeOK, End
<1>3. \A p \in Nat : Len(Lines) < p => Before(p) = DOMAIN Lines
  BY <1>2 DEF Before
<1> QED BY <1>1, <1>2, <1>3 DEF IngestTypeOK, Reading

LEMMA NativeReads ==
    ASSUME IngestInv, pc = "native"
    PROVE  /\ fmt = SniffFormat /\ NativeAt(fmt, pos) /\ event = NoEvent
           /\ fmt \in MonthFormats /\ pos > 1 => ~NRaises
BY DEF IngestInv, Reading

LEMMA LoadNothingKeeps ==
    ASSUME IngestInv, LoadNothing
    PROVE  IngestInv'
<1>1. /\ pc = "native" /\ fmt \in {"empty", "unknown"} /\ pos = 1 /\ pos' = End
      /\ total' = Cardinality(NonBlank) /\ unparsed' = Cardinality(NonBlank)
      /\ UNCHANGED <<file, mode, phase, pc, fmt, records, event, native, report>>
  BY DEF LoadNothing, End
<1>2. Use(fmt, 1) = {} /\ Use(fmt, End) = {} /\ Met(fmt, End) = NonBlank
  BY <1>1, FilesAndPlaces DEF Use, Met, Uses, Meets, NativeKinds, TableFormats, Loghub, LoghubOrder, NonBlank
<1>3. /\ fmt = SniffFormat /\ NativeAt(fmt, 1) /\ event = NoEvent
  BY <1>1, NativeReads
<1>4. NativeAt(fmt, pos)'
  <2>1. Met(fmt, End) \ Use(fmt, End) = NonBlank /\ records = {}
    BY <1>2, <1>3 DEF NativeAt
  <2>2. /\ records' = {NativeRec(fmt, i) : i \in Use(fmt, End)} /\ total' = Cardinality(Met(fmt, End))
        /\ unparsed' = Cardinality(Met(fmt, End) \ Use(fmt, End))
    BY <1>1, <1>2, <2>1
  <2>3. UNCHANGED file /\ fmt' = fmt /\ pos' = End
    BY <1>1
  <2> QED BY <2>2, <2>3, NativeNext
<1>5. Reading'
  <2>1. /\ fmt' = fmt /\ pc' = "native" /\ event' = NoEvent /\ fmt \notin MonthFormats
        /\ SniffFormat' = SniffFormat
    BY <1>1, <1>3, FileStays DEF MonthFormats
  <2> QED BY <1>3, <1>4, <2>1 DEF Reading
<1>6. IngestTypeOK'
  BY <1>1, FilesAndPlaces, FileStays, FS_CardinalityType DEF IngestTypeOK
<1> QED BY <1>1, <1>5, <1>6, FilesAndPlaces, ElsewhereHolds

LEMMA NothingAtFirst ==
    ASSUME IngestInv
    PROVE  /\ Before(1) = {} /\ Rows(1) = {} /\ Events(1) = {}
           /\ \A f : Use(f, 1) = {} /\ Met(f, 1) = {} /\ Text(f, 1) = {}
<1>1. Before(1) = {}
  BY FilesAndPlaces DEF Before
<1> QED BY <1>1 DEF Use, Met, Text, Rows, Events

LEMMA RunKeeps ==
    ASSUME IngestInv, Run
    PROVE  IngestInv'
<1>1. Reading'
  BY DEF Run, IngestInv, Reading, counts
<1>2. IngestTypeOK'
  BY DEF Run, IngestInv, IngestTypeOK, counts
<1> QED BY <1>1, <1>2, FilesAndPlaces, ElsewhereHolds DEF Run

LEMMA SniffKeeps ==
    ASSUME IngestInv, Sniff
    PROVE  IngestInv'
<1>1. /\ pc = "sniff" /\ fmt' = SniffFormat /\ pc' = "native" /\ pos' = 1
      /\ UNCHANGED <<file, mode, phase, records, total, unparsed, event, native, report>>
  BY DEF Sniff, counts
<1>2. records = {} /\ total = 0 /\ unparsed = 0 /\ event = NoEvent
  BY <1>1, FilesAndPlaces DEF Reading
<1>3. Met(fmt', 1) \ Use(fmt', 1) = {} /\ Cardinality({}) = 0
  BY NothingAtFirst, FS_EmptySet
<1>4. NativeAt(fmt, pos)'
  BY <1>1, <1>2, <1>3, NothingAtFirst, FileStays DEF NativeAt, Counts
<1>5. Reading'
  BY <1>1, <1>2, <1>4, FileStays DEF Reading
<1>6. IngestTypeOK'
  BY <1>1, FilesAndPlaces DEF IngestTypeOK
<1> QED BY <1>1, <1>5, <1>6, FilesAndPlaces, ElsewhereHolds

LEMMA MonthRaisesKeeps ==
    ASSUME IngestInv, MonthRaises
    PROVE  IngestInv'
<1>1. /\ pc = "native"
      /\ \/ fmt = "rfc3164" /\ Has("foreign")
         \/ fmt = "log360_syslog" /\ Has("foreignEnvelope")
      /\ pc' = IF Route = "console" THEN "detect" ELSE "raised"
      /\ records' = {} /\ unparsed' = 0
      /\ UNCHANGED <<file, mode, phase, fmt, pos, event, native, report>>
  BY DEF MonthRaises
<1>2. event = NoEvent /\ NRaises
  BY <1>1, NativeReads DEF NRaises
<1>3. Route = "console" => NotKept'
  BY <1>1, <1>2, FileStays DEF NotKept, KeptC, Route
<1>4. Reading'
  BY <1>1, <1>2, <1>3 DEF Reading
<1>5. IngestTypeOK'
  BY <1>1, FilesAndPlaces, FS_EmptySet DEF IngestTypeOK
<1> QED BY <1>1, <1>4, <1>5, FilesAndPlaces, ElsewhereHolds

LEMMA NativeDoneKeeps ==
    ASSUME IngestInv, NativeDone
    PROVE  IngestInv'
<1>1. /\ pc = "native" /\ pos > Len(Lines) /\ native' = Stats /\ pc' = "route"
      /\ UNCHANGED <<file, mode, phase, fmt, pos, records, total, unparsed, event, report>>
  BY DEF NativeDone, counts
<1>2. /\ fmt = SniffFormat /\ NativeAt(fmt, pos) /\ event = NoEvent
      /\ fmt \in MonthFormats /\ pos > 1 => ~NRaises
  BY <1>1, NativeReads
<1>3. NativeAt(fmt, End)
  <2>1. Before(pos) = Before(End)
    BY <1>1, FilesAndPlaces
  <2>2. Use(fmt, pos) = Use(fmt, End) /\ Met(fmt, pos) = Met(fmt, End)
    BY <2>1 DEF Use, Met
  <2> QED BY <1>2, <2>2 DEF NativeAt
<1>4. ~NRaises
  BY <1>1, <1>2, FilesAndPlaces DEF NRaises, Has, MonthFormats
<1>5. NativeAt(fmt, End)'
  <2>1. /\ \A f, i : NativeRec(f, i)' = NativeRec(f, i)
        /\ \A f, p : Use(f, p)' = Use(f, p)
        /\ \A f, p : Met(f, p)' = Met(f, p)
        /\ End' = End
    BY <1>1, FileStays
  <2> QED BY <1>1, <1>3, <2>1 DEF NativeAt, Counts
<1>6. Reading'
  BY <1>1, <1>2, <1>4, <1>5, FileStays DEF Reading, Stats
<1>7. IngestTypeOK'
  BY <1>1, FilesAndPlaces DEF IngestTypeOK
<1> QED BY <1>1, <1>6, <1>7, FilesAndPlaces, ElsewhereHolds

LEMMA LineOfRecs ==
    ASSUME NEW S, records = {Rec(i) : i \in S}
    PROVE  Held = S /\ Numbers(records) = S
<1>1. \A i \in S : Rec(i) \in records /\ Rec(i).n = i /\ Rec(i).lines = {i}
  BY DEF Rec
<1>2. \A r \in records : \E i \in S : r.n = i /\ r.lines = {i}
  BY DEF Rec
<1>3. Numbers(records) = S
  BY <1>1, <1>2 DEF Numbers
<1>4. Held = S
  BY <1>1, <1>2 DEF Held
<1> QED BY <1>3, <1>4

LEMMA FirstOfOne ==
    ASSUME NEW i \in Int
    PROVE  FirstLine({i}) = i
BY DEF FirstLine

LEMMA RowBegins ==
    ASSUME IngestInv, NEW i \in DOMAIN Lines
    PROVE  i \in RowAt(i) /\ FirstLine(RowAt(i)) = i
<1>1. i \in Nat /\ (i + 1)..i = {}
  BY FilesAndPlaces
<1>2. i \in RowAt(i)
  BY <1>1 DEF RowAt
<1>3. \A j \in RowAt(i) : j \in Nat /\ i <= j
  BY FilesAndPlaces DEF RowAt
<1> QED BY <1>1, <1>2, <1>3 DEF FirstLine

(* What a native loader has when it is through.                              *)
LEMMA NativeHas ==
    ASSUME IngestInv, pc = "route"
    PROVE  /\ fmt = SniffFormat /\ event = NoEvent /\ ~NRaises /\ native = Stats
           /\ records = NRecords /\ total = NTotal
           /\ Use(fmt, End) \subseteq Held
           /\ Counts(fmt) => unparsed = Cardinality(Met(fmt, End) \ Use(fmt, End))
<1>1. /\ fmt = SniffFormat /\ event = NoEvent /\ ~NRaises /\ native = Stats /\ NativeAt(fmt, End)
  BY FilesAndPlaces DEF Reading
<1>2. \A i \in Use(fmt, End) : i \in NativeRec(fmt, i).lines /\ NativeRec(fmt, i) \in records
  <2>1. Use(fmt, End) \subseteq DOMAIN Lines
    BY DEF Use, Before
  <2> QED BY <1>1, <2>1, RowBegins DEF NativeRec, NativeAt
<1>3. Use(fmt, End) \subseteq Held
  BY <1>2 DEF Held
<1> QED BY <1>1, <1>3 DEF NativeAt, NRecords, NTotal

LEMMA NativeLossIsKnown ==
    ASSUME IngestInv, NEW f, NEW n \in Nat, NEW held, Use(f, End) \subseteq held,
           Counts(f) => n = Cardinality(Met(f, End) \ Use(f, End))
    PROVE  LET lost == NonBlank \ held IN
           \/ Cardinality(lost) <= n
           \/ f \in {"rfc5424", "jsonlog"}
           \/ f \in {"log360_csv", "auth_csv"} /\ Cardinality({i \in lost : ~InCell(i)}) <= n + 1
<1> DEFINE lost == NonBlank \ held
           missed == Met(f, End) \ Use(f, End)
           rows == {i \in lost : ~InCell(i)}
<1>1. IsFiniteSet(NonBlank) /\ NonBlank \subseteq DOMAIN Lines /\ Before(End) = DOMAIN Lines
  BY FilesAndPlaces
<1>2. IsFiniteSet(lost) /\ IsFiniteSet(missed) /\ IsFiniteSet(rows)
  <2>1. missed \subseteq Before(End) /\ lost \subseteq NonBlank /\ rows \subseteq NonBlank
    BY DEF Met
  <2> QED BY <1>1, <2>1, FilesAndPlaces, FS_Subset
<1>3. CASE f \in TableFormats
  <2>1. rows \subseteq missed \cup {1}
    BY <1>1, <1>3, FilesAndPlaces DEF Met, Meets, NonBlank, RowStarts
  <2>2. /\ IsFiniteSet(missed \cup {1}) /\ Cardinality(missed) \in Nat
        /\ Cardinality(missed \cup {1}) <= Cardinality(missed) + 1
    <3> HIDE DEF missed
    <3>1. Cardinality(missed) \in Nat
      BY <1>2, FS_CardinalityType
    <3>2. /\ IsFiniteSet(missed \cup {1})
          /\ Cardinality(missed \cup {1}) = IF 1 \in missed THEN Cardinality(missed) ELSE Cardinality(missed) + 1
      BY <1>2, FS_AddElement
    <3> QED BY <3>1, <3>2
  <2>3. Cardinality(rows) <= Cardinality(missed \cup {1}) /\ Cardinality(rows) \in Nat
    BY <2>1, <2>2, <1>2, FS_Subset, FS_CardinalityType
  <2>4. n = Cardinality(missed)
    BY <1>3 DEF TableFormats, Counts
  <2> HIDE DEF rows, missed
  <2>5. Cardinality(missed \cup {1}) \in Nat
    BY <2>2, FS_CardinalityType
  <2>6. Cardinality(rows) <= n + 1
    BY <2>2, <2>3, <2>4, <2>5
  <2> QED BY <1>3, <2>6 DEF rows, TableFormats
<1>4. CASE f \notin TableFormats
  <2>1. lost \subseteq missed
    BY <1>1, <1>4 DEF Met, Meets, NonBlank
  <2>2. Cardinality(lost) <= Cardinality(missed)
    BY <1>2, <2>1, FS_Subset
  <2> QED BY <2>2 DEF Counts
<1> QED BY <1>3, <1>4

LEMMA KeepNativeKeeps ==
    ASSUME IngestInv, KeepNative
    PROVE  IngestInv'
<1>1. /\ pc = "route" /\ Kept /\ pc' = "loaded"
      /\ UNCHANGED <<file, mode, phase, fmt, pos, records, total, unparsed, event, native, report>>
  BY DEF KeepNative, counts
<1>2. /\ fmt = SniffFormat /\ event = NoEvent /\ ~NRaises
      /\ records = NRecords /\ total = NTotal
      /\ Use(fmt, End) \subseteq Held
      /\ Counts(fmt) => unparsed = Cardinality(Met(fmt, End) \ Use(fmt, End))
  BY <1>1, NativeHas
<1>3. Route = "console" => Numbers(records) = ConsoleNums
  BY <1>1, <1>2 DEF Kept, Covers, Parsed, KeptC, ConsoleNums
<1>4. phase = "analysis" => Made(Stats)
  BY <1>1, <1>2, <1>3 DEF Made, Stats, Route
<1>5. Made(Stats) => Made(Stats)'
  BY <1>1, FileStays DEF Made, Stats
<1>6. Numbers(records)' = Numbers(records) /\ Held' = Held
  BY <1>1 DEF Numbers, Held
<1>7. Reading'
  BY <1>1, <1>2, <1>3, <1>4, <1>5, <1>6, FileStays DEF Reading, Route
<1>8. IngestTypeOK'
  BY <1>1, FilesAndPlaces DEF IngestTypeOK
<1>9. LossIsKnown'
  <2>1. LET lost == NonBlank \ Held IN
        \/ Cardinality(lost) <= unparsed
        \/ fmt \in {"rfc5424", "jsonlog"}
        \/ fmt \in {"log360_csv", "auth_csv"} /\ Cardinality({i \in lost : ~InCell(i)}) <= unparsed + 1
    BY <1>2, FilesAndPlaces, NativeLossIsKnown
  <2> QED BY <1>1, <1>6, <2>1, FileStays DEF LossIsKnown
<1>10. LinesAreTrue'
  <2>1. \A i \in DOMAIN Lines : FirstLine({i}) = i /\ FirstLine(RowAt(i)) = i
    BY FilesAndPlaces, FirstOfOne, RowBegins
  <2>2. \A r \in records : \E i \in DOMAIN Lines : r = NativeRec(fmt, i)
    BY <1>2 DEF NRecords, Use, Before
  <2>3. \A i \in DOMAIN Lines : NativeRec(fmt, i).n = FirstLine(NativeRec(fmt, i).lines)
    <3> SUFFICES ASSUME NEW i \in DOMAIN Lines
                 PROVE  NativeRec(fmt, i).n = FirstLine(NativeRec(fmt, i).lines)
      OBVIOUS
    <3>1. NativeRec(fmt, i).n = i /\ NativeRec(fmt, i).lines \in {{i}, RowAt(i)}
      BY DEF NativeRec
    <3> QED BY <2>1, <3>1
  <2>4. \A r \in records : r.n = FirstLine(r.lines)
    BY <2>2, <2>3
  <2> QED BY <1>1, <2>4 DEF LinesAreTrue
<1> QED BY <1>1, <1>7, <1>8, <1>9, <1>10, FilesAndPlaces, ShownStays DEF IngestInv

LEMMA GoUniversalKeeps ==
    ASSUME IngestInv, GoUniversal
    PROVE  IngestInv'
<1>1. /\ pc = "route" /\ ~Kept /\ pc' = "detect"
      /\ UNCHANGED <<file, mode, phase, fmt, pos, records, total, unparsed, event, native, report>>
  BY DEF GoUniversal, counts
<1>2. /\ fmt = SniffFormat /\ event = NoEvent /\ ~NRaises /\ native = Stats
      /\ records = NRecords /\ total = NTotal
      /\ Counts(fmt) => unparsed = Cardinality(Met(fmt, End) \ Use(fmt, End))
  BY <1>1, NativeHas
<1>3. NotKept
  <2>1. Route = "console" => ~KeptC
    BY <1>1, <1>2 DEF Kept, Covers, Parsed, KeptC
  <2>2. Route # "console" => records = {}
    BY <1>1, FilesAndPlaces, FS_EmptySet, FS_CardinalityType DEF Kept, Parsed
  <2> QED BY <1>2, <2>1, <2>2, FilesAndPlaces DEF NotKept, Stats
<1>4. NotKept'
  BY <1>1, <1>3, NotKeptStays
<1>5. Reading'
  BY <1>1, <1>2, <1>4, FileStays DEF Reading
<1>6. IngestTypeOK'
  BY <1>1, FilesAndPlaces DEF IngestTypeOK
<1> QED BY <1>1, <1>5, <1>6, FilesAndPlaces, ElsewhereHolds

(* A document read out of an empty file has no items: what would give one    *)
(* has raised.                                                               *)
LEMMA EmptyHasNoItems ==
    ASSUME IngestInv, Lines = <<>>, NEW f \in DocumentFormats, ~Raises(f)
    PROVE  ItemsOf(f) = <<>>
<1>1. file.body = "lines"
  BY FileIs, FilesAndPlaces DEF IngestTypeOK
<1>2. Seen(2) # 1
  <2>1. First(2) = {}
    BY FilesAndPlaces DEF First
  <2> QED BY <2>1, FS_EmptySet DEF Seen
<1>3. f = "html"
  BY <1>1, <1>2 DEF Raises, WholeJson, DocumentFormats
<1> QED BY <1>1, <1>3 DEF ItemsOf, HtmlItems

LEMMA RestartKeeps ==
    ASSUME IngestInv, pc \in {"detect", "universal"}, NEW f, Restart(f), ~Raises(f),
           Route = "console" => f = Displayed,
           Route # "console" => \/ f = Chosen /\ f # "generic_text"
                                \/ Route = "force" /\ f = "generic_text" /\ Fallen
    PROVE  IngestInv'
<1>1. /\ fmt' = f /\ pc' = "universal" /\ pos' = 1
      /\ records' = {} /\ total' = 0 /\ unparsed' = 0 /\ event' = NoEvent
      /\ UNCHANGED <<file, mode, phase, native, report>>
  BY DEF Restart
<1>2. NotKept'
  BY <1>1, FilesAndPlaces, NotKeptStays DEF Reading
<1>3. Cardinality({}) = 0 /\ IsFiniteSet({})
  BY FS_EmptySet
<1>4. Numbers(records)' = {} /\ Held' = {}
  BY <1>1 DEF Numbers, Held
<1>5. TextAt(f, 1)'
  <2>1. {i \in NonBlank : i < 1} \ Text(f, 1) = {}
    BY FilesAndPlaces
  <2> QED BY <1>1, <1>3, <2>1, NothingAtFirst, FileStays DEF TextAt
<1>6. CsvAt(1)'
  <2>1. Rows(1)' = {} /\ 2..(0 + 1) = {}
    BY <1>1, NothingAtFirst, FileStays
  <2> QED BY <1>1, <1>3, <1>4, <2>1 DEF CsvAt, Parsed
<1>7. f \in DocumentFormats => DocumentAt(f, 1)'
  <2>1. Lines = <<>> /\ f \in DocumentFormats => ItemRecs(ItemsOf(f)) = {}
    BY EmptyHasNoItems DEF ItemRecs
  <2>2. ItemRecs(ItemsOf(f))' = ItemRecs(ItemsOf(f))
    BY <1>1, FileStays DEF ItemRecs
  <2> QED BY <1>1, <2>1, <2>2, FileStays DEF DocumentAt
<1>8. WindowsAt(1)'
  <2>1. CurrentAt(1)'
    BY <1>1, FilesAndPlaces, FileStays DEF CurrentAt, NoEvent
  <2>2. (Events(1) = {})'
    BY <1>1, NothingAtFirst, FileStays
  <2>3. Lost(1)' = {}
    BY <1>1, FilesAndPlaces, FileStays DEF Lost
  <2>4. (unparsed = 0 /\ (NonBlank = {} \/ 1 <= Len(Lines)))'
    BY <1>1, FilesAndPlaces, FileStays
  <2> QED BY <1>1, <1>4, <2>1, <2>2, <2>3, <2>4 DEF WindowsAt, NoEvent
<1>9. UniversalAt(fmt, pos)'
  BY <1>1, <1>5, <1>6, <1>7, <1>8 DEF UniversalAt
<1>10. pos' <= End'
  BY <1>1, FilesAndPlaces, FileStays
<1>11. Reading'
  BY <1>1, <1>2, <1>9, <1>10, FileStays DEF Reading, Route
<1>12. IngestTypeOK'
  BY <1>1, <1>3, FilesAndPlaces DEF IngestTypeOK
<1> QED BY <1>1, <1>11, <1>12, FilesAndPlaces, ElsewhereHolds

(* Where no parser has a record, the file is the one nobody recognized.      *)
LEMMA UnrecognizedKeeps ==
    ASSUME IngestInv, pc \in {"detect", "universal"}, event = NoEvent,
           Route # "console", Fallen, Unrecognized
    PROVE  IngestInv'
<1>1. NotKept
  BY FilesAndPlaces DEF Reading
<1>2. CASE Route = "force" /\ Restart("generic_text")
  <2>1. ~Raises("generic_text")
    BY DEF Raises
  <2> QED BY <1>2, <2>1, RestartKeeps
<1>3. CASE /\ fmt' = native.format /\ unparsed' = native.unparsed
           /\ records' = native.records /\ pc' = "loaded"
           /\ UNCHANGED <<file, mode, phase, pos, event, native, report>>
  <2>1. /\ NRecords = {} /\ fmt' = SniffFormat /\ records' = {} /\ unparsed' \in Nat
        /\ Counts(SniffFormat) => unparsed' = Cardinality(Met(SniffFormat, End) \ Use(SniffFormat, End))
    BY <1>1, <1>3 DEF NotKept
  <2>2. Use(SniffFormat, End) = {}
    BY <2>1 DEF NRecords
  <2>3. phase = "analysis" /\ mode # "console"
    BY FilesAndPlaces DEF Route, IngestTypeOK
  <2>4. Made(Stats)'
    BY <1>3, <2>1, <2>3 DEF Made, Stats
  <2>5. Reading'
    BY <1>3, <2>3, <2>4 DEF Reading
  <2>6. IngestTypeOK'
    BY <1>3, <2>1, FilesAndPlaces, FS_EmptySet DEF IngestTypeOK
  <2>7. LossIsKnown'
    <3>1. Held' = {}
      BY <2>1 DEF Held
    <3>2. LET lost == NonBlank \ {} IN
          \/ Cardinality(lost) <= unparsed'
          \/ SniffFormat \in {"rfc5424", "jsonlog"}
          \/ SniffFormat \in {"log360_csv", "auth_csv"}
                /\ Cardinality({i \in lost : ~InCell(i)}) <= unparsed' + 1
      BY <2>1, <2>2, NativeLossIsKnown
    <3> QED BY <1>3, <2>1, <3>1, <3>2, FileStays DEF LossIsKnown
  <2>8. LinesAreTrue'
    BY <2>1 DEF LinesAreTrue
  <2> QED BY <1>3, <2>5, <2>6, <2>7, <2>8, FilesAndPlaces, ShownStays DEF IngestInv
<1> QED BY <1>2, <1>3 DEF Unrecognized

LEMMA DetectKeeps ==
    ASSUME IngestInv, Detect
    PROVE  IngestInv'
<1>1. pc = "detect" /\ event = NoEvent
  BY FilesAndPlaces DEF Detect, Reading
<1>2. ~Raises("generic_text")
  BY DEF Raises
<1>3. CASE ~Raises(Chosen) /\ (Chosen # "generic_text" \/ Route = "console") /\ Restart(Chosen)
  BY <1>1, <1>3, RestartKeeps DEF Displayed
<1>4. CASE Raises(Chosen) /\ Route = "console" /\ Restart("generic_text")
  BY <1>1, <1>2, <1>4, RestartKeeps DEF Displayed
<1>5. CASE Route # "console" /\ (Raises(Chosen) \/ Chosen = "generic_text") /\ Unrecognized
  BY <1>1, <1>5, UnrecognizedKeeps DEF Fallen
<1> QED BY <1>3, <1>4, <1>5 DEF Detect, Chosen

(* A step of a parser that is not through keeps the invariant when it keeps  *)
(* what the invariant says of the parser.                                    *)
LEMMA ParserKeeps ==
    ASSUME IngestInv, pc = "universal", UniversalAt(fmt, pos)',
           pos' \in Nat \ {0}, pos' <= End, IsFiniteSet(records'),
           UNCHANGED <<file, mode, phase, pc, fmt, native, report>>
    PROVE  IngestInv'
<1>1. NotKept'
  BY FilesAndPlaces, NotKeptStays DEF Reading
<1>2. Reading'
  BY <1>1, FilesAndPlaces, FileStays DEF Reading, Route
<1>3. IngestTypeOK'
  BY FilesAndPlaces DEF IngestTypeOK, UniversalAt
<1> QED BY <1>2, <1>3, FilesAndPlaces, ElsewhereHolds

LEMMA Universally ==
    ASSUME IngestInv, pc = "universal"
    PROVE  UniversalAt(fmt, pos) /\ ~Raises(fmt)
BY FilesAndPlaces DEF Reading

LEMMA OneMore ==
    ASSUME IngestInv, pos <= Len(Lines)
    PROVE  /\ pos \in DOMAIN Lines /\ pos + 1 \in Nat \ {0} /\ pos + 1 <= End
           /\ Before(pos + 1) = Before(pos) \cup {pos} /\ pos \notin Before(pos)
<1>1. pos \in DOMAIN Lines /\ pos + 1 \in Nat \ {0} /\ pos + 1 <= End
  BY FilesAndPlaces
<1> QED BY <1>1, FilesAndPlaces DEF Before

LEMMA LineOfKeeps ==
    ASSUME IngestInv, NEW f \in LineFormats, NEW kinds, NEW missed, LineOf(f, kinds, missed),
           LineKinds(f) = kinds \ {"blank"}, \A kind \in Kinds : kind \in LineKinds(f) \cup missed \cup {"blank"}
    PROVE  IngestInv'
<1>1. /\ pc = "universal" /\ fmt = f /\ pos <= Len(Lines) /\ pos' = pos + 1
      /\ records' = records \cup Single(pos, LineKinds(f))
      /\ unparsed' = IF Lines[pos] \in missed THEN unparsed + 1 ELSE unparsed
      /\ UNCHANGED <<file, mode, phase, pc, fmt, event, native, report>>
  BY DEF LineOf
<1>2. TextAt(f, pos) /\ event = NoEvent /\ f \notin DocumentFormats \cup {"csv", "windows_event_text"}
  BY <1>1, Universally DEF UniversalAt, LineFormats, DocumentFormats
<1> DEFINE used == Lines[pos] \in LineKinds(f)
           lost(p) == {i \in NonBlank : i < p} \ Text(f, p)
<1>3. /\ Text(f, pos + 1) = IF used THEN Text(f, pos) \cup {pos} ELSE Text(f, pos)
      /\ Text(f, pos) \subseteq Before(pos)
  BY <1>1, OneMore DEF Text
<1>4. records' = {Rec(i) : i \in Text(f, pos + 1)}
  <2>1. records' = records \cup (IF used THEN {Rec(pos)} ELSE {})
    BY <1>1 DEF Single, Rec
  <2>2. records = {Rec(i) : i \in Text(f, pos)}
    BY <1>2 DEF TextAt
  <2> QED BY <1>3, <2>1, <2>2
<1>5. unparsed' \in Nat /\ Cardinality(lost(pos + 1)) <= unparsed'
  <2>1. Cardinality(lost(pos)) <= unparsed /\ unparsed \in Nat
    BY <1>2, FilesAndPlaces DEF TextAt
  <2>2. IsFiniteSet(lost(pos)) /\ IsFiniteSet(lost(pos + 1))
    BY FilesAndPlaces, FS_Subset
  <2>3. pos \in DOMAIN Lines /\ Lines[pos] \in Kinds
    BY <1>1, OneMore, FileIs, FilesAndPlaces DEF IngestTypeOK
  <2>4. lost(pos + 1) \subseteq IF Lines[pos] \in missed THEN lost(pos) \cup {pos} ELSE lost(pos)
    BY <1>3, <2>3, FilesAndPlaces DEF NonBlank
  <2> HIDE DEF lost
  <2>5. /\ IsFiniteSet(lost(pos) \cup {pos}) /\ Cardinality(lost(pos)) \in Nat
        /\ Cardinality(lost(pos) \cup {pos}) <= Cardinality(lost(pos)) + 1
        /\ Cardinality(lost(pos) \cup {pos}) \in Nat
    <3> DEFINE before == lost(pos)
    <3> HIDE DEF before
    <3>1. IsFiniteSet(before) /\ Cardinality(before) \in Nat
      BY <2>2, FS_CardinalityType DEF before
    <3>2. /\ IsFiniteSet(before \cup {pos})
          /\ Cardinality(before \cup {pos}) = IF pos \in before THEN Cardinality(before) ELSE Cardinality(before) + 1
      BY <3>1, FS_AddElement
    <3> QED BY <3>1, <3>2 DEF before
  <2>6. Cardinality(lost(pos + 1)) \in Nat
    BY <2>2, FS_CardinalityType
  <2>7. CASE Lines[pos] \in missed
    <3>1. Cardinality(lost(pos + 1)) <= Cardinality(lost(pos) \cup {pos})
      BY <2>4, <2>5, <2>7, FS_Subset
    <3> QED BY <1>1, <2>1, <2>5, <2>6, <2>7, <3>1
  <2>8. CASE Lines[pos] \notin missed
    <3>1. Cardinality(lost(pos + 1)) <= Cardinality(lost(pos))
      BY <2>2, <2>4, <2>8, FS_Subset
    <3> QED BY <1>1, <2>1, <2>5, <2>6, <2>8, <3>1
  <2> QED BY <2>7, <2>8
<1>6. TextAt(fmt, pos)'
  BY <1>1, <1>4, <1>5, FileStays DEF TextAt
<1>7. UniversalAt(fmt, pos)'
  BY <1>1, <1>2, <1>5, <1>6 DEF UniversalAt
<1>8. IsFiniteSet(records')
  <2>1. IsFiniteSet(Text(f, pos + 1))
    BY <1>3, FilesAndPlaces, FS_Subset DEF Text
  <2> QED BY <1>4, <2>1, RecsFinite
<1> QED BY <1>1, <1>7, <1>8, OneMore, ParserKeeps

LEMMA ReadDocumentKeeps ==
    ASSUME IngestInv, NEW f \in DocumentFormats, NEW lines, ReadDocument(f, ItemsOf(f), lines)
    PROVE  IngestInv'
<1>1. /\ pc = "universal" /\ fmt = f /\ pos = 1 /\ pos' = End
      /\ records' = ItemRecs(ItemsOf(f))
      /\ UNCHANGED <<file, mode, phase, pc, fmt, unparsed, event, native, report>>
  BY DEF ReadDocument, End, ItemRecs
<1>2. event = NoEvent /\ unparsed \in Nat /\ f \notin LineFormats \cup {"csv", "windows_event_text"}
  BY <1>1, Universally DEF UniversalAt, LineFormats, DocumentFormats
<1>3. ItemRecs(ItemsOf(f))' = ItemRecs(ItemsOf(f))
  BY <1>1, FileStays DEF ItemRecs
<1>4. DocumentAt(f, End)'
  BY <1>1, <1>3, FilesAndPlaces, FileStays DEF DocumentAt
<1>5. UniversalAt(fmt, pos)'
  BY <1>1, <1>2, <1>4, FileStays DEF UniversalAt
<1>6. IsFiniteSet(records')
  BY <1>1, ItemsFinite, ItemRecsFinite, FilesAndPlaces DEF IngestTypeOK
<1> QED BY <1>1, <1>5, <1>6, FilesAndPlaces, ParserKeeps

LEMMA HeaderIsNoCell ==
    ASSUME IngestInv
    PROVE  ~InCell(1)
<1>1. {j \in DOMAIN Lines : j < 1 /\ Lines[j] = "quote"} = {}
  BY FilesAndPlaces
<1>2. Cardinality({}) % 2 # 1
  BY FS_EmptySet
<1>3. Cardinality({j \in DOMAIN Lines : j < 1 /\ Lines[j] = "quote"}) % 2 # 1
  BY <1>1, <1>2, Zenon
<1> QED BY <1>3 DEF InCell

(* Under its header a CSV file is rows and what the reader passes over.      *)
LEMMA RowsAndSkipped ==
    ASSUME IngestInv, NEW p \in DOMAIN Lines, p # 1, Lines[1] # "blank"
    PROVE  Cardinality(Rows(p)) + 2 + Uncounted(p) = p
<1>1. /\ p \in Nat /\ p >= 2 /\ Before(p) = 1..(p - 1) /\ IsFiniteSet(Before(p))
      /\ DOMAIN Lines = 1..Len(Lines) /\ Len(Lines) \in Nat
  <2>1. DOMAIN Lines = 1..Len(Lines) /\ Len(Lines) \in Nat /\ IsFiniteSet(Before(p))
    BY FilesAndPlaces
  <2>2. p \in Nat /\ p >= 2 /\ p <= Len(Lines)
    BY <2>1
  <2>3. Before(p) = 1..(p - 1)
    BY <2>1, <2>2 DEF Before
  <2> QED BY <2>1, <2>2, <2>3
<1>2. Uncounted(p) = Cardinality(Skipped(p))
  <2>1. Skipped(p) = {j \in DOMAIN Lines : j < p /\ (Lines[j] = "blank" \/ InCell(j))}
    BY DEF Skipped, Before
  <2> QED BY <2>1 DEF Uncounted
<1>3. ~InCell(1)
  BY HeaderIsNoCell
<1> DEFINE rows == Rows(p)
           skipped == Skipped(p)
<1>4. /\ Before(p) = (rows \cup skipped) \cup {1} /\ 1 \notin rows \cup skipped /\ rows \cap skipped = {}
      /\ rows \subseteq Before(p) /\ skipped \subseteq Before(p)
  BY <1>1, <1>3 DEF Rows, Skipped, RowStarts
<1> HIDE DEF rows, skipped
<1>5. /\ IsFiniteSet(rows) /\ IsFiniteSet(skipped) /\ IsFiniteSet(rows \cup skipped)
      /\ Cardinality(rows) \in Nat /\ Cardinality(skipped) \in Nat
  BY <1>1, <1>4, FS_Subset, FS_Union, FS_CardinalityType
<1>6. Cardinality(rows \cup skipped) = Cardinality(rows) + Cardinality(skipped)
  <2>1. Cardinality(rows \cap skipped) = 0
    BY <1>4, FS_EmptySet
  <2>2. Cardinality(rows \cup skipped) =
            Cardinality(rows) + Cardinality(skipped) - Cardinality(rows \cap skipped)
    BY <1>5, FS_Union
  <2> QED BY <1>5, <2>1, <2>2
<1>7. Cardinality(Before(p)) = Cardinality(rows) + Cardinality(skipped) + 1
  <2>1. Cardinality((rows \cup skipped) \cup {1}) = Cardinality(rows \cup skipped) + 1
    BY <1>4, <1>5, FS_AddElement
  <2> QED BY <1>4, <1>6, <2>1
<1>8. Cardinality(1..(p - 1)) = p - 1
  <2>1. p - 1 \in Int /\ p - 1 >= 1
    BY <1>1
  <2>2. \A n \in Int : Cardinality(1..n) = IF 1 > n THEN 0 ELSE n - 1 + 1
    BY FS_Interval
  <2> QED BY <2>1, <2>2
<1> QED BY <1>1, <1>2, <1>5, <1>7, <1>8 DEF rows, skipped

LEMMA ReadRowKeeps ==
    ASSUME IngestInv, ReadRow
    PROVE  IngestInv'
<1>1. /\ pc = "universal" /\ fmt = "csv" /\ pos <= Len(Lines) /\ pos' = pos + 1
      /\ UNCHANGED <<file, mode, phase, pc, fmt, unparsed, event, native, report>>
  BY DEF ReadRow
<1>2. CsvAt(pos) /\ event = NoEvent
  BY <1>1, Universally DEF UniversalAt
<1>3. pos \in DOMAIN Lines /\ pos \in Nat
  BY <1>1, OneMore, FilesAndPlaces
<1>4. CASE ~RowStarts(pos) /\ UNCHANGED records
  <2>1. Rows(pos + 1) = Rows(pos)
    BY <1>1, <1>3, <1>4, OneMore DEF Rows
  <2>2. CsvAt(pos + 1)
    BY <1>2, <2>1 DEF CsvAt
  <2>3. CsvAt(pos)'
    BY <1>1, <1>4, <2>2, FileStays DEF CsvAt, Parsed, Numbers, Held
  <2>4. UniversalAt(fmt, pos)'
    BY <1>1, <1>2, <2>3 DEF UniversalAt, LineFormats, DocumentFormats, CsvAt
  <2> QED BY <1>1, <1>4, <2>4, OneMore, FilesAndPlaces, ParserKeeps
<1>5. CASE /\ RowStarts(pos)
           /\ records' = records \cup
                  {[n |-> Parsed + 2, lines |-> IF Lines[1] = "blank" THEN {} ELSE RowAt(pos)]}
  <2> DEFINE row == [n |-> Parsed + 2, lines |-> IF Lines[1] = "blank" THEN {} ELSE RowAt(pos)]
  <2>1. Rows(pos + 1) = Rows(pos) \cup {pos} /\ pos \notin Rows(pos) /\ IsFiniteSet(Rows(pos))
    BY <1>1, <1>3, <1>5, OneMore, FilesAndPlaces, FS_Subset DEF Rows
  <2>2. Parsed \in Nat /\ Parsed = Cardinality(Rows(pos)) /\ Numbers(records) = 2..(Parsed + 1)
    BY <1>2, FilesAndPlaces, FS_CardinalityType DEF CsvAt, Parsed
  <2>3. row \notin records
    <3>1. \A r \in records : r.n \in 2..(Parsed + 1)
      BY <2>2 DEF Numbers
    <3> QED BY <2>2, <3>1
  <2>4. Parsed' = Parsed + 1 /\ IsFiniteSet(records')
    BY <1>5, <2>3, FilesAndPlaces, FS_AddElement DEF Parsed
  <2>5. Cardinality(Rows(pos + 1)) = Parsed + 1
    BY <2>1, <2>2, FS_AddElement
  <2>6. Numbers(records') = 2..(Parsed + 2)
    <3>1. Numbers(records') = Numbers(records) \cup {Parsed + 2}
      <4>1. records' = records \cup {row} /\ row.n = Parsed + 2
        BY <1>5
      <4> HIDE DEF row
      <4> QED BY <4>1 DEF Numbers
    <3> QED BY <2>2, <3>1
  <2>7. Lines[1] = "blank" \/ Rows(pos + 1) \subseteq Held'
    <3>1. Held \subseteq Held'
      BY <1>5 DEF Held
    <3>2. Lines[1] # "blank" => row \in records' /\ pos \in row.lines
      BY <1>3, <1>5, RowBegins
    <3>3. Lines[1] # "blank" => pos \in Held'
      BY <3>2 DEF Held
    <3> QED BY <1>2, <2>1, <3>1, <3>3 DEF CsvAt
  <2>8. \A r \in records' : r.lines = {} \/ \E i \in DOMAIN Lines : r.lines = RowAt(i) /\ r.n + Uncounted(i) = i
    <3>1. Lines[1] # "blank" => Parsed + 2 + Uncounted(pos) = pos
      BY <1>3, <1>5, <2>2, RowsAndSkipped DEF RowStarts
    <3> QED BY <1>2, <1>3, <1>5, <3>1 DEF CsvAt
  <2>9. CsvAt(pos)'
    <3>1. unparsed' = 0
      BY <1>1, <1>2 DEF CsvAt
    <3> QED BY <1>1, <2>2, <2>4, <2>5, <2>6, <2>7, <2>8, <3>1, FileStays DEF CsvAt
  <2>10. UniversalAt(fmt, pos)'
    BY <1>1, <1>2, <2>9 DEF UniversalAt, LineFormats, DocumentFormats, CsvAt
  <2> QED BY <1>1, <2>4, <2>10, OneMore, ParserKeeps
<1> QED BY <1>4, <1>5 DEF ReadRow

Marks == {"stamp", "code", "field"}
HeldBy(recs) == UNION {r.lines : r \in recs}

LEMMA FirstOfInterval ==
    ASSUME NEW b \in Int, NEW q \in Int, b <= q
    PROVE  FirstLine(b..q) = b
BY DEF FirstLine

LEMMA SaysGrows ==
    ASSUME NEW p \in Nat \ {0}, NEW i \in 1..p
    PROVE  /\ Says(i, p + 1) <=> \/ Says(i, p)
                                 \/ Lines[p] \in Marks /\ \A k \in (i + 1)..p : ~Begins(k)
           /\ Says(i, p) \in BOOLEAN /\ Says(i, p + 1) \in BOOLEAN
<1>1. i..((p + 1) - 1) = i..(p - 1) \cup {p}
  OBVIOUS
<1>2. Says(i, p + 1) <=> \/ Says(i, p)
                         \/ Lines[p] \in Marks /\ \A k \in (i + 1)..p : ~Begins(k)
  BY <1>1 DEF Says, Marks
<1>3. Says(i, p) \in BOOLEAN /\ Says(i, p + 1) \in BOOLEAN
  BY DEF Says
<1> QED BY <1>2, <1>3

LEMMA SaysNothingYet ==
    ASSUME NEW p \in Nat \ {0}
    PROVE  ~Says(p, p)
BY DEF Says

LEMMA EventsGrow ==
    ASSUME IngestInv, pos <= Len(Lines)
    PROVE  Events(pos + 1) = Events(pos) \cup
              {i \in Before(pos + 1) : /\ Begins(i) /\ Lines[pos] \in Marks
                                       /\ \A k \in (i + 1)..pos : ~Begins(k)}
<1>1. /\ pos \in Nat \ {0} /\ Before(pos + 1) = Before(pos) \cup {pos} /\ pos \notin Before(pos)
      /\ Before(pos + 1) \subseteq 1..pos
  BY OneMore, FilesAndPlaces DEF Before
<1>2. \A i \in Before(pos + 1) :
          Says(i, pos + 1) <=> \/ Says(i, pos)
                               \/ Lines[pos] \in Marks /\ \A k \in (i + 1)..pos : ~Begins(k)
  BY <1>1, SaysGrows
<1>3. ~Says(pos, pos)
  BY <1>1, SaysNothingYet
<1> QED BY <1>1, <1>2, <1>3 DEF Events

(* The event the parser is in: it goes from where it began to the last line  *)
(* read.                                                                     *)
LEMMA InEvent ==
    ASSUME IngestInv, pc = "universal", WindowsAt(pos), event.open
    PROVE  \E b \in Before(pos) :
              /\ event = [lines |-> b..(pos - 1), said |-> Says(b, pos), open |-> TRUE]
              /\ Begins(b) /\ \A k \in (b + 1)..(pos - 1) : ~Begins(k)
              /\ \A r \in records : \A i \in r.lines : i < b
              /\ ~event.said => records = {}
              /\ FirstLine(event.lines) = b /\ b \in event.lines /\ event.lines \subseteq Before(pos)
              /\ \A i \in event.lines : b <= i
<1>1. PICK b \in Before(pos) :
              /\ event = [lines |-> b..(pos - 1), said |-> Says(b, pos), open |-> TRUE]
              /\ Begins(b) /\ \A k \in (b + 1)..(pos - 1) : ~Begins(k)
              /\ \A r \in records : \A i \in r.lines : i < b
              /\ ~event.said => records = {}
  BY DEF WindowsAt, CurrentAt
<1>2. b \in Nat /\ pos \in Nat /\ 1 <= b /\ b <= pos - 1 /\ b <= Len(Lines)
  BY FilesAndPlaces DEF Before
<1>3. FirstLine(event.lines) = b
  BY <1>1, <1>2, FirstOfInterval
<1>4. event.lines \subseteq Before(pos)
  BY <1>1, <1>2, FilesAndPlaces DEF Before
<1>5. b \in event.lines /\ \A i \in event.lines : b <= i
  BY <1>1, <1>2
<1> QED BY <1>1, <1>3, <1>4, <1>5

(* The parser with the event it is in written out.                           *)
LEMMA FlushedIs ==
    ASSUME IngestInv, pc = "universal", WindowsAt(pos)
    PROVE  /\ IsFiniteSet(Flushed) /\ Numbers(Flushed) = Events(pos)
           /\ \A r \in Flushed : r.lines \subseteq Before(pos) /\ r.n \in r.lines /\ r.n = FirstLine(r.lines)
           /\ \A r, s \in Flushed : r.n = s.n => r = s
           /\ \A i \in {i \in NonBlank : i < pos} \ HeldBy(Flushed), j \in HeldBy(Flushed) : i < j
<1>1. /\ Events(pos) = Numbers(records) \cup (IF event.said THEN {FirstLine(event.lines)} ELSE {})
      /\ \A r \in records : r.lines \subseteq Before(pos) /\ r.n \in r.lines /\ r.n = FirstLine(r.lines)
      /\ \A r, s \in records : r.n = s.n => r = s
      /\ \A i \in Lost(pos), j \in Held \cup event.lines : i < j
      /\ ~event.open => event = NoEvent
  BY DEF WindowsAt, CurrentAt
<1>2. CASE event.said
  <2>1. event.open
    BY <1>1, <1>2 DEF NoEvent
  <2>2. PICK b \in Before(pos) :
              /\ \A r \in records : \A i \in r.lines : i < b
              /\ FirstLine(event.lines) = b /\ b \in event.lines /\ event.lines \subseteq Before(pos)
    BY <2>1, InEvent
  <2> DEFINE new == [n |-> b, lines |-> event.lines]
  <2>3. Flushed = records \cup {new}
    BY <1>2, <2>2 DEF Flushed
  <2>4. new.n = b /\ new.lines = event.lines
    OBVIOUS
  <2> HIDE DEF new
  <2>5. IsFiniteSet(Flushed)
    BY <2>3, FilesAndPlaces, FS_AddElement
  <2>6. Numbers(Flushed) = Events(pos)
    <3>1. Numbers(Flushed) = Numbers(records) \cup {b}
      BY <2>3, <2>4 DEF Numbers
    <3> QED BY <1>1, <1>2, <2>2, <3>1
  <2>7. \A r \in Flushed : r.lines \subseteq Before(pos) /\ r.n \in r.lines /\ r.n = FirstLine(r.lines)
    BY <1>1, <2>2, <2>3, <2>4
  <2>8. \A r, s \in Flushed : r.n = s.n => r = s
    <3>1. \A r \in records : r.n < b
      BY <1>1, <2>2
    <3>2. b \in Nat
      BY FilesAndPlaces DEF Before
    <3> QED BY <1>1, <2>3, <2>4, <3>1, <3>2
  <2>9. HeldBy(Flushed) = Held \cup event.lines
    BY <2>3, <2>4 DEF HeldBy, Held
  <2> QED BY <1>1, <2>5, <2>6, <2>7, <2>8, <2>9 DEF Lost
<1>3. CASE ~event.said
  <2>1. Flushed = records
    BY <1>3 DEF Flushed
  <2>2. HeldBy(Flushed) = Held
    BY <2>1 DEF HeldBy, Held
  <2>3. Numbers(Flushed) = Events(pos)
    BY <1>1, <1>3, <2>1
  <2>4. event.open => Held = {}
    BY <1>3, InEvent DEF Held
  <2>5. ~event.open => event.lines = {}
    BY <1>1 DEF NoEvent
  <2>6. \A i \in {i \in NonBlank : i < pos} \ Held, j \in Held : i < j
    BY <1>1, <2>4, <2>5 DEF Lost
  <2> QED BY <1>1, <2>1, <2>2, <2>3, <2>6, FilesAndPlaces
<1> QED BY <1>2, <1>3

LEMMA WindowsReads ==
    ASSUME IngestInv, pc = "universal", fmt = "windows_event_text"
    PROVE  WindowsAt(pos)
BY Universally DEF UniversalAt

LEMMA WindowsGoesOn ==
    ASSUME IngestInv, pc = "universal", fmt = "windows_event_text", WindowsAt(pos)',
           pos' \in Nat \ {0}, pos' <= End, IsFiniteSet(records'), unparsed' \in Nat,
           UNCHANGED <<file, mode, phase, pc, fmt, native, report>>
    PROVE  IngestInv'
<1>1. UniversalAt(fmt, pos)'
  BY DEF UniversalAt, LineFormats, DocumentFormats
<1> QED BY <1>1, ParserKeeps

LEMMA WindowsEndKeeps ==
    ASSUME IngestInv, NEW missed \in Nat, ReadWindowsEnd(missed),
           Route = "console" => missed = AtLeast(0, total - Cardinality(Flushed))
    PROVE  IngestInv'
<1>1. /\ pc = "universal" /\ fmt = "windows_event_text" /\ pos > Len(Lines)
      /\ records' = Flushed /\ event' = NoEvent /\ unparsed' = missed
      /\ UNCHANGED <<file, mode, phase, pc, fmt, pos, total, native, report>>
  BY DEF ReadWindowsEnd
<1>2. WindowsAt(pos)
  BY <1>1, WindowsReads
<1>3. CurrentAt(pos)'
  BY <1>1, FilesAndPlaces, FileStays DEF CurrentAt, NoEvent
<1>4. (Events(pos) = Numbers(records) \cup (IF event.said THEN {FirstLine(event.lines)} ELSE {}))'
  <2>1. Events(pos) = Numbers(Flushed) \cup (IF FALSE THEN {FirstLine({})} ELSE {})
    BY <1>1, <1>2, FlushedIs
  <2> QED BY <1>1, <2>1, FileStays DEF NoEvent, Numbers
<1>5. (\A r \in records : r.lines \subseteq Before(pos) /\ r.n \in r.lines /\ r.n = FirstLine(r.lines))'
  BY <1>1, <1>2, FlushedIs, FileStays DEF FirstLine
<1>6. (\A r, s \in records : r.n = s.n => r = s)'
  BY <1>1, <1>2, FlushedIs
<1>7. (\A i \in Lost(pos), j \in Held \cup event.lines : i < j)'
  BY <1>1, <1>2, FlushedIs, FileStays DEF Lost, Held, HeldBy, NoEvent
<1>8. total' = pos' - 1
  BY <1>1, <1>2 DEF WindowsAt
<1>9. Route' = Route
  BY <1>1 DEF Route
<1>10. WindowsAt(pos)'
  BY <1>1, <1>3, <1>4, <1>5, <1>6, <1>7, <1>8, <1>9, FileStays DEF WindowsAt, NoEvent, AtLeast
<1> QED BY <1>1, <1>2, <1>10, FlushedIs, FilesAndPlaces, WindowsGoesOn

(* A line read into an event that goes on, or that it begins: what is said   *)
(* of the event, and of the lines no record holds.                           *)
LEMMA WindowsStampKeeps ==
    ASSUME IngestInv, ReadWindowsLine, WindowsStamp(Lines[pos])
    PROVE  IngestInv'
<1>1. /\ pc = "universal" /\ fmt = "windows_event_text" /\ pos <= Len(Lines)
      /\ Lines[pos] = "stamp" /\ records' = Flushed
      /\ event' = [lines |-> {pos}, said |-> TRUE, open |-> TRUE]
      /\ pos' = pos + 1 /\ total' = total + 1
      /\ UNCHANGED <<file, mode, phase, pc, fmt, unparsed, native, report>>
  BY DEF ReadWindowsLine, WindowsStamp
<1>2. WindowsAt(pos) /\ Route' = Route
  BY <1>1, WindowsReads DEF Route
<1>3. /\ pos \in DOMAIN Lines /\ pos \in Nat \ {0} /\ Before(pos + 1) = Before(pos) \cup {pos}
      /\ Before(pos) \subseteq 1..(pos - 1) /\ pos \in NonBlank /\ Begins(pos)
  BY <1>1, OneMore, FilesAndPlaces DEF Before, NonBlank, Begins
<1>4. Says(pos, pos + 1) /\ Events(pos + 1) = Events(pos) \cup {pos}
  <2>1. Says(pos, pos + 1)
    BY <1>1, <1>3, SaysGrows DEF Marks
  <2>2. Lines[pos] \in Marks /\ \A k \in (pos + 1)..pos : ~Begins(k)
    BY <1>1, <1>3 DEF Marks
  <2> QED BY <1>1, <1>3, <2>1, <2>2, EventsGrow
<1>5. FirstLine({pos}) = pos
  BY <1>3, FirstOfOne
<1>6. CurrentAt(pos)'
  <2>1. {pos} = pos..((pos + 1) - 1) /\ \A k \in (pos + 1)..((pos + 1) - 1) : ~Begins(k)
    BY <1>3
  <2>2. \A r \in Flushed : \A i \in r.lines : i < pos
    BY <1>1, <1>2, <1>3, FlushedIs
  <2>3. pos \in Before(pos + 1) /\ TRUE = Says(pos, pos + 1)
    BY <1>3, <1>4
  <2> QED BY <1>1, <1>3, <2>1, <2>2, <2>3, FileStays DEF CurrentAt
<1>7. (Events(pos) = Numbers(records) \cup (IF event.said THEN {FirstLine(event.lines)} ELSE {}))'
  <2>1. Events(pos + 1) = Numbers(Flushed) \cup (IF TRUE THEN {FirstLine({pos})} ELSE {})
    BY <1>1, <1>2, <1>4, <1>5, FlushedIs
  <2> QED BY <1>1, <2>1, FileStays DEF Numbers, FirstLine
<1>8. (\A r \in records : r.lines \subseteq Before(pos) /\ r.n \in r.lines /\ r.n = FirstLine(r.lines))'
  BY <1>1, <1>2, <1>3, FlushedIs, FileStays DEF FirstLine
<1>9. (\A r, s \in records : r.n = s.n => r = s)'
  BY <1>1, <1>2, FlushedIs
<1>10. (\A i \in Lost(pos), j \in Held \cup event.lines : i < j)'
  <2>1. \A i \in {i \in NonBlank : i < pos + 1} \ (HeldBy(Flushed) \cup {pos}), j \in HeldBy(Flushed) \cup {pos} : i < j
    BY <1>1, <1>2, <1>3, FlushedIs, FilesAndPlaces
  <2>2. Lost(pos)' = {i \in NonBlank : i < pos + 1} \ (HeldBy(Flushed) \cup {pos})
    BY <1>1, FileStays DEF Lost, Held, HeldBy
  <2>3. (Held \cup event.lines)' = HeldBy(Flushed) \cup {pos}
    BY <1>1 DEF Held, HeldBy
  <2> QED BY <2>1, <2>2, <2>3
<1>11. total' = pos' - 1 /\ (Route = "console" => unparsed = 0)
  BY <1>1, <1>2, <1>3 DEF WindowsAt
<1>12. WindowsAt(pos)'
  BY <1>1, <1>2, <1>6, <1>7, <1>8, <1>9, <1>10, <1>11 DEF WindowsAt
<1> QED BY <1>1, <1>2, <1>12, OneMore, FlushedIs, FilesAndPlaces, WindowsGoesOn

(* What is left to show of a line that flushes nothing.                      *)
LEMMA WindowsReadsOn ==
    ASSUME IngestInv, pc = "universal", fmt = "windows_event_text", pos <= Len(Lines),
           pos' = pos + 1, total' = total + 1,
           UNCHANGED <<file, mode, phase, pc, fmt, records, unparsed, native, report>>,
           CurrentAt(pos)',
           (Events(pos) = Numbers(records) \cup (IF event.said THEN {FirstLine(event.lines)} ELSE {}))',
           (\A i \in Lost(pos), j \in Held \cup event.lines : i < j)',
           Route = "console" => event'.open \/ NonBlank = {} \/ pos + 1 <= Len(Lines)
    PROVE  IngestInv'
<1>1. WindowsAt(pos) /\ Route' = Route
  BY WindowsReads DEF Route
<1>2. pos \in Nat \ {0} /\ Before(pos) \subseteq Before(pos + 1)
  BY OneMore, FilesAndPlaces
<1>3. (\A r \in records : r.lines \subseteq Before(pos) /\ r.n \in r.lines /\ r.n = FirstLine(r.lines))'
  <2>1. \A r \in records : r.lines \subseteq Before(pos + 1) /\ r.n \in r.lines /\ r.n = FirstLine(r.lines)
    BY <1>1, <1>2 DEF WindowsAt
  <2> QED BY <2>1, FileStays DEF FirstLine
<1>4. (\A r, s \in records : r.n = s.n => r = s)'
  BY <1>1 DEF WindowsAt
<1>5. /\ total' = pos' - 1
      /\ Route = "console" => unparsed' = 0 /\ (event'.open \/ NonBlank' = {} \/ pos' <= Len(Lines'))
  <2>1. total' = pos' - 1
    BY <1>1, <1>2 DEF WindowsAt
  <2>2. Route = "console" => unparsed = 0
    BY <1>1, <1>2, FilesAndPlaces DEF WindowsAt
  <2> QED BY <2>1, <2>2, FileStays
<1>6. WindowsAt(pos)'
  BY <1>1, <1>3, <1>4, <1>5 DEF WindowsAt
<1> QED BY <1>6, OneMore, FilesAndPlaces, WindowsGoesOn

LEMMA WindowsBlankKeeps ==
    ASSUME IngestInv, ReadWindowsLine, WindowsBlank(Lines[pos])
    PROVE  IngestInv'
<1>1. /\ pc = "universal" /\ fmt = "windows_event_text" /\ pos <= Len(Lines)
      /\ Lines[pos] = "blank"
      /\ event' = IF event.open THEN [event EXCEPT !.lines = @ \cup {pos}] ELSE event
      /\ pos' = pos + 1 /\ total' = total + 1
      /\ UNCHANGED <<file, mode, phase, pc, fmt, records, unparsed, native, report>>
  BY DEF ReadWindowsLine, WindowsBlank
<1>2. WindowsAt(pos) /\ Route' = Route
  BY <1>1, WindowsReads DEF Route
<1>3. /\ pos \in DOMAIN Lines /\ pos \in Nat \ {0} /\ Before(pos + 1) = Before(pos) \cup {pos}
      /\ Before(pos) \subseteq 1..(pos - 1) /\ pos \notin NonBlank /\ ~Begins(pos)
  BY <1>1, OneMore, FilesAndPlaces DEF Before, NonBlank, Begins
<1>4. Lines[pos] \notin Marks /\ Events(pos + 1) = Events(pos)
  BY <1>1, EventsGrow DEF Marks
<1>5. CASE event.open
  <2>1. PICK b \in Before(pos) :
              /\ event = [lines |-> b..(pos - 1), said |-> Says(b, pos), open |-> TRUE]
              /\ Begins(b) /\ \A k \in (b + 1)..(pos - 1) : ~Begins(k)
              /\ \A r \in records : \A i \in r.lines : i < b
              /\ ~event.said => records = {}
              /\ FirstLine(event.lines) = b
    BY <1>1, <1>2, <1>5, InEvent
  <2>2. b \in Nat /\ 1 <= b /\ b <= pos - 1 /\ b \in 1..pos
    BY <1>3
  <2>3. Says(b, pos + 1) = Says(b, pos)
    BY <1>3, <1>4, <2>2, SaysGrows, Zenon
  <2>4. /\ event' = [lines |-> b..((pos + 1) - 1), said |-> Says(b, pos + 1), open |-> TRUE]
        /\ event'.lines = event.lines \cup {pos} /\ event'.said = event.said
    <3>1. b..(pos - 1) \cup {pos} = b..((pos + 1) - 1)
      BY <1>3, <2>2
    <3> QED BY <1>1, <1>5, <2>1, <2>3, <3>1
  <2>5. FirstLine(event'.lines) = b
    BY <1>3, <2>2, <2>4, FirstOfInterval
  <2>6. b \in Before(pos + 1) /\ \A k \in (b + 1)..((pos + 1) - 1) : ~Begins(k)
    BY <1>3, <2>1, <2>2
  <2>7. CurrentAt(pos)'
    BY <1>1, <2>1, <2>4, <2>6, FileStays DEF CurrentAt
  <2>8. (Events(pos) = Numbers(records) \cup (IF event.said THEN {FirstLine(event.lines)} ELSE {}))'
    <3>1. Events(pos + 1) = Numbers(records) \cup (IF event'.said THEN {FirstLine(event'.lines)} ELSE {})
      BY <1>2, <1>4, <2>1, <2>4, <2>5 DEF WindowsAt
    <3> QED BY <1>1, <3>1, FileStays DEF Numbers, FirstLine
  <2>9. (\A i \in Lost(pos), j \in Held \cup event.lines : i < j)'
    <3>1. \A i \in Lost(pos), j \in Held \cup event.lines : i < j
      BY <1>2 DEF WindowsAt
    <3>2. \A i \in Lost(pos) : i < pos
      BY <1>3, FilesAndPlaces DEF Lost
    <3>3. Lost(pos)' = Lost(pos)
      BY <1>1, <1>3, <2>4, FileStays, FilesAndPlaces DEF Lost, Held
    <3>4. (Held \cup event.lines)' = Held \cup event.lines \cup {pos}
      BY <1>1, <2>4 DEF Held
    <3> QED BY <3>1, <3>2, <3>3, <3>4
  <2>10. event'.open
    BY <2>4
  <2> QED BY <1>1, <2>7, <2>8, <2>9, <2>10, WindowsReadsOn
<1>6. CASE ~event.open
  <2>1. event = NoEvent /\ event' = NoEvent /\ \A i \in NonBlank : pos <= i
    BY <1>1, <1>2, <1>6 DEF WindowsAt, CurrentAt
  <2>2. CurrentAt(pos)'
    <3>1. \A i \in NonBlank : pos + 1 <= i
      BY <1>3, <2>1, FilesAndPlaces
    <3> QED BY <1>1, <2>1, <3>1, FileStays DEF CurrentAt, NoEvent
  <2>3. (Events(pos) = Numbers(records) \cup (IF event.said THEN {FirstLine(event.lines)} ELSE {}))'
    BY <1>1, <1>2, <1>4, <2>1, FileStays DEF WindowsAt, Numbers, NoEvent
  <2>4. (\A i \in Lost(pos), j \in Held \cup event.lines : i < j)'
    <3>1. Lost(pos)' = {}
      BY <1>1, <1>3, <2>1, FileStays, FilesAndPlaces DEF Lost
    <3> QED BY <3>1
  <2>5. NonBlank = {} \/ pos + 1 <= Len(Lines)
    BY <1>1, <1>3, <2>1, FilesAndPlaces
  <2> QED BY <1>1, <2>2, <2>3, <2>4, <2>5, WindowsReadsOn
<1> QED BY <1>5, <1>6

LEMMA WindowsTextKeeps ==
    ASSUME IngestInv, ReadWindowsLine, WindowsText(Lines[pos])
    PROVE  IngestInv'
<1> DEFINE marked == Lines[pos] \in {"code", "field"}
<1>1. /\ pc = "universal" /\ fmt = "windows_event_text" /\ pos <= Len(Lines)
      /\ Lines[pos] \notin {"stamp", "blank"}
      /\ event' = [lines |-> event.lines \cup {pos}, said |-> event.said \/ marked, open |-> TRUE]
      /\ pos' = pos + 1 /\ total' = total + 1
      /\ UNCHANGED <<file, mode, phase, pc, fmt, records, unparsed, native, report>>
  BY DEF ReadWindowsLine, WindowsText
<1>2. WindowsAt(pos)
  BY <1>1, WindowsReads
<1>3. /\ pos \in DOMAIN Lines /\ pos \in Nat \ {0} /\ Before(pos + 1) = Before(pos) \cup {pos}
      /\ Before(pos) \subseteq 1..(pos - 1) /\ pos \in NonBlank
      /\ Lines[pos] \in Marks <=> marked
  BY <1>1, OneMore, FilesAndPlaces DEF Before, NonBlank, Marks
<1>4. Events(pos) = Numbers(records) \cup (IF event.said THEN {FirstLine(event.lines)} ELSE {})
  BY <1>2 DEF WindowsAt
(* It goes on with the event it is in.                                       *)
<1>5. CASE event.open
  <2>1. PICK b \in Before(pos) :
              /\ event = [lines |-> b..(pos - 1), said |-> Says(b, pos), open |-> TRUE]
              /\ Begins(b) /\ \A k \in (b + 1)..(pos - 1) : ~Begins(k)
              /\ \A r \in records : \A i \in r.lines : i < b
              /\ ~event.said => records = {}
              /\ FirstLine(event.lines) = b
    BY <1>1, <1>2, <1>5, InEvent
  <2>2. b \in Nat /\ 1 <= b /\ b <= pos - 1 /\ b \in 1..pos /\ b \in NonBlank
    BY <1>3, <2>1 DEF Begins
  <2>3. ~Begins(pos)
    BY <1>1, <1>3, <2>2 DEF Begins
  <2>4. \A k \in (b + 1)..pos : ~Begins(k)
    BY <1>3, <2>1, <2>2, <2>3
  <2>5. Says(b, pos + 1) = (Says(b, pos) \/ marked)
    BY <1>3, <2>2, <2>4, SaysGrows, Zenon
  <2>6. /\ event' = [lines |-> b..((pos + 1) - 1), said |-> Says(b, pos + 1), open |-> TRUE]
        /\ event'.lines = event.lines \cup {pos} /\ event'.said = (event.said \/ marked)
    <3>1. b..(pos - 1) \cup {pos} = b..((pos + 1) - 1)
      BY <1>3, <2>2
    <3> QED BY <1>1, <2>1, <2>5, <3>1
  <2>7. FirstLine(event'.lines) = b
    BY <1>3, <2>2, <2>6, FirstOfInterval
  <2>8. CurrentAt(pos)'
    <3>1. b \in Before(pos + 1) /\ \A k \in (b + 1)..((pos + 1) - 1) : ~Begins(k)
      BY <1>3, <2>2, <2>4
    <3>2. event'.open /\ (~event'.said => records' = {})
      <4>1. event'.open /\ (event.said => event'.said)
        BY <2>6
      <4>2. records' = records
        BY <1>1
      <4> QED BY <2>1, <4>1, <4>2
    <3>3. event' = [lines |-> b..(pos' - 1), said |-> Says(b, pos'), open |-> TRUE]
      BY <1>1, <2>6
    <3> QED BY <1>1, <2>1, <3>1, <3>2, <3>3, FileStays DEF CurrentAt
  <2>9. Events(pos + 1) = Events(pos) \cup (IF marked THEN {b} ELSE {})
    <3>1. ASSUME NEW i \in Before(pos + 1)
          PROVE  Begins(i) /\ (\A k \in (i + 1)..pos : ~Begins(k)) <=> i = b
      <4>1. i \in Nat /\ i <= pos
        BY <1>3
      <4>2. i < b => b \in (i + 1)..pos
        BY <2>2, <4>1, <1>3
      <4>3. i > b => i \in (b + 1)..pos
        BY <2>2, <4>1, <1>3
      <4>4. i < b \/ i > b \/ i = b
        BY <2>2, <4>1
      <4> QED BY <2>1, <2>4, <4>2, <4>3, <4>4
    <3> QED BY <1>1, <1>3, <2>1, <3>1, EventsGrow
  <2>10. (Events(pos) = Numbers(records) \cup (IF event.said THEN {FirstLine(event.lines)} ELSE {}))'
    <3>1. Events(pos + 1) = Numbers(records) \cup (IF event'.said THEN {FirstLine(event'.lines)} ELSE {})
      BY <1>4, <2>1, <2>6, <2>7, <2>9
    <3> QED BY <1>1, <3>1, FileStays DEF Numbers, FirstLine
  <2>11. (\A i \in Lost(pos), j \in Held \cup event.lines : i < j)'
    <3>1. \A i \in Lost(pos), j \in Held \cup event.lines : i < j
      BY <1>2 DEF WindowsAt
    <3>2. \A i \in Lost(pos) : i < pos
      BY <1>3, FilesAndPlaces DEF Lost
    <3>3. Lost(pos)' = Lost(pos)
      BY <1>1, <1>3, <2>6, FileStays, FilesAndPlaces DEF Lost, Held
    <3>4. (Held \cup event.lines)' = Held \cup event.lines \cup {pos}
      BY <1>1, <2>6 DEF Held
    <3> QED BY <3>1, <3>2, <3>3, <3>4
  <2>12. event'.open
    BY <2>6
  <2> QED BY <1>1, <2>8, <2>10, <2>11, <2>12, WindowsReadsOn
(* It begins the first event there is.                                       *)
<1>6. CASE ~event.open
  <2>1. event = NoEvent /\ \A i \in NonBlank : pos <= i
    BY <1>1, <1>2, <1>6 DEF WindowsAt, CurrentAt
  <2>2. Begins(pos) /\ \A i \in Before(pos) : ~Begins(i)
    BY <1>3, <2>1 DEF Begins
  <2>3. Events(pos) = {} /\ records = {}
    <3>1. Events(pos) = {}
      BY <2>2 DEF Events
    <3> QED BY <1>4, <3>1 DEF Numbers
  <2>4. Says(pos, pos + 1) = marked
    <3>1. ~Says(pos, pos) /\ pos \in 1..pos /\ \A k \in (pos + 1)..pos : ~Begins(k)
      BY <1>3, SaysNothingYet
    <3>2. Says(pos, pos + 1) <=> marked
      BY <1>3, <3>1, SaysGrows
    <3>3. Says(pos, pos + 1) \in BOOLEAN /\ marked \in BOOLEAN
      BY <1>3, <3>1, SaysGrows
    <3> QED BY <3>2, <3>3
  <2>5. event' = [lines |-> pos..((pos + 1) - 1), said |-> Says(pos, pos + 1), open |-> TRUE]
    <3>1. {} \cup {pos} = pos..((pos + 1) - 1)
      BY <1>3
    <3>2. (event.said \/ marked) = marked /\ event.lines = {}
      BY <2>1 DEF NoEvent
    <3> HIDE DEF marked
    <3> QED BY <1>1, <2>4, <3>1, <3>2
  <2>6. FirstLine(event'.lines) = pos
    BY <1>3, <2>5, FirstOfInterval
  <2>7. CurrentAt(pos)'
    <3>1. pos \in Before(pos + 1) /\ \A k \in (pos + 1)..((pos + 1) - 1) : ~Begins(k)
      BY <1>3
    <3>2. event'.open
      BY <1>1
    <3>3. event' = [lines |-> pos..(pos' - 1), said |-> Says(pos, pos'), open |-> TRUE]
      BY <1>1, <2>5
    <3> QED BY <1>1, <2>2, <2>3, <3>1, <3>2, <3>3, FileStays DEF CurrentAt
  <2>8. Events(pos + 1) = IF marked THEN {pos} ELSE {}
    <3>1. \A i \in Before(pos + 1) : Begins(i) /\ (\A k \in (i + 1)..pos : ~Begins(k)) <=> i = pos
      BY <1>3, <2>2
    <3> QED BY <1>1, <1>3, <2>3, <3>1, EventsGrow
  <2>9. (Events(pos) = Numbers(records) \cup (IF event.said THEN {FirstLine(event.lines)} ELSE {}))'
    <3>1. Events(pos + 1) = Numbers({}) \cup (IF event'.said THEN {FirstLine(event'.lines)} ELSE {})
      BY <2>4, <2>5, <2>6, <2>8 DEF Numbers
    <3> QED BY <1>1, <2>3, <3>1, FileStays DEF Numbers, FirstLine
  <2>10. (\A i \in Lost(pos), j \in Held \cup event.lines : i < j)'
    <3>1. Lost(pos)' = {}
      <4>1. event'.lines = {pos}
        BY <1>1, <2>1 DEF NoEvent
      <4> QED BY <1>1, <1>3, <2>1, <4>1, FileStays, FilesAndPlaces DEF Lost
    <3> QED BY <3>1
  <2>11. event'.open
    BY <1>1
  <2> QED BY <1>1, <2>7, <2>9, <2>10, <2>11, WindowsReadsOn
<1> QED BY <1>5, <1>6

ParserDone == pc = "universal" /\ pos > Len(Lines) /\ ~event.open

Formats == LineFormats \cup DocumentFormats \cup {"csv", "windows_event_text"}

(* What a universal parser has when it is through.                           *)
LEMMA DoneAtEnd ==
    ASSUME IngestInv, ParserDone
    PROVE  /\ UniversalAt(fmt, End) /\ pos = End /\ event = NoEvent /\ ~event.said /\ event.lines = {}
           /\ ~Raises(fmt) /\ Before(End) = DOMAIN Lines
           /\ fmt = "windows_event_text" => WindowsAt(End)
           /\ fmt \notin Formats => records = {} /\ Lines = <<>>
<1>1. pos = End /\ Before(End) = DOMAIN Lines
  BY FilesAndPlaces DEF ParserDone
<1>2. UniversalAt(fmt, End) /\ ~Raises(fmt)
  BY <1>1, Universally DEF ParserDone
<1>3. event = NoEvent
  BY <1>2 DEF ParserDone, UniversalAt, WindowsAt, CurrentAt
<1>4. fmt \notin Formats => records = {} /\ Lines = <<>>
  <2>1. fmt \notin Formats => records = {} /\ End = 1
    BY <1>2 DEF UniversalAt, Formats
  <2>2. End = 1 => Len(Lines) = 0
    BY FilesAndPlaces
  <2>3. Len(Lines) = 0 => Lines = <<>>
    BY FileIs, FilesAndPlaces DEF IngestTypeOK
  <2> QED BY <2>1, <2>2, <2>3
<1>5. fmt = "windows_event_text" => WindowsAt(End)
  BY <1>2 DEF UniversalAt
<1> QED BY <1>1, <1>2, <1>3, <1>4, <1>5 DEF NoEvent

LEMMA DocumentHas ==
    ASSUME IngestInv, ParserDone, fmt \in DocumentFormats
    PROVE  records = ItemRecs(ItemsOf(fmt)) /\ Numbers(records) = DOMAIN ItemsOf(fmt)
<1>1. DocumentAt(fmt, End)
  BY DoneAtEnd DEF UniversalAt
<1>2. ~(End = 1 /\ Lines # <<>>)
  BY FileIs, FilesAndPlaces DEF IngestTypeOK
<1>3. records = ItemRecs(ItemsOf(fmt))
  BY <1>1, <1>2 DEF DocumentAt
<1>4. Numbers(records) = DOMAIN ItemsOf(fmt)
  <2> DEFINE items == ItemsOf(fmt)
  <2>1. Numbers(records) = {[n |-> i, lines |-> items[i]].n : i \in DOMAIN items}
    BY <1>3 DEF Numbers, ItemRecs
  <2> HIDE DEF items
  <2>2. {[n |-> i, lines |-> items[i]].n : i \in DOMAIN items} = DOMAIN items
    OBVIOUS
  <2> QED BY <2>1, <2>2 DEF items
<1> QED BY <1>3, <1>4

LEMMA DoneHas ==
    ASSUME IngestInv, ParserDone
    PROVE  Numbers(records) = Nums(fmt)
<1>1. CASE fmt \in LineFormats
  <2>1. records = {Rec(i) : i \in Text(fmt, End)}
    BY <1>1, DoneAtEnd DEF UniversalAt, TextAt
  <2>2. Numbers(records) = Text(fmt, End)
    BY <2>1, LineOfRecs
  <2> QED BY <1>1, <2>2 DEF Nums, LineFormats, DocumentFormats
<1>2. CASE fmt = "csv"
  <2>1. Numbers(records) = 2..(Cardinality(Rows(End)) + 1)
    BY <1>2, DoneAtEnd DEF UniversalAt, CsvAt
  <2> QED BY <1>2, <2>1 DEF Nums, LineFormats, DocumentFormats
<1>3. CASE fmt \in DocumentFormats
  BY <1>3, DocumentHas DEF Nums, LineFormats, DocumentFormats
<1>4. CASE fmt = "windows_event_text"
  BY <1>4, DoneAtEnd DEF WindowsAt, Nums, LineFormats, DocumentFormats
<1>5. CASE fmt \notin Formats
  BY <1>5, DoneAtEnd DEF Nums, Formats, Numbers
<1> QED BY <1>1, <1>2, <1>3, <1>4, <1>5 DEF Formats

(* A Windows export holds no fewer lines than it has events.                 *)
LEMMA WindowsHolds ==
    ASSUME IngestInv, ParserDone, fmt = "windows_event_text"
    PROVE  Cardinality(NonBlank \ Held) <= AtLeast(0, Len(Lines) - Cardinality(records))
<1> DEFINE lost == NonBlank \ Held
           nums == Numbers(records)
<1>1. /\ \A r \in records : r.lines \subseteq DOMAIN Lines /\ r.n \in r.lines
      /\ \A r, s \in records : r.n = s.n => r = s
  BY DoneAtEnd DEF WindowsAt
<1>2. nums \subseteq 1..Len(Lines) /\ nums \cap lost = {} /\ lost \subseteq 1..Len(Lines)
  BY <1>1, FilesAndPlaces DEF Numbers, Held
<1>3. IsFiniteSet(1..Len(Lines)) /\ Cardinality(1..Len(Lines)) = Len(Lines) /\ Len(Lines) \in Nat
  <2>1. Len(Lines) \in Nat /\ Len(Lines) \in Int
    BY FilesAndPlaces
  <2>2. /\ IsFiniteSet(1..Len(Lines))
        /\ Cardinality(1..Len(Lines)) = IF 1 > Len(Lines) THEN 0 ELSE Len(Lines) - 1 + 1
    <3>1. \A n \in Int : /\ IsFiniteSet(1..n)
                          /\ Cardinality(1..n) = IF 1 > n THEN 0 ELSE n - 1 + 1
      BY FS_Interval
    <3> QED BY <2>1, <3>1
  <2> QED BY <2>1, <2>2
<1>4. Cardinality(records) = Cardinality(nums)
  <2> DEFINE g == [r \in records |-> r.n]
  <2>1. g \in Bijection(records, nums)
    <3>1. g \in [records -> nums] /\ \A n \in nums : \E r \in records : g[r] = n
      BY DEF Numbers
    <3>2. \A r, s \in records : g[r] = g[s] => r = s
      BY <1>1
    <3> HIDE DEF g, nums
    <3>3. g \in Injection(records, nums)
      BY <3>1, <3>2 DEF Injection, IsInjective
    <3>4. g \in Surjection(records, nums)
      BY <3>1 DEF Surjection
    <3> QED BY <3>3, <3>4 DEF Bijection
  <2> QED BY <2>1, FilesAndPlaces, FS_Bijection DEF ExistsBijection
<1> HIDE DEF lost, nums
<1>5. /\ IsFiniteSet(nums) /\ IsFiniteSet(lost) /\ Cardinality(nums) \in Nat /\ Cardinality(lost) \in Nat
  BY <1>2, <1>3, FS_Subset, FS_CardinalityType
<1>6. Cardinality(nums \cup lost) = Cardinality(nums) + Cardinality(lost)
  <2>1. Cardinality(nums \cap lost) = 0
    BY <1>2, FS_EmptySet
  <2>2. Cardinality(nums \cup lost) = Cardinality(nums) + Cardinality(lost) - Cardinality(nums \cap lost)
    BY <1>5, FS_Union
  <2> QED BY <1>5, <2>1, <2>2
<1>7. Cardinality(nums \cup lost) <= Len(Lines)
  BY <1>2, <1>3, FS_Subset
<1> QED BY <1>3, <1>4, <1>5, <1>6, <1>7 DEF AtLeast, lost

LEMMA DoneLossIsKnown ==
    ASSUME IngestInv, ParserDone, file.body = "lines"
    PROVE  LET lost == NonBlank \ Held IN
           \/ Cardinality(lost) <= unparsed
           \/ /\ fmt = "csv"
              /\ Cardinality({i \in lost : ~InCell(i)}) <= unparsed + 1 \/ Lines[1] = "blank"
           \/ fmt = "html"
           \/ fmt = "windows_event_text" /\ Route # "console" /\ \A i \in lost, j \in Held : i < j
<1> DEFINE lost == NonBlank \ Held
           rows == {i \in lost : ~InCell(i)}
<1>1. Cardinality({}) = 0 /\ unparsed \in Nat
  BY FS_EmptySet, FilesAndPlaces
<1>2. CASE fmt \in LineFormats
  <2>1. /\ records = {Rec(i) : i \in Text(fmt, End)}
        /\ Cardinality({i \in NonBlank : i < End} \ Text(fmt, End)) <= unparsed
    BY <1>2, DoneAtEnd DEF UniversalAt, TextAt
  <2>2. {i \in NonBlank : i < End} = NonBlank
    BY FilesAndPlaces
  <2> QED BY <2>1, <2>2, LineOfRecs
<1>3. CASE fmt = "csv"
  <2>1. Lines[1] = "blank" \/ Rows(End) \subseteq Held
    BY <1>3, DoneAtEnd DEF UniversalAt, CsvAt
  <2>2. Rows(End) \subseteq Held => rows \subseteq {1}
    BY DoneAtEnd, FilesAndPlaces DEF Rows, NonBlank, RowStarts
  <2>3. IsFiniteSet({1}) /\ Cardinality({1}) = 1
    BY FS_Singleton
  <2> HIDE DEF rows
  <2>4. rows \subseteq {1} => Cardinality(rows) <= 1 /\ Cardinality(rows) \in Nat
    BY <2>3, FS_Subset, FS_CardinalityType
  <2> QED BY <1>1, <1>3, <2>1, <2>2, <2>4 DEF rows
<1>4. CASE fmt \in DocumentFormats /\ fmt # "html"
  <2>1. fmt = "json"
    BY <1>4, DoneAtEnd DEF Raises, DocumentFormats
  <2>2. ItemsOf(fmt) = <<NonBlank>>
    BY <2>1 DEF ItemsOf, JsonItems
  <2>3. [n |-> 1, lines |-> NonBlank] \in records
    BY <1>4, <2>2, DocumentHas DEF ItemRecs
  <2>4. lost = {}
    BY <2>3 DEF Held
  <2> QED BY <1>1, <2>4
<1>5. CASE fmt = "windows_event_text"
  <2>1. WindowsAt(End) /\ ~event.open /\ event.lines = {} /\ End = Len(Lines) + 1 /\ Len(Lines) \in Nat
    BY <1>5, DoneAtEnd, FilesAndPlaces DEF ParserDone
  <2>2. CASE Route # "console"
    <3>1. \A i \in Lost(End), j \in Held \cup event.lines : i < j
      BY <2>1 DEF WindowsAt
    <3>2. Lost(End) = lost
      BY <2>1, FilesAndPlaces DEF Lost
    <3> QED BY <1>5, <2>2, <3>1, <3>2
  <2>3. CASE Route = "console"
    <3>1. \/ unparsed = 0 /\ NonBlank = {}
          \/ unparsed = AtLeast(0, total - Cardinality(records)) /\ total = Len(Lines)
      BY <2>1, <2>3 DEF WindowsAt
    <3>2. NonBlank = {} => lost = {}
      OBVIOUS
    <3>3. Cardinality(lost) <= AtLeast(0, Len(Lines) - Cardinality(records))
      BY <1>5, WindowsHolds
    <3>4. CASE unparsed = 0 /\ NonBlank = {}
      BY <1>1, <3>2, <3>4
    <3>5. CASE unparsed = AtLeast(0, total - Cardinality(records)) /\ total = Len(Lines)
      <4>1. unparsed = AtLeast(0, Len(Lines) - Cardinality(records))
        BY <3>5, Zenon
      <4> HIDE DEF lost
      <4> QED BY <3>3, <4>1 DEF lost
    <3> QED BY <3>1, <3>4, <3>5
  <2> QED BY <2>2, <2>3
<1>6. CASE fmt \notin Formats
  <2>1. lost = {}
    BY <1>6, DoneAtEnd, FilesAndPlaces
  <2> QED BY <1>1, <2>1
<1>7. CASE fmt = "html"
  BY <1>7
<1> QED BY <1>2, <1>3, <1>4, <1>5, <1>6, <1>7 DEF Formats

LEMMA AFirstLine ==
    ASSUME IngestInv, NonBlank # {}
    PROVE  FirstLine(NonBlank) \in NonBlank /\ \A j \in NonBlank : FirstLine(NonBlank) <= j
<1>1. NonBlank \subseteq Nat
  BY FilesAndPlaces
<1>2. PICK i \in NonBlank : \A j \in NonBlank : <<j, i>> \notin OpToRel(<, Nat)
  BY <1>1, NatLessThanWellFounded, WFMin
<1>3. \A j \in NonBlank : i <= j
  <2> SUFFICES ASSUME NEW j \in NonBlank PROVE i <= j
    OBVIOUS
  <2>1. i \in Nat /\ j \in Nat
    BY <1>1
  <2>2. ~(j < i)
    BY <1>2, <2>1, Zenon DEF OpToRel
  <2> QED BY <2>1, <2>2
<1> QED BY <1>3 DEF FirstLine

(* One JSON value, spread over the lines of the file or not: its record is   *)
(* numbered one, and the lines before it are blank.                          *)
LEMMA OneValue ==
    ASSUME IngestInv, NonBlank # {}
    PROVE  1 + Uncounted(FirstLine(NonBlank)) = FirstLine(NonBlank)
<1> DEFINE k == FirstLine(NonBlank)
<1>1. /\ k \in NonBlank /\ k \in DOMAIN Lines /\ k \in Nat /\ k >= 1 /\ \A j \in NonBlank : k <= j
      /\ DOMAIN Lines = 1..Len(Lines) /\ Len(Lines) \in Nat
  BY AFirstLine, FilesAndPlaces
<1> HIDE DEF k
<1>2. {j \in DOMAIN Lines : j < k /\ (Lines[j] = "blank" \/ InCell(j))} = 1..(k - 1)
  BY <1>1 DEF NonBlank
<1>3. Cardinality(1..(k - 1)) = k - 1
  <2>1. k - 1 \in Int /\ k - 1 >= 0
    BY <1>1
  <2>2. \A n \in Int : Cardinality(1..n) = IF 1 > n THEN 0 ELSE n - 1 + 1
    BY FS_Interval
  <2> QED BY <2>1, <2>2
<1>4. Uncounted(k) = k - 1
  BY <1>2, <1>3 DEF Uncounted
<1> QED BY <1>1, <1>4 DEF k

LEMMA DoneLinesAreTrue ==
    ASSUME IngestInv, ParserDone, NEW r \in records, r.lines # {}
    PROVE  \/ r.n = FirstLine(r.lines)
           \/ fmt \in {"csv", "json"} /\ r.n + Uncounted(FirstLine(r.lines)) = FirstLine(r.lines)
           \/ fmt \in {"json", "xml", "html"} /\ fmt = file.body
                /\ (file.items = <<>> \/ r.lines = {file.items[r.n]})
<1>1. CASE fmt \in LineFormats
  <2>1. PICK i \in Text(fmt, End) : r = Rec(i)
    BY <1>1, DoneAtEnd DEF UniversalAt, TextAt
  <2>2. r.n = i /\ r.lines = {i} /\ i \in Int
    BY <2>1, DoneAtEnd, FilesAndPlaces DEF Rec, Text
  <2> QED BY <2>2, FirstOfOne
<1>2. CASE fmt = "csv"
  <2>1. PICK i \in DOMAIN Lines : r.lines = RowAt(i) /\ r.n + Uncounted(i) = i
    BY <1>2, DoneAtEnd DEF UniversalAt, CsvAt
  <2>2. FirstLine(r.lines) = i
    BY <2>1, RowBegins
  <2> QED BY <1>2, <2>1, <2>2
<1>3. CASE fmt \in DocumentFormats
  <2>1. PICK i \in DOMAIN ItemsOf(fmt) : r = [n |-> i, lines |-> ItemsOf(fmt)[i]]
    BY <1>3, DocumentHas DEF ItemRecs
  <2>2. r.n = i /\ r.lines = ItemsOf(fmt)[i]
    BY <2>1
  <2>3. CASE fmt = "json" /\ file.body # "json"
    <3>1. ItemsOf(fmt) = <<NonBlank>> /\ i = 1
      BY <2>1, <2>3 DEF ItemsOf, JsonItems
    <3>2. r.n = 1 /\ r.lines = NonBlank
      BY <2>2, <3>1
    <3> QED BY <2>3, <3>2, OneValue
  <2>4. CASE fmt = file.body /\ fmt # "evtx" /\ file.items # <<>>
    <3>1. ItemsOf(fmt) = Items
      BY <1>3, <2>4 DEF ItemsOf, JsonItems, XmlItems, HtmlItems, DocumentFormats
    <3>2. r.lines = {file.items[i]}
      BY <2>1, <2>2, <3>1 DEF Items
    <3> QED BY <1>3, <2>2, <2>4, <3>2 DEF DocumentFormats
  <2>5. CASE fmt = file.body /\ fmt # "evtx" /\ file.items = <<>>
    BY <1>3, <2>5 DEF DocumentFormats
  <2>6. CASE fmt = "evtx"
    BY <2>1, <2>2, <2>6 DEF ItemsOf, EvtxItems
  <2>7. CASE fmt = "html" /\ file.body # "html"
    BY <2>1, <2>7 DEF ItemsOf, HtmlItems
  <2>8. fmt = "xml" => file.body = "xml"
    BY DoneAtEnd DEF Raises
  <2> QED BY <1>3, <2>3, <2>4, <2>5, <2>6, <2>7, <2>8 DEF DocumentFormats
<1>4. CASE fmt = "windows_event_text"
  BY <1>4, DoneAtEnd DEF WindowsAt
<1>5. CASE fmt \notin Formats
  BY <1>5, DoneAtEnd
<1> QED BY <1>1, <1>2, <1>3, <1>4, <1>5 DEF Formats

LEMMA UniversalDoneKeeps ==
    ASSUME IngestInv, UniversalDone
    PROVE  IngestInv'
<1>1. ParserDone /\ pc = "universal" /\ event = NoEvent
  BY DoneAtEnd DEF UniversalDone, ParserDone
<1>2. /\ NotKept /\ ~Raises(fmt)
      /\ Route = "console" => fmt = Displayed
      /\ Route # "console" => \/ fmt = Chosen /\ fmt # "generic_text"
                              \/ Route = "force" /\ fmt = "generic_text" /\ Fallen
  BY <1>1, FilesAndPlaces DEF Reading
<1>3. Numbers(records) = Nums(fmt)
  BY <1>1, DoneHas
<1>4. CASE /\ Route = "console" \/ Parsed > 0 \/ fmt = "generic_text"
           /\ pc' = "loaded"
           /\ UNCHANGED <<file, mode, phase, fmt, pos, records, total, unparsed, event, native, report>>
  <2>1. Route = "console" => Numbers(records) = ConsoleNums
    BY <1>2, <1>3 DEF NotKept, ConsoleNums
  <2>2. phase = "analysis" => Made(Stats)
    <3>1. CASE mode = "console"
      BY <2>1, <3>1 DEF Made, Stats, Route
    <3>2. CASE mode # "console" /\ phase = "analysis"
      <4>1. Route = mode /\ NRecords = {}
        BY <1>2, <3>2 DEF Route, NotKept
      <4> QED BY <1>2, <1>3, <3>2, <4>1 DEF Made, Stats
    <3> QED BY <3>1, <3>2
  <2>3. Made(Stats) => Made(Stats)'
    BY <1>4, FileStays DEF Made, Stats
  <2>4. Numbers(records)' = Numbers(records) /\ Held' = Held
    BY <1>4 DEF Numbers, Held
  <2>5. phase = "display" => Numbers(records)' = ConsoleNums'
    BY <2>1, <2>4, FileStays, <1>4 DEF Route
  <2>6. Reading'
    BY <1>1, <1>4, <2>2, <2>3, <2>5 DEF Reading
  <2>7. IngestTypeOK'
    BY <1>4, FilesAndPlaces DEF IngestTypeOK
  <2>8. LossIsKnown'
    <3>1. file.body = "lines" =>
             LET lost == NonBlank \ Held IN
             \/ Cardinality(lost) <= unparsed
             \/ /\ fmt = "csv"
                /\ Cardinality({i \in lost : ~InCell(i)}) <= unparsed + 1 \/ Lines[1] = "blank"
             \/ fmt = "html"
             \/ fmt = "windows_event_text" /\ Route # "console" /\ \A i \in lost, j \in Held : i < j
      BY <1>1, DoneLossIsKnown
    <3>2. Route' = Route
      BY <1>4 DEF Route
    <3> QED BY <1>4, <2>4, <3>1, <3>2, FileStays DEF LossIsKnown
  <2>9. LinesAreTrue'
    <3>1. \A r \in records : r.lines # {} =>
             \/ r.n = FirstLine(r.lines)
             \/ fmt \in {"csv", "json"} /\ r.n + Uncounted(FirstLine(r.lines)) = FirstLine(r.lines)
             \/ fmt \in {"json", "xml", "html"} /\ fmt = file.body
                  /\ (file.items = <<>> \/ r.lines = {file.items[r.n]})
      BY <1>1, DoneLinesAreTrue
    <3> QED BY <1>4, <3>1, FileStays DEF LinesAreTrue, FirstLine
  <2> QED BY <1>1, <1>4, <2>6, <2>7, <2>8, <2>9, FilesAndPlaces, ShownStays DEF IngestInv
<1>5. CASE Route # "console" /\ ~(Parsed > 0) /\ fmt # "generic_text" /\ Unrecognized
  <2>1. records = {}
    BY <1>5, FilesAndPlaces, FS_EmptySet, FS_CardinalityType DEF Parsed
  <2>2. Nums(Chosen) = {}
    BY <1>2, <1>3, <1>5, <2>1 DEF Numbers
  <2> QED BY <1>1, <1>5, <2>2, UnrecognizedKeeps DEF Fallen
<1> QED BY <1>4, <1>5 DEF UniversalDone, counts

LEMMA ReportKeeps ==
    ASSUME IngestInv, Report
    PROVE  IngestInv'
<1>1. /\ pc = "loaded" /\ phase = "analysis" /\ report' = Stats /\ phase' = "display"
      /\ pc' = IF Parsed > 0 THEN "sniff" ELSE "shown"
      /\ pos' = 1 /\ records' = {} /\ total' = 0 /\ unparsed' = 0
      /\ UNCHANGED <<file, mode, event, native>>
  BY DEF Report
<1>2. event = NoEvent /\ Made(Stats)
  BY <1>1, FilesAndPlaces DEF Reading
<1>3. Made(report)'
  BY <1>1, <1>2, FileStays DEF Made
<1>4. Parsed > 0 => Stats.records # {}
  BY FS_EmptySet DEF Parsed, Stats
<1>5. Shown'
  BY <1>1, <1>3, <1>4 DEF Shown
<1>6. Reading'
  BY <1>1, <1>2 DEF Reading
<1>7. IngestTypeOK'
  BY <1>1, FilesAndPlaces, FS_EmptySet DEF IngestTypeOK
<1> QED BY <1>1, <1>5, <1>6, <1>7 DEF IngestInv, LossIsKnown, LinesAreTrue

LEMMA ShowKeeps ==
    ASSUME IngestInv, Show
    PROVE  IngestInv'
<1>1. /\ pc = "loaded" /\ phase = "display" /\ pc' = "shown"
      /\ UNCHANGED <<file, mode, phase, fmt, pos, records, total, unparsed, event, native, report>>
  BY DEF Show, counts
<1>2. Reading' /\ IngestTypeOK'
  BY <1>1, FilesAndPlaces DEF Reading, IngestTypeOK
<1> QED BY <1>1, <1>2, FilesAndPlaces, ElsewhereHolds

LEMMA WindowsLineKeeps ==
    ASSUME IngestInv, ReadWindowsLine
    PROVE  IngestInv'
BY WindowsStampKeeps, WindowsTextKeeps, WindowsBlankKeeps DEF ReadWindowsLine

LEMMA NativeKindsAre ==
    /\ \A f \in {"canonical", "logcat", "rfc5424"} \cup Loghub : NativeKinds(f) = {f}
    /\ NativeKinds("iso8601_syslog") = {"iso8601"}
    /\ NativeKinds("jsonlog") = {"event", "object"}
    /\ NativeKinds("log360_syslog") = {"envelope"}
    /\ NativeKinds("rfc3164") = {"syslog"}
    /\ NativeKinds("log360_csv") = {"row", "log360Header"}
    /\ NativeKinds("auth_csv") = {"row", "authHeader"}
    /\ \A f : f \notin TableFormats => "blank" \notin NativeKinds(f)
BY DEF NativeKinds, TableFormats, Loghub, LoghubOrder

LEMMA NativeKeeps ==
    ASSUME IngestInv, Native
    PROVE  IngestInv'
<1>2. ASSUME NEW f \in {"canonical", "logcat", "iso8601_syslog", "log360_syslog", "rfc3164"} \cup Loghub,
             f \in MonthFormats => ~NRaises, NativeLine(f, NativeKinds(f), TRUE)
      PROVE  IngestInv'
  <2>1. f \notin TableFormats /\ Counts(f)
    BY <1>2 DEF TableFormats, Counts, Loghub, LoghubOrder
  <2> QED BY <1>2, <2>1, NativeKindsAre, NativeLineKeeps
<1>3. ASSUME NEW f \in {"rfc5424", "jsonlog"}, NativeLine(f, NativeKinds(f), FALSE)
      PROVE  IngestInv'
  <2>1. f \notin TableFormats /\ ~Counts(f) /\ f \notin MonthFormats
    BY <1>3 DEF TableFormats, Counts, MonthFormats
  <2> QED BY <1>3, <2>1, NativeKindsAre, NativeLineKeeps
<1>4. CASE CanonicalLine
  <2>1. NativeLine("canonical", NativeKinds("canonical"), TRUE)
    BY <1>4, NativeKindsAre DEF CanonicalLine
  <2> QED BY <1>2, <2>1 DEF MonthFormats
<1>5. CASE LogcatLine
  <2>1. NativeLine("logcat", NativeKinds("logcat"), TRUE)
    BY <1>5, NativeKindsAre DEF LogcatLine
  <2> QED BY <1>2, <2>1 DEF MonthFormats
<1>6. CASE Iso8601Line
  <2>1. NativeLine("iso8601_syslog", NativeKinds("iso8601_syslog"), TRUE)
    BY <1>6, NativeKindsAre DEF Iso8601Line
  <2> QED BY <1>2, <2>1 DEF MonthFormats
<1>7. CASE Rfc5424Line
  BY <1>3, <1>7, NativeKindsAre DEF Rfc5424Line
<1>8. CASE JsonlogLine
  BY <1>3, <1>8, NativeKindsAre DEF JsonlogLine
<1>9. CASE Log360Envelope
  <2>1. NativeLine("log360_syslog", NativeKinds("log360_syslog"), TRUE)
    <3>1. NativeKinds("log360_syslog") = {"envelope"}
      BY NativeKindsAre
    <3> QED BY <1>9, <3>1 DEF Log360Envelope
  <2>2. SniffFormat = "log360_syslog"
    BY <1>9, NativeReads DEF Log360Envelope, NativeLine
  <2>3. ~NRaises
    BY <1>9, <2>2 DEF Log360Envelope, NRaises
  <2> QED BY <1>2, <2>1, <2>3
<1>10. CASE LoghubLine
  <2>1. PICK f \in Loghub : NativeLine(f, {f}, TRUE)
    BY <1>10 DEF LoghubLine
  <2>2. f \notin MonthFormats
    BY DEF Loghub, LoghubOrder, MonthFormats
  <2>3. NativeKinds(f) = {f}
    BY NativeKindsAre
  <2> QED BY <1>2, <2>1, <2>2, <2>3
<1>11. CASE Rfc3164Line
  <2>1. SniffFormat = "rfc3164" /\ ~NRaises
    <3>1. SniffFormat = "rfc3164"
      BY <1>11, NativeReads DEF Rfc3164Line, NativeLine
    <3> QED BY <1>11, <3>1 DEF Rfc3164Line, NRaises
  <2>2. NativeLine("rfc3164", NativeKinds("rfc3164"), TRUE)
    BY <1>11, NativeKindsAre DEF Rfc3164Line
  <2> QED BY <1>2, <2>1, <2>2
<1>12. CASE Log360Row
  BY <1>12, NativeKindsAre, TableLineKeeps DEF Log360Row, TableFormats
<1>13. CASE AuthRow
  BY <1>13, NativeKindsAre, TableLineKeeps DEF AuthRow, TableFormats
<1> QED BY <1>4, <1>5, <1>6, <1>7, <1>8, <1>9, <1>10, <1>11, <1>12, <1>13,
           LoadNothingKeeps, MonthRaisesKeeps, NativeDoneKeeps DEF Native

LEMMA UniversalKeeps ==
    ASSUME IngestInv, Universal
    PROVE  IngestInv'
<1>1. CASE TextLine \/ ForcedTextLine
  <2>1. PICK missed \in SUBSET Kinds : LineOf("generic_text", Kinds, missed)
    BY <1>1 DEF TextLine, ForcedTextLine, Kinds
  <2>2. LineKinds("generic_text") = Kinds \ {"blank"} /\ "generic_text" \in LineFormats
    BY DEF LineKinds, LineFormats
  <2>3. \A kind \in Kinds : kind \in LineKinds("generic_text") \cup missed \cup {"blank"}
    BY <2>2
  <2> QED BY <2>1, <2>2, <2>3, LineOfKeeps
<1>2. CASE CbsLine
  <2> DEFINE missed == Kinds \ {"cbs", "blank"}
  <2>1. LineOf("windows_cbs", {"cbs"}, missed)
    BY <1>2 DEF CbsLine
  <2>2. LineKinds("windows_cbs") = {"cbs"} \ {"blank"} /\ "windows_cbs" \in LineFormats
    BY DEF LineKinds, LineFormats
  <2>3. \A kind \in Kinds : kind \in LineKinds("windows_cbs") \cup missed \cup {"blank"}
    BY <2>2
  <2> HIDE DEF missed
  <2> QED BY <2>1, <2>2, <2>3, LineOfKeeps
<1>3. CASE JsonLine \/ UniversalJsonLine
  <2> DEFINE missed == Kinds \ (Json \cup {"blank"})
  <2>1. LineOf("jsonl", Json, missed)
    BY <1>3 DEF JsonLine, UniversalJsonLine
  <2>2. LineKinds("jsonl") = Json \ {"blank"} /\ "jsonl" \in LineFormats
    BY DEF LineKinds, LineFormats, Json
  <2>3. \A kind \in Kinds : kind \in LineKinds("jsonl") \cup missed \cup {"blank"}
    BY <2>2
  <2> HIDE DEF missed
  <2> QED BY <2>1, <2>2, <2>3, LineOfKeeps
<1>4. CASE \/ JsonDocument \/ UniversalJsonDocument \/ XmlDocument \/ UniversalXmlDocument
           \/ HtmlDocument \/ UniversalHtmlDocument \/ EvtxDocument \/ UniversalEvtxDocument
  <2>1. \E f \in DocumentFormats : \E lines : ReadDocument(f, ItemsOf(f), lines)
    BY <1>4 DEF JsonDocument, UniversalJsonDocument, XmlDocument, UniversalXmlDocument, HtmlDocument,
                UniversalHtmlDocument, EvtxDocument, UniversalEvtxDocument, DocumentFormats, ItemsOf
  <2> QED BY <2>1, ReadDocumentKeeps
<1>5. CASE CsvRow \/ UniversalCsvRow
  BY <1>5, ReadRowKeeps DEF CsvRow, UniversalCsvRow
<1>6. CASE WindowsLine \/ UniversalWindowsLine
  BY <1>6, WindowsLineKeeps DEF WindowsLine, UniversalWindowsLine
<1>7. CASE WindowsEnd
  <2> DEFINE missed == AtLeast(0, total - Cardinality(Flushed))
  <2>1. ReadWindowsEnd(missed)
    BY <1>7 DEF WindowsEnd
  <2>2. missed \in Nat
    <3>1. WindowsAt(pos) /\ pos \in Nat
      BY <2>1, WindowsReads, FilesAndPlaces DEF ReadWindowsEnd
    <3>2. total = pos - 1 /\ Cardinality(Flushed) \in Nat
      BY <2>1, <3>1, FlushedIs, FS_CardinalityType DEF ReadWindowsEnd, WindowsAt
    <3> QED BY <3>1, <3>2 DEF AtLeast
  <2> HIDE DEF missed
  <2> QED BY <2>1, <2>2, WindowsEndKeeps DEF missed
<1>8. CASE UniversalWindowsEnd
  BY <1>8, WindowsEndKeeps DEF UniversalWindowsEnd
<1> QED BY <1>1, <1>2, <1>3, <1>4, <1>5, <1>6, <1>7, <1>8, DetectKeeps, UniversalDoneKeeps DEF Universal

LEMMA IngestStutters ==
    ASSUME IngestInv, UNCHANGED vars
    PROVE  IngestInv'
<1>1. UNCHANGED <<file, mode, phase, pc, fmt, pos, records, total, unparsed, event, native, report>>
  BY DEF vars, counts
<1>2. Route' = Route /\ Numbers(records)' = Numbers(records) /\ Held' = Held /\ Parsed' = Parsed
      /\ Stats' = Stats
  BY <1>1 DEF Route, Numbers, Held, Parsed, Stats
<1>3. \A p : /\ Lost(p)' = Lost(p)
             /\ CurrentAt(p) => CurrentAt(p)'
  BY <1>1, <1>2, FileStays DEF Lost, CurrentAt
<1>4. \A p : WindowsAt(p) => WindowsAt(p)'
  BY <1>1, <1>2, <1>3, FileStays DEF WindowsAt
<1>5. /\ \A f, p : TextAt(f, p) => TextAt(f, p)'
      /\ \A p : CsvAt(p) => CsvAt(p)'
      /\ \A f, p : DocumentAt(f, p) => DocumentAt(f, p)'
  <2>1. \A f, p : TextAt(f, p) => TextAt(f, p)'
    BY <1>1, FileStays DEF TextAt
  <2>2. \A p : CsvAt(p) => CsvAt(p)'
    BY <1>1, <1>2, FileStays DEF CsvAt
  <2>3. \A f, p : DocumentAt(f, p) => DocumentAt(f, p)'
    BY <1>1, FileStays DEF DocumentAt, ItemRecs
  <2> QED BY <2>1, <2>2, <2>3
<1>6. UniversalAt(fmt, pos) => UniversalAt(fmt, pos)'
  BY <1>1, <1>4, <1>5 DEF UniversalAt
<1>7. NativeAt(fmt, pos) => NativeAt(fmt, pos)'
  BY <1>1, NativeStays DEF counts
<1>8. NativeAt(fmt, End) => NativeAt(fmt, End)'
  BY <1>1, FileStays DEF NativeAt, Counts
<1>9. NotKept => NotKept'
  BY <1>1, NotKeptStays
<1>10. Made(Stats) => Made(Stats)'
  BY <1>1, <1>2, FileStays DEF Made
<1>11. Reading'
  BY <1>1, <1>2, <1>6, <1>7, <1>8, <1>9, <1>10, FilesAndPlaces, FileStays DEF Reading
<1>12. IngestTypeOK'
  BY <1>1, FilesAndPlaces DEF IngestTypeOK
<1>13. Shown'
  BY <1>1, FilesAndPlaces, FileStays DEF Shown, Made
<1>14. LossIsKnown'
  BY <1>1, <1>2, FileStays DEF IngestInv, LossIsKnown
<1>15. LinesAreTrue'
  BY <1>1, FileStays DEF IngestInv, LinesAreTrue, FirstLine
<1> QED BY <1>11, <1>12, <1>13, <1>14, <1>15 DEF IngestInv

LEMMA IngestInit == Init => IngestInv
<1> SUFFICES ASSUME Init
             PROVE  IngestInv
  OBVIOUS
<1>1. /\ file \in Files /\ mode \in Modes /\ phase = "analysis" /\ pc = "run" /\ pos = 1
      /\ records = {} /\ total = 0 /\ unparsed = 0 /\ event = NoEvent
  BY DEF Init
<1>2. IngestTypeOK
  BY <1>1, FS_EmptySet DEF IngestTypeOK
<1> QED BY <1>1, <1>2 DEF IngestInv, Reading, Shown, LossIsKnown, LinesAreTrue

LEMMA IngestNext == IngestInv /\ [Next]_vars => IngestInv'
BY IngestStutters, RunKeeps, SniffKeeps, NativeKeeps, KeepNativeKeeps, GoUniversalKeeps,
   UniversalKeeps, ReportKeeps, ShowKeeps DEF Next

LEMMA IngestHolds == Spec => []IngestInv
BY IngestInit, IngestNext, PTL DEF Spec

LEMMA ShownIsMade ==
    ASSUME IngestInv
    PROVE  EventsMatchReport
<1> SUFFICES ASSUME pc = "loaded", phase = "display"
             PROVE  \/ Numbers(records) = Numbers(report.records)
                    \/ /\ mode # "console" /\ report.format = SniffFormat
                       /\ 10 * Cardinality(report.records) < 6 * report.total
                    \/ mode = "force" /\ report.format = "generic_text" /\ records = {}
  BY DEF EventsMatchReport
<1>1. Numbers(records) = ConsoleNums /\ Made(report) /\ report.records # {}
  BY FilesAndPlaces DEF Reading, Shown
<1>2. CASE mode = "console"
  BY <1>1, <1>2 DEF Made
<1>3. CASE /\ mode # "console"
           /\ report.format = SniffFormat /\ report.records = NRecords /\ report.total = NTotal /\ ~NRaises
  <2>1. CASE KeptC
    BY <1>1, <1>3, <2>1 DEF ConsoleNums
  <2>2. CASE ~KeptC
    <3>1. IsFiniteSet(NRecords) /\ IsFiniteSet(Met(SniffFormat, End))
      <4>1. IsFiniteSet(Use(SniffFormat, End)) /\ IsFiniteSet(Met(SniffFormat, End))
        BY FilesAndPlaces, FS_Subset DEF Use, Met
      <4> QED BY <4>1, NativeRecsFinite DEF NRecords
    <3>2. Cardinality(NRecords) \in Nat /\ Cardinality(NRecords) # 0 /\ NTotal \in Nat
      BY <1>1, <1>3, <3>1, FS_EmptySet, FS_CardinalityType DEF NTotal
    <3> QED BY <1>3, <2>2, <3>2 DEF KeptC
  <2> QED BY <2>1, <2>2
<1>4. CASE NRecords = {} /\ ~Raises(Chosen) /\ Numbers(report.records) = Nums(Chosen)
  <2>1. ~KeptC
    BY <1>4, FS_EmptySet DEF KeptC
  <2> QED BY <1>1, <1>4, <2>1 DEF ConsoleNums, Displayed
<1>5. CASE /\ mode = "force" /\ report.format = "generic_text" /\ NRecords = {} /\ Fallen
           /\ Numbers(report.records) = Nums("generic_text")
  <2>1. ~KeptC
    BY <1>5, FS_EmptySet DEF KeptC
  <2>2. CASE Raises(Chosen) \/ Chosen = "generic_text"
    BY <1>1, <1>5, <2>1, <2>2 DEF ConsoleNums, Displayed
  <2>3. CASE ~Raises(Chosen) /\ Nums(Chosen) = {}
    <3>1. Numbers(records) = {}
      BY <1>1, <2>1, <2>3 DEF ConsoleNums, Displayed
    <3>2. records = {}
      BY <3>1 DEF Numbers
    <3> QED BY <1>5, <3>2
  <2> QED BY <1>5, <2>2, <2>3 DEF Fallen
<1> QED BY <1>1, <1>2, <1>3, <1>4, <1>5 DEF Made

(* "Lines that match neither are counted and surfaced -- never silently      *)
(* dropped" (normalize.py:28): whatever the file, the route and how far the  *)
(* sniffers look, the lines no record holds are counted, but for the         *)
(* exceptions the property names.                                            *)
THEOREM LossStaysKnown == Spec => []LossIsKnown
BY IngestHolds, PTL DEF IngestInv

(* The number of a record that holds lines is the physical line its raw text *)
(* begins at, whatever loader made it; a CSV row and a JSON value of a file  *)
(* of lines come short by the lines before them that are blank or go on with *)
(* a row; an item of a JSON, XML or HTML document has its place among the    *)
(* items.                                                                    *)
THEOREM NumbersAreLines == Spec => []LinesAreTrue
BY IngestHolds, PTL DEF IngestInv

(* The console loads a reported file again, its own way, and shows the lines *)
(* the report was made of, but where formats_universal kept a native parse   *)
(* of less than six lines in ten or forced text out of an empty document.    *)
THEOREM ConsoleShowsTheReport == Spec => []EventsMatchReport
BY IngestHolds, ShownIsMade, PTL
=============================================================================
