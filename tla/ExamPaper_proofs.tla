---------------------------- MODULE ExamPaper_proofs ----------------------------
(***************************************************************************)
(* What holds of ExamPaper for any bank, exam, editors and writers.        *)
(* Editing is about the lock on the row of the exam, Numbering about the   *)
(* numbers of answers, Attempting about the questions of the attempt, and  *)
(* Showing ties the page to the bank where nothing has been edited since.  *)
(***************************************************************************)
EXTENDS ExamPaper, FiniteSetTheorems, WellFoundedInduction, TLAPS

AnswerRow == [pc : {"free", "kept", "gone"}, ques : Questions \cup {NoQuestion}, aid : Nat,
              right : BOOLEAN]
EditState == [pc : {"idle", "changed", "locked", "counted", "done"}, add : SUBSET Questions,
              del : SUBSET Questions, num : Nat]
WriteState == [pc : {"idle", "read", "done"}, ques : Questions \cup {NoQuestion}, last : Nat]

\* Numbers chosen for questions.
IsChoice(f) ==
  /\ f = [q \in DOMAIN f |-> f[q]] /\ DOMAIN f \subseteq Questions
  /\ \A q \in DOMAIN f : f[q] \subseteq Nat /\ IsFiniteSet(f[q])

Shape ==
  /\ bank \subseteq Questions /\ ans \in [Answers -> AnswerRow]
  /\ type \in [Questions -> Types] /\ total_score \in Scores
  /\ exam = [total |-> exam.total, share |-> exam.share]
  /\ Paper \subseteq Questions /\ exam.share = [q \in Paper |-> exam.share[q]]
  /\ edit \in [Editors -> EditState] /\ write \in [Writers -> WriteState]
  /\ att = [pc |-> att.pc, list |-> att.list, mark |-> att.mark, total |-> att.total]
  /\ att.pc \in {"none", "read", "open", "graded", "done"} /\ att.list \subseteq Questions
  /\ IsChoice(row) /\ IsChoice(draft) /\ IsChoice(page.picked)
  /\ page = [loads |-> page.loads, ques |-> page.ques, type |-> page.type, aid |-> page.aid,
             right |-> page.right, picked |-> page.picked]
  /\ page.loads \in 0..MaxLoads /\ DOMAIN page.picked = page.ques
  /\ page.aid \in [Answers -> Nat] /\ page.right \subseteq Answers
  /\ touched \subseteq Questions /\ retyped \subseteq Questions /\ crossed \subseteq Questions
  /\ erased = [bank |-> erased.bank, exam |-> erased.exam]
  /\ erased.bank \subseteq Questions /\ erased.exam \subseteq erased.bank
  /\ erased.bank \cap bank = {}

\* What editors have not committed is apart, one at a time has the lock, and who has counted
\* knows the number of questions there will be.
Editing ==
  /\ \A e \in Editors :
       /\ edit[e].pc \in {"idle", "done"} => edit[e].add = {} /\ edit[e].del = {}
       /\ edit[e].add \subseteq bank \ Paper /\ edit[e].del \subseteq Paper
       /\ edit[e].pc = "counted" /\ erased.exam = {} => edit[e].num = Cardinality(PaperOf(e))
  /\ \A e, f \in Editors :
       e # f => edit[e].add \cap edit[f].add = {} /\ edit[e].del \cap edit[f].del = {}
  /\ \A e, f \in Under({"locked", "counted"}) : e = f
  /\ Paper \subseteq bank

Used == {a \in Answers : ans[a].pc # "free"}

\* The numbers of the answers, and how far a number that was read may be from them.
Numbering ==
  /\ \A q \in Questions \ crossed : {ans[a].aid : a \in Kept(q)} = 1..Cardinality(Kept(q))
  /\ \A q \in Questions : \A a, b \in Kept(q) : ans[a].aid = ans[b].aid => a = b
  /\ \A a \in Answers :
       /\ ans[a].pc = "free" => ans[a].ques = NoQuestion
       /\ ans[a].pc = "kept" => ans[a].ques \in Questions /\ ans[a].aid \in 1..Cardinality(Used)
  /\ \A w \in Writers : write[w].pc = "read" =>
       /\ write[w].ques \in Questions /\ write[w].last <= Cardinality(Used)
       /\ write[w].ques \in bank \ crossed => write[w].last <= Cardinality(Kept(write[w].ques))

Attempting ==
  /\ AttemptKeepsItsPaper /\ DOMAIN row \subseteq bank
  /\ att.pc \in {"none", "read"} => page.loads = 0
  /\ page.loads = 0 => page.ques = {}
  /\ page.loads > 0 => att.list \ erased.bank \subseteq page.ques /\ page.ques \subseteq att.list
  /\ att.pc = "graded" => page.loads > 0 /\ page.ques \subseteq bank

\* What the page shows of a question nobody has edited since is what there is.
Showing ==
  /\ \A q \in page.ques \ touched : \A a \in Answers : ans[a].ques = q =>
       /\ page.aid[a] = IF ans[a].pc = "kept" THEN ans[a].aid ELSE 0
       /\ a \in page.right <=> ans[a].pc = "kept" /\ ans[a].right
  /\ \A q \in page.ques \ retyped : page.type[q] = type[q]

IInv == Shape /\ Editing /\ Numbering /\ Attempting /\ Showing /\ ExamAddsUp /\ GradedAsShown

\* The score is bounded by what the attempt has read: until a question is removed from the
\* exam, its questions are in the exam or have left it with their rows of the bank, and the
\* counter counts both.
Scoring ==
  /\ left \in BOOLEAN
  /\ att.pc \in {"read", "open", "graded"} /\ ~left => att.list \subseteq Paper \cup erased.exam
  /\ att.pc \in {"graded", "done"} => \A q \in page.ques : att.mark[q] \in 0..Unit
  /\ att.pc = "done" /\ ~left => att.total \in Nat /\ Cardinality(page.ques) <= att.total

------------------------------------------------------------------------------
(* Facts about sets *)

LEMMA MaxOfBounded ==
  ASSUME NEW N \in Nat, NEW S \in SUBSET (0..N), S # {}
  PROVE  Max(S) \in S /\ \A y \in S : y <= Max(S)
<1> DEFINE T == {n \in Nat : N - n \in S}
<1>1. T \subseteq Nat /\ T # {}
  <2>1. PICK y \in S : TRUE  OBVIOUS
  <2>2. N - y \in Nat /\ N - (N - y) = y  BY <2>1
  <2> QED  BY <2>1, <2>2
<1>2. PICK n \in T : \A m \in T : ~ (m < n)
  <2> DEFINE R == OpToRel(<, Nat)
  <2>1. IsWellFoundedOn(R, Nat)  BY NatLessThanWellFounded
  <2>2. \A m, n \in Nat : m < n => <<m, n>> \in R  BY DEF OpToRel
  <2> HIDE DEF R, T
  <2>3. \E n \in T : \A m \in T : ~ (<<m, n>> \in R)  BY <1>1, <2>1, WFMin
  <2> QED  BY <1>1, <2>2, <2>3
<1>3. ASSUME NEW y \in S PROVE y <= N - n
  <2>1. N - y \in Nat /\ N - (N - y) = y  BY <1>3
  <2>2. N - y \in T  BY <1>3, <2>1
  <2> QED  BY <1>2, <1>3, <2>1, <2>2
<1>4. N - n \in S  BY <1>2
<1>5. \E x \in S : \A y \in S : x >= y  BY <1>3, <1>4
<1>6. Max(S) \in S /\ \A y \in S : Max(S) >= y  BY <1>5 DEF Max
<1> QED  BY <1>6

\* Numbers that are different for different elements are as many as the elements.
LEMMA ImageCardinality ==
  ASSUME NEW T, IsFiniteSet(T), NEW f, \A a, b \in T : f[a] = f[b] => a = b
  PROVE  /\ IsFiniteSet({f[a] : a \in T}) /\ Cardinality({f[a] : a \in T}) = Cardinality(T)
<1> DEFINE I == {f[a] : a \in T}
           g == [a \in T |-> f[a]]
<1>1. g \in [T -> I] /\ \A a \in T : g[a] = f[a]  OBVIOUS
<1>2. \A i \in I : \E a \in T : g[a] = i  OBVIOUS
<1>3. g \in Bijection(T, I)
  <2> HIDE DEF g, I
  <2>1. g \in Injection(T, I)  BY <1>1 DEF Injection, IsInjective
  <2>2. g \in Surjection(T, I)  BY <1>1, <1>2 DEF Surjection
  <2> QED  BY <2>1, <2>2 DEF Bijection
<1>4. ExistsBijection(T, I)  BY <1>3 DEF ExistsBijection
<1> QED  BY <1>4, FS_Bijection

LEMMA KeptFinite ==
  ASSUME NEW q
  PROVE  /\ Kept(q) \subseteq Answers /\ IsFiniteSet(Kept(q)) /\ Cardinality(Kept(q)) \in Nat
         /\ IsFiniteSet(Used) /\ Cardinality(Used) \in Nat
<1>1. Kept(q) \in SUBSET Answers /\ Used \in SUBSET Answers  BY DEF Kept, Used
<1> QED  BY <1>1, ConstantsAssumption, FS_Subset, FS_CardinalityType

LEMMA FiniteQuestions ==
  ASSUME NEW S \in SUBSET Questions
  PROVE  IsFiniteSet(S) /\ Cardinality(S) \in Nat
BY ConstantsAssumption, FS_Subset, FS_CardinalityType

LEMMA ShapeFields ==
  ASSUME Shape
  PROVE  /\ \A a \in Answers : /\ ans[a].pc \in {"free", "kept", "gone"} /\ ans[a].aid \in Nat
                               /\ ans[a].ques \in Questions \cup {NoQuestion}
                               /\ ans[a].right \in BOOLEAN
         /\ \A e \in Editors :
              /\ edit[e].pc \in {"idle", "changed", "locked", "counted", "done"}
              /\ edit[e].add \subseteq Questions /\ edit[e].del \subseteq Questions
              /\ edit[e].num \in Nat
         /\ \A w \in Writers : /\ write[w].pc \in {"idle", "read", "done"} /\ write[w].last \in Nat
                               /\ write[w].ques \in Questions \cup {NoQuestion}
         /\ Cardinality(Paper) \in Nat /\ Cardinality(erased.exam) \in Nat
<1>1. Paper \in SUBSET Questions /\ erased.exam \in SUBSET Questions  BY DEF Shape
<1> QED  BY <1>1, FiniteQuestions DEF Shape, AnswerRow, EditState, WriteState

------------------------------------------------------------------------------
(* Sums over finite sets.  MapThenSumSet takes the terms one by one, in the order CHOOSE      *)
(* gives; the function of all its partial sums is what the lemmas are about.                  *)

Some(s) == CHOOSE x \in s : TRUE
SumStep(f, g, s) == IF s = {} THEN 0 ELSE f[Some(s)] + g[s \ {Some(s)}]
Sums(f, g, S) == g = [s \in SUBSET S |-> SumStep(f, g, s)]

\* What holds of a set whenever it holds of the smaller ones holds of every finite set: there
\* is no smallest counterexample.  Good is a set and not an operator.
LEMMA SetInduction ==
  ASSUME NEW S, IsFiniteSet(S), NEW Good,
         \A T \in SUBSET S : (\A U \in SUBSET T : U # T => U \in Good) => T \in Good
  PROVE  SUBSET S \subseteq Good
<1> DEFINE Bad == (SUBSET S) \ Good
           R == StrictSubsetOrdering(S)
<1>1. IsWellFoundedOn(R, SUBSET S)
  BY FS_StrictSubsetOrderingWellFounded, FS_FiniteSubsetsOfFinite, Zenon
<1>2. SUFFICES ASSUME Bad # {} PROVE FALSE  OBVIOUS
<1>3. Bad \subseteq SUBSET S  OBVIOUS
<1>4. PICK T \in Bad : \A U \in Bad : ~(<<U, T>> \in R)
  <2> HIDE DEF Bad, R
  <2> QED  BY <1>1, <1>2, <1>3, WFMin
<1>5. \A U \in SUBSET T : U # T => U \in Good
  BY <1>4 DEF StrictSubsetOrdering
<1> QED  BY <1>4, <1>5

LEMMA SomeIn == \A s : s # {} => Some(s) \in s
BY DEF Some

\* There is one function that sums f, and what it is on a part of S is the sum of that part.
LEMMA SumsUnique ==
  ASSUME NEW S, IsFiniteSet(S), NEW f, NEW g, NEW h, Sums(f, g, S), Sums(f, h, S)
  PROVE  g = h
<1> DEFINE Good == {s \in SUBSET S : g[s] = h[s]}
<1>1. \A s \in SUBSET S : g[s] = SumStep(f, g, s) /\ h[s] = SumStep(f, h, s)
  BY DEF Sums
<1>2. ASSUME NEW T \in SUBSET S, \A U \in SUBSET T : U # T => U \in Good
      PROVE  T \in Good
  <2>1. CASE T = {}  BY <1>1, <2>1 DEF SumStep
  <2>2. CASE T # {}
    <3>1. T \ {Some(T)} \in Good  BY <1>2, <2>2, SomeIn
    <3> QED  BY <1>1, <2>2, <3>1 DEF SumStep
  <2> QED  BY <2>1, <2>2
<1>3. SUBSET S \subseteq Good
  <2> HIDE DEF Good
  <2> QED  BY <1>2, SetInduction
<1> QED  BY <1>3 DEF Sums

LEMMA SumsRestrict ==
  ASSUME NEW S, NEW f, NEW g, Sums(f, g, S), NEW T \in SUBSET S
  PROVE  Sums(f, [s \in SUBSET T |-> g[s]], T)
<1> DEFINE h == [s \in SUBSET T |-> g[s]]
<1>1. \A s \in SUBSET T : h[s] = SumStep(f, g, s)  BY DEF Sums
<1>2. \A s \in SUBSET T : SumStep(f, g, s) = SumStep(f, h, s)  BY DEF SumStep
<1> QED  BY <1>1, <1>2 DEF Sums

\* There is one: each part takes its sums from those of the smaller parts.
LEMMA SumsExist ==
  ASSUME NEW S, IsFiniteSet(S), NEW f
  PROVE  \E g : Sums(f, g, S)
<1> DEFINE Good == {T \in SUBSET S : \E g : Sums(f, g, T)}
<1>1. ASSUME NEW T \in SUBSET S, \A U \in SUBSET T : U # T => U \in Good
      PROVE  T \in Good
  <2> DEFINE Part(U) == CHOOSE g : Sums(f, g, U)
             Top(s) == IF s = {} THEN 0
                       ELSE f[Some(s)] + Part(s \ {Some(s)})[s \ {Some(s)}]
             g == [s \in SUBSET T |-> Top(s)]
  <2>1. \A U \in SUBSET T : U # T => Sums(f, Part(U), U)
    BY <1>1
  <2>2. ASSUME NEW U \in SUBSET T, U # T
        PROVE  Part(U)[U] = Top(U)
    <3>1. Sums(f, Part(U), U)  BY <2>1, <2>2
    <3> DEFINE P == Part(U)
               V == U \ {Some(U)}
    <3>2. P[U] = SumStep(f, P, U)
      <4> HIDE DEF P
      <4> QED  BY <3>1 DEF P, Sums
    <3>3. CASE U = {}  BY <3>2, <3>3 DEF SumStep
    <3>4. CASE U # {}
      <4>1. V \in SUBSET U /\ V # T  BY <2>2, <3>4, SomeIn
      <4>2. Sums(f, Part(V), V)  BY <2>1, <2>2, <4>1
      <4>3. Sums(f, [s \in SUBSET V |-> P[s]], V)
        <5> HIDE DEF P, V
        <5> QED  BY <3>1, <4>1, SumsRestrict DEF P
      <4>4. IsFiniteSet(V)  BY FS_Subset, <4>1
      <4>5. Part(V) = [s \in SUBSET V |-> P[s]]
        <5> HIDE DEF P, V, Part
        <5> QED  BY <4>2, <4>3, <4>4, SumsUnique
      <4>6. Part(V)[V] = P[V]
        <5> HIDE DEF P, V, Part
        <5> QED  BY <4>5
      <4> QED  BY <3>2, <3>4, <4>6 DEF SumStep
    <3> QED  BY <3>3, <3>4
  <2>3. \A s \in SUBSET T : Top(s) = SumStep(f, g, s)
    <3> SUFFICES ASSUME NEW s \in SUBSET T PROVE Top(s) = SumStep(f, g, s)  OBVIOUS
    <3>1. CASE s = {}  BY <3>1 DEF SumStep
    <3>2. CASE s # {}
      <4> DEFINE u == s \ {Some(s)}
      <4>1. u \in SUBSET T /\ u # T  BY <3>2, SomeIn
      <4>2. Part(u)[u] = g[u]
        <5>1. g[u] = Top(u)  BY <4>1
        <5> HIDE DEF g, Top, Part, u
        <5> QED  BY <2>2, <4>1, <5>1
      <4> HIDE DEF Part
      <4> QED  BY <3>2, <4>2 DEF SumStep
    <3> QED  BY <3>1, <3>2
  <2>4. Sums(f, g, T)
    <3> HIDE DEF Top
    <3>1. g = [s \in SUBSET T |-> SumStep(f, g, s)]  BY <2>3
    <3> QED  BY <3>1 DEF Sums
  <2> QED  BY <2>4
<1>2. SUBSET S \subseteq Good
  <2> HIDE DEF Good
  <2> QED  BY <1>1, SetInduction
<1> QED  BY <1>2

\* Terms from zero to k add up to no more than k for each.
LEMMA SumsBounded ==
  ASSUME NEW S, IsFiniteSet(S), NEW k \in Nat, NEW f, \A x \in S : f[x] \in 0..k,
         NEW g, Sums(f, g, S)
  PROVE  g[S] \in Nat /\ g[S] <= k * Cardinality(S)
<1> DEFINE Good == {s \in SUBSET S : g[s] \in Nat /\ g[s] <= k * Cardinality(s)}
<1>1. ASSUME NEW T \in SUBSET S, \A U \in SUBSET T : U # T => U \in Good
      PROVE  T \in Good
  <2>1. g[T] = SumStep(f, g, T)  BY DEF Sums
  <2>2. CASE T = {}  BY <2>1, <2>2, FS_EmptySet DEF SumStep
  <2>3. CASE T # {}
    <3>1. PICK x \in T : x = Some(T)  BY <2>3, SomeIn
    <3>2. T \ {x} \in Good  BY <1>1
    <3>3. IsFiniteSet(T)  BY FS_Subset
    <3>4. Cardinality(T) \in Nat /\ Cardinality(T \ {x}) = Cardinality(T) - 1
      BY <3>3, FS_RemoveElement, FS_CardinalityType
    <3>5. g[T] = f[x] + g[T \ {x}]  BY <2>1, <2>3, <3>1 DEF SumStep
    <3>6. PICK a, b, n : a = f[x] /\ b = g[T \ {x}] /\ n = Cardinality(T)  OBVIOUS
    <3>7. a \in 0..k /\ b \in Nat /\ n \in Nat /\ b <= k * (n - 1)
      BY <3>2, <3>4, <3>6
    <3>8. k * (n - 1) = k * n - k  BY <3>7
    <3>9. a + b \in Nat /\ a + b <= k * n  BY <3>7, <3>8
    <3> QED  BY <3>5, <3>6, <3>9
  <2> QED  BY <2>2, <2>3
<1>2. SUBSET S \subseteq Good
  <2> HIDE DEF Good
  <2> QED  BY <1>1, SetInduction
<1> QED  BY <1>2

\* Terms that are all the same.
LEMMA SumsConstant ==
  ASSUME NEW S, IsFiniteSet(S), NEW k \in Nat, NEW f, \A x \in S : f[x] = k,
         NEW g, Sums(f, g, S)
  PROVE  g[S] = k * Cardinality(S)
<1> DEFINE Good == {s \in SUBSET S : g[s] = k * Cardinality(s)}
<1>1. ASSUME NEW T \in SUBSET S, \A U \in SUBSET T : U # T => U \in Good
      PROVE  T \in Good
  <2>1. g[T] = SumStep(f, g, T)  BY DEF Sums
  <2>2. CASE T = {}  BY <2>1, <2>2, FS_EmptySet DEF SumStep
  <2>3. CASE T # {}
    <3>1. PICK x \in T : x = Some(T)  BY <2>3, SomeIn
    <3>2. T \ {x} \in Good  BY <1>1
    <3>3. IsFiniteSet(T)  BY FS_Subset
    <3>4. Cardinality(T) \in Nat /\ Cardinality(T \ {x}) = Cardinality(T) - 1
      BY <3>3, FS_RemoveElement, FS_CardinalityType
    <3>5. g[T] = f[x] + g[T \ {x}]  BY <2>1, <2>3, <3>1 DEF SumStep
    <3>6. PICK n : n = Cardinality(T)  OBVIOUS
    <3>7. n \in Nat /\ g[T] = k + k * (n - 1)  BY <3>2, <3>4, <3>5, <3>6
    <3>8. k * (n - 1) = k * n - k /\ k * n \in Nat  BY <3>7
    <3>9. g[T] = k * n  BY <3>7, <3>8
    <3> QED  BY <3>6, <3>9
  <2> QED  BY <2>2, <2>3
<1>2. SUBSET S \subseteq Good
  <2> HIDE DEF Good
  <2> QED  BY <1>1, SetInduction
<1> QED  BY <1>2

------------------------------------------------------------------------------
(* The initial states *)

LEMMA InitIInv == Init => IInv
<1> SUFFICES ASSUME Init PROVE IInv  OBVIOUS
<1> USE ConstantsAssumption
<1>1. PICK P \in Papers :
        exam = [total |-> Cardinality(P),
                share |-> [q \in P |-> [of |-> total_score, by |-> Cardinality(P)]]]
  BY DEF Init
<1>2. Paper = P /\ P \subseteq Questions /\ exam.total = Cardinality(P)
      /\ \A q \in P : exam.share[q] = [of |-> total_score, by |-> Cardinality(P)]
  BY <1>1 DEF Paper
<1>3. ASSUME NEW a \in Answers
      PROVE  /\ a \in DOMAIN Bank =>
                  /\ ans[a].pc = "kept" /\ ans[a].ques = Bank[a].ques
                  /\ ans[a].aid = Bank[a].aid /\ ans[a].right = Bank[a].right
             /\ a \notin DOMAIN Bank => ans[a] = NoAnswer
  BY DEF Init
<1>4. ASSUME NEW q \in Questions
      PROVE  /\ Kept(q) = {a \in DOMAIN Bank : Bank[a].ques = q}
             /\ {ans[a].aid : a \in Kept(q)} = 1..Cardinality(Kept(q))
             /\ \A a, b \in Kept(q) : ans[a].aid = ans[b].aid => a = b
  <2> DEFINE S == {a \in DOMAIN Bank : Bank[a].ques = q}
  <2>1. Kept(q) = S
    BY <1>3 DEF Kept, NoAnswer
  <2>2. {ans[a].aid : a \in Kept(q)} = {Bank[a].aid : a \in S}  BY <1>3, <2>1
  <2>3. {Bank[a].aid : a \in S} = 1..Cardinality(S)  OBVIOUS
  <2>4. \A a, b \in S : Bank[a].aid = Bank[b].aid => a = b  OBVIOUS
  <2>5. \A a, b \in Kept(q) : ans[a].aid = ans[b].aid => a = b  BY <1>3, <2>1, <2>4
  <2> HIDE DEF S
  <2>6. {ans[a].aid : a \in Kept(q)} = 1..Cardinality(Kept(q))  BY <2>1, <2>2, <2>3
  <2> QED  BY <2>1, <2>5, <2>6 DEF S
<1>5. ASSUME NEW a \in Answers, ans[a].pc = "kept"
      PROVE  ans[a].ques \in Questions /\ ans[a].aid \in 1..Cardinality(Used) /\ ans[a].right \in BOOLEAN
  <2>1. a \in DOMAIN Bank /\ Bank[a].ques \in Questions /\ Bank[a].right \in BOOLEAN
    BY <1>3, <1>5 DEF NoAnswer
  <2>2. a \in Kept(Bank[a].ques)  BY <1>3, <1>5, <2>1 DEF Kept
  <2>3. ans[a].aid \in 1..Cardinality(Kept(Bank[a].ques))  BY <1>4, <2>1, <2>2
  <2>4. Kept(Bank[a].ques) \in SUBSET Used  BY DEF Kept, Used
  <2>5. Cardinality(Kept(Bank[a].ques)) <= Cardinality(Used)  BY <2>4, KeptFinite, FS_Subset
  <2> QED  BY <1>3, <2>1, <2>3, <2>5, KeptFinite
<1>6. ans \in [Answers -> AnswerRow]
  <2>1. ans = [a \in Answers |-> ans[a]]  BY DEF Init
  <2>2. ASSUME NEW a \in Answers PROVE ans[a] \in AnswerRow
    <3>1. CASE a \notin DOMAIN Bank
      <4>1. NoAnswer \in AnswerRow  BY DEF AnswerRow, NoAnswer
      <4> QED  BY <1>3, <3>1, <4>1
    <3>2. CASE a \in DOMAIN Bank
      <4>1. ans[a] = [pc |-> "kept", ques |-> Bank[a].ques, aid |-> Bank[a].aid, right |-> Bank[a].right]
        BY <3>2 DEF Init
      <4>2. ans[a].aid \in Nat  BY <1>3, <1>5, <3>2, KeptFinite
      <4>3. Bank[a].aid \in Nat  BY <4>1, <4>2
      <4> QED  BY <3>2, <4>1, <4>3 DEF AnswerRow
    <3> QED  BY <3>1, <3>2
  <2> QED  BY <2>1, <2>2
<1>7. /\ \A f : f = [q \in {} |-> {}] => IsChoice(f) /\ DOMAIN f = {}
      /\ page = NoPage /\ IsChoice(page.picked) /\ DOMAIN page.picked = {}
  <2>1. \A f : f = [q \in {} |-> {}] => IsChoice(f) /\ DOMAIN f = {}  BY DEF IsChoice
  <2>2. page = NoPage /\ page.picked = [q \in {} |-> {}]  BY DEF Init, NoPage
  <2> QED  BY <2>1, <2>2
<1>8. Shape
  <2>1. edit \in [Editors -> EditState] /\ write \in [Writers -> WriteState]
    BY DEF Init, EditState, WriteState
  <2>2. exam = [total |-> exam.total, share |-> exam.share] /\ exam.share = [q \in Paper |-> exam.share[q]]
    BY <1>1, <1>2
  <2>3. att = [pc |-> att.pc, list |-> att.list, mark |-> att.mark, total |-> att.total]
        /\ att.pc = "none" /\ att.list = {}
    BY DEF Init
  <2>4. page = [loads |-> page.loads, ques |-> page.ques, type |-> page.type, aid |-> page.aid,
                right |-> page.right, picked |-> page.picked]
        /\ page.loads = 0 /\ page.ques = {} /\ page.aid \in [Answers -> Nat] /\ page.right = {}
    BY <1>7 DEF NoPage
  <2>5. /\ erased = [bank |-> erased.bank, exam |-> erased.exam] /\ erased.bank = {}
        /\ erased.exam = {} /\ touched = {} /\ crossed = {} /\ bank = Questions
        /\ retyped = {} /\ type \in [Questions -> Types] /\ total_score \in Scores
    BY DEF Init
  <2>6. IsChoice(row) /\ IsChoice(draft)  BY <1>7 DEF Init
  <2> QED  BY <1>2, <1>6, <1>7, <2>1, <2>2, <2>3, <2>4, <2>5, <2>6 DEF Shape
<1>9. Editing
  <2>1. \A e \in Editors : edit[e].pc = "idle" /\ edit[e].add = {} /\ edit[e].del = {}  BY DEF Init
  <2>2. Paper \subseteq bank  BY <1>2 DEF Init
  <2> QED  BY <2>1, <2>2 DEF Editing, Under
<1>10. Numbering
  <2>1. \A w \in Writers : write[w].pc = "idle"  BY DEF Init
  <2> QED  BY <1>3, <1>4, <1>5, <2>1 DEF Numbering, NoAnswer
<1>11. /\ att.pc = "none" /\ page.loads = 0 /\ page.ques = {} /\ DOMAIN row = {} /\ erased.exam = {}
  BY DEF Init, NoPage
<1>12. Attempting  BY <1>11 DEF Attempting, AttemptKeepsItsPaper
<1>13. Showing /\ GradedAsShown  BY <1>11 DEF Showing, GradedAsShown
<1>14. ExamAddsUp
  <2>1. Cardinality(erased.exam) = 0  BY <1>11, FS_EmptySet
  <2>2. Cardinality(P) \in Nat  BY <1>2, FiniteQuestions
  <2>3. total_score \in Scores  BY DEF Init
  <2> QED  BY <1>2, <2>1, <2>2, <2>3 DEF ExamAddsUp
<1> QED  BY <1>8, <1>9, <1>10, <1>12, <1>13, <1>14 DEF IInv

------------------------------------------------------------------------------
(* The editors of the exam *)

\* What the editors do leaves the bank, the attempt and the page alone.
LEMMA EditorStep ==
  ASSUME IInv, UNCHANGED <<bankVars, pageVars, edited, erased>>, total_score' \in Scores,
         exam' = [total |-> exam'.total, share |-> exam'.share],
         Paper' \subseteq Questions, exam'.share = [q \in Paper' |-> exam'.share[q]],
         edit' \in [Editors -> EditState], Editing', ExamAddsUp'
  PROVE  IInv'
<1>1. UNCHANGED <<bank, type, ans, write, crossed, att, row, page, draft, touched, retyped, erased>>
  BY DEF bankVars, pageVars, edited
<1>2. Shape'  BY <1>1 DEF IInv, Shape, IsChoice
<1>3. \A q : Kept(q)' = Kept(q) /\ Used' = Used  BY <1>1 DEF Kept, Used
<1>4. Numbering'  BY <1>1, <1>3 DEF IInv, Numbering
<1>5. Attempting'  BY <1>1 DEF IInv, Attempting, AttemptKeepsItsPaper
<1>6. Showing'  BY <1>1 DEF IInv, Showing
<1>7. GradedAsShown'
  <2>1. \A q : Chosen(q)' = Chosen(q) /\ Promised(q)' = Promised(q)  BY <1>1 DEF Chosen, Promised
  <2>2. \A q : Unseen(q)' = Unseen(q)  BY <1>1, <2>1 DEF Unseen
  <2> QED  BY <1>1, <2>1, <2>2 DEF IInv, GradedAsShown, NeedsARightChoice, EarnsSingle, EarnsMultiple
<1> QED  BY <1>2, <1>4, <1>5, <1>6, <1>7 DEF IInv

\* While the exam stays as it is, an editor's step concerns that editor only.
LEMMA OneEditor ==
  ASSUME IInv, NEW e \in Editors, NEW r \in EditState, edit' = [edit EXCEPT ![e] = r],
         UNCHANGED <<exam, bankVars, pageVars, edited, erased>>,
         total_score' \in Scores, rescored' \/ UNCHANGED <<total_score, rescored>>,
         r.pc \in {"idle", "done"} => r.add = {} /\ r.del = {},
         r.add \subseteq bank \ Paper, r.del \subseteq Paper,
         \A f \in Editors \ {e} : edit[f].add \cap r.add = {} /\ edit[f].del \cap r.del = {},
         r.pc \in {"locked", "counted"} => Under({"locked", "counted"}) \subseteq {e},
         r.pc = "counted" /\ erased.exam = {} =>
           r.num = Cardinality((Paper \ r.del) \cup r.add)
  PROVE  IInv'
<1>1. UNCHANGED <<exam, bank, erased>> /\ Paper' = Paper  BY DEF bankVars, Paper
<1>2. /\ edit' \in [Editors -> EditState] /\ edit'[e] = r
      /\ \A f \in Editors \ {e} : edit'[f] = edit[f]
  BY DEF IInv, Shape
<1>3. Editing'
  <2>1. PaperOf(e)' = (Paper \ r.del) \cup r.add /\ \A f \in Editors \ {e} : PaperOf(f)' = PaperOf(f)
    BY <1>1, <1>2 DEF PaperOf
  <2>2. ASSUME NEW f \in Editors
        PROVE  /\ edit'[f].pc \in {"idle", "done"} => edit'[f].add = {} /\ edit'[f].del = {}
               /\ edit'[f].add \subseteq bank \ Paper /\ edit'[f].del \subseteq Paper
               /\ edit'[f].pc = "counted" /\ erased.exam = {} =>
                    edit'[f].num = Cardinality(PaperOf(f)')
    <3>1. CASE f = e  BY <1>2, <2>1, <3>1
    <3>2. CASE f # e  BY <1>2, <2>1, <3>2 DEF IInv, Editing
    <3> QED  BY <3>1, <3>2
  <2>3. ASSUME NEW f \in Editors, NEW g \in Editors, f # g
        PROVE  edit'[f].add \cap edit'[g].add = {} /\ edit'[f].del \cap edit'[g].del = {}
    <3>1. CASE f # e /\ g # e  BY <1>2, <2>3, <3>1 DEF IInv, Editing
    <3>2. CASE f = e  BY <1>2, <2>3, <3>2
    <3>3. CASE g = e  BY <1>2, <2>3, <3>3
    <3> QED  BY <3>1, <3>2, <3>3
  <2>4. ASSUME NEW f \in Under({"locked", "counted"})', NEW g \in Under({"locked", "counted"})'
        PROVE  f = g
    <3>1. /\ f \in Editors /\ g \in Editors
          /\ \A h \in {f, g} : h = e \/ h \in Under({"locked", "counted"})
      BY <1>2, <2>4 DEF Under
    <3>2. f = e \/ g = e => r.pc \in {"locked", "counted"}  BY <1>2, <2>4 DEF Under
    <3> QED  BY <3>1, <3>2 DEF IInv, Editing
  <2> QED  BY <1>1, <2>2, <2>3, <2>4 DEF IInv, Editing
<1>4. ExamAddsUp'
  <2>1. exam.total = Cardinality(Paper) + Cardinality(erased.exam)  BY DEF IInv, ExamAddsUp
  <2>2. ASSUME erased.exam = {}
        PROVE  \E s \in Scores :
                 /\ \A q \in Paper : exam.share[q] = [of |-> s, by |-> Cardinality(Paper)]
                 /\ ~rescored' => s = total_score'
    BY <2>2 DEF IInv, ExamAddsUp
  <2> QED  BY <1>1, <2>1, <2>2 DEF ExamAddsUp
<1>5. exam = [total |-> exam.total, share |-> exam.share] /\ Paper \subseteq Questions
      /\ exam.share = [q \in Paper |-> exam.share[q]]
  BY DEF IInv, Shape
<1> QED  BY <1>1, <1>2, <1>3, <1>4, <1>5, EditorStep

LEMMA EditSteps ==
  ASSUME IInv, NEW e \in Editors,
         \/ \E Q \in SUBSET Questions : AddQuestions(e, Q)
         \/ \E q \in Questions : RemoveQuestion(e, q)
         \/ \E s \in Scores : UpdateExam(e, s)
         \/ Lock(e) \/ Count(e) \/ Fail(e)
  PROVE  IInv'
<1>0. /\ edit[e] \in EditState
      /\ edit[e] = [pc |-> edit[e].pc, add |-> edit[e].add, del |-> edit[e].del, num |-> edit[e].num]
      /\ edit[e].add \subseteq bank \ Paper /\ edit[e].del \subseteq Paper
      /\ \A f \in Editors \ {e} :
           edit[f].add \cap edit[e].add = {} /\ edit[f].del \cap edit[e].del = {}
      /\ \A f \in Editors \ Open : edit[f].add = {} /\ edit[f].del = {}
      /\ edit[e].pc \in {"idle", "done"} => edit[e].add = {} /\ edit[e].del = {}
      /\ Paper \subseteq Questions /\ bank \subseteq Questions
      /\ edit \in [Editors -> EditState] /\ total_score \in Scores
  <2>1. edit[e] \in EditState  BY DEF IInv, Shape
  <2>2. edit[e] = [pc |-> edit[e].pc, add |-> edit[e].add, del |-> edit[e].del, num |-> edit[e].num]
    BY <2>1 DEF EditState
  <2>3. \A f \in Editors \ Open : edit[f].pc \in {"idle", "done"}
    BY ShapeFields DEF IInv, Open, Under
  <2> QED  BY <2>1, <2>2, <2>3 DEF IInv, Shape, Editing
<1>1. ASSUME NEW Q \in SUBSET Questions, AddQuestions(e, Q) PROVE IInv'
  <2> DEFINE r == [pc |-> "changed", add |-> Q, del |-> {}, num |-> 0]
  <2>1. edit' = [edit EXCEPT ![e] = r]  BY <1>1 DEF AddQuestions
  <2>2. r \in EditState  BY <1>0 DEF EditState
  <2>3. /\ r.pc = "changed" /\ r.add = Q /\ r.del = {} /\ Q \subseteq bank \ Paper
        /\ UNCHANGED <<exam, total_score, rescored, bankVars, pageVars, edited, erased>>
        /\ \A f \in Open : edit[f].add \cap Q = {}
    BY <1>1 DEF AddQuestions
  <2> HIDE DEF r
  <2>4. \A f \in Editors \ {e} : edit[f].add \cap r.add = {} /\ edit[f].del \cap r.del = {}
    BY <1>0, <2>3
  <2> QED  BY <1>0, <2>1, <2>2, <2>3, <2>4, OneEditor
<1>2. ASSUME NEW q \in Questions, RemoveQuestion(e, q) PROVE IInv'
  <2> DEFINE r == [pc |-> "changed", add |-> {}, del |-> {q} \cap Paper, num |-> 0]
  <2>1. edit' = [edit EXCEPT ![e] = r]  BY <1>2 DEF RemoveQuestion
  <2>2. r \in EditState  BY <1>0 DEF EditState
  <2>3. /\ r.pc = "changed" /\ r.add = {} /\ r.del = {q} \cap Paper
        /\ UNCHANGED <<exam, total_score, rescored, bankVars, pageVars, edited, erased>>
        /\ \A f \in Open : q \notin edit[f].del
    BY <1>2 DEF RemoveQuestion
  <2> HIDE DEF r
  <2>4. \A f \in Editors \ {e} : edit[f].add \cap r.add = {} /\ edit[f].del \cap r.del = {}
    BY <1>0, <2>3
  <2> QED  BY <1>0, <2>1, <2>2, <2>3, <2>4, OneEditor
<1>3. CASE Lock(e)
  <2> DEFINE r == [pc |-> "locked", add |-> edit[e].add, del |-> edit[e].del, num |-> edit[e].num]
  <2>0. [edit[e] EXCEPT !.pc = "locked"] = r  BY <1>0
  <2>1. edit' = [edit EXCEPT ![e] = r]  BY <1>3, <2>0 DEF Lock
  <2>2. r \in EditState  BY <1>0 DEF EditState
  <2>3. /\ r.pc = "locked" /\ r.add = edit[e].add /\ r.del = edit[e].del
        /\ UNCHANGED <<exam, total_score, rescored, bankVars, pageVars, edited, erased>>
        /\ Under({"locked", "counted"}) = {}
    BY <1>3 DEF Lock
  <2> HIDE DEF r
  <2>4. \A f \in Editors \ {e} : edit[f].add \cap r.add = {} /\ edit[f].del \cap r.del = {}
    BY <1>0, <2>3
  <2> QED  BY <1>0, <2>1, <2>2, <2>3, <2>4, OneEditor
<1>4. CASE Count(e)
  <2> DEFINE r == [pc |-> "counted", add |-> edit[e].add, del |-> edit[e].del,
                   num |-> Cardinality(PaperOf(e))]
  <2>1. edit' = [edit EXCEPT ![e] = r]  BY <1>4 DEF Count, NumQues
  <2>2. PaperOf(e) \in SUBSET Questions  BY <1>0 DEF PaperOf
  <2>3. r \in EditState  BY <1>0, <2>2, FiniteQuestions DEF EditState
  <2>4. /\ r.pc = "counted" /\ r.add = edit[e].add /\ r.del = edit[e].del
        /\ r.num = Cardinality((Paper \ edit[e].del) \cup edit[e].add)
        /\ UNCHANGED <<exam, total_score, rescored, bankVars, pageVars, edited, erased>>
        /\ e \in Under({"locked", "counted"})
    BY <1>4 DEF Count, PaperOf, Under
  <2>5. Under({"locked", "counted"}) \subseteq {e}  BY <2>4 DEF IInv, Editing
  <2> HIDE DEF r
  <2>6. \A f \in Editors \ {e} : edit[f].add \cap r.add = {} /\ edit[f].del \cap r.del = {}
    BY <1>0, <2>4
  <2> QED  BY <1>0, <2>1, <2>3, <2>4, <2>5, <2>6, OneEditor
<1>5. CASE Fail(e)
  <2> DEFINE r == [pc |-> "done", add |-> {}, del |-> {}, num |-> 0]
  <2>1. edit' = [edit EXCEPT ![e] = r]  BY <1>5 DEF Fail
  <2>2. r \in EditState  BY DEF EditState
  <2>3. /\ r.pc = "done" /\ r.add = {} /\ r.del = {}
        /\ UNCHANGED <<exam, total_score, rescored, bankVars, pageVars, edited, erased>>
    BY <1>5 DEF Fail
  <2>4. total_score' \in Scores  BY <1>0, <2>3
  <2> HIDE DEF r
  <2> QED  BY <2>1, <2>2, <2>3, <2>4, OneEditor
<1>6. ASSUME NEW s \in Scores, UpdateExam(e, s) PROVE IInv'
  <2> DEFINE r == [pc |-> "done", add |-> edit[e].add, del |-> edit[e].del, num |-> edit[e].num]
  <2>0. [edit[e] EXCEPT !.pc = "done"] = r  BY <1>0
  <2>1. edit' = [edit EXCEPT ![e] = r]  BY <1>6, <2>0 DEF UpdateExam
  <2>2. r \in EditState  BY <1>0 DEF EditState
  <2>3. /\ r.pc = "done" /\ r.add = {} /\ r.del = {}
        /\ UNCHANGED <<exam, bankVars, pageVars, edited, erased>>
        /\ total_score' \in Scores /\ rescored'
    BY <1>0, <1>6 DEF UpdateExam, Idle
  <2> HIDE DEF r
  <2> QED  BY <2>1, <2>2, <2>3, OneEditor
<1> QED  BY <1>1, <1>2, <1>3, <1>4, <1>5, <1>6

\* The number of questions there will be.
LEMMA NumberOfPaperOf ==
  ASSUME IInv, NEW e \in Editors
  PROVE  /\ PaperOf(e) \subseteq Questions /\ Cardinality(PaperOf(e)) \in Nat
         /\ Cardinality(PaperOf(e)) =
              Cardinality(Paper) + Cardinality(edit[e].add) - Cardinality(edit[e].del)
<1> DEFINE A == edit[e].add
           D == edit[e].del
<1>1. /\ Paper \in SUBSET Questions /\ A \in SUBSET Questions /\ D \subseteq Paper
      /\ A \cap Paper = {} /\ Paper \ D \in SUBSET Questions /\ D \in SUBSET Questions
  BY ShapeFields DEF IInv, Shape, Editing
<1>2. (Paper \ D) \cup A \in SUBSET Questions  BY <1>1
<1> HIDE DEF A, D
<1>3. /\ IsFiniteSet(Paper) /\ IsFiniteSet(A) /\ IsFiniteSet(Paper \ D)
      /\ Cardinality(Paper) \in Nat /\ Cardinality(A) \in Nat /\ Cardinality(D) \in Nat
      /\ Cardinality((Paper \ D) \cup A) \in Nat
  BY <1>1, <1>2, FiniteQuestions
<1>4. Paper \cap D = D /\ (Paper \ D) \cap A = {}  BY <1>1
<1>5. Cardinality(Paper \ D) = Cardinality(Paper) - Cardinality(D)
  BY <1>3, <1>4, FS_Difference
<1>6. Cardinality((Paper \ D) \cup A) = Cardinality(Paper \ D) + Cardinality(A)
  <2>1. Cardinality((Paper \ D) \cap A) = 0  BY <1>4, FS_EmptySet
  <2>2. Cardinality((Paper \ D) \cup A)
          = Cardinality(Paper \ D) + Cardinality(A) - Cardinality((Paper \ D) \cap A)
    BY <1>3, FS_Union
  <2> QED  BY <1>3, <1>5, <2>1, <2>2
<1> QED  BY <1>2, <1>3, <1>5, <1>6 DEF PaperOf, A, D

LEMMA CommitStep ==
  ASSUME IInv, NEW e \in Editors, Commit(e)
  PROVE  IInv'
<1> DEFINE r == [pc |-> "done", add |-> {}, del |-> {}, num |-> 0]
           s == [q \in PaperOf(e) |-> IF edit[e].num = 0 THEN exam.share[q]
                                      ELSE [of |-> total_score, by |-> edit[e].num]]
<1>0. /\ edit[e].pc = "counted" /\ edit' = [edit EXCEPT ![e] = r]
      /\ exam' = [total |-> NewTotal(e), share |-> s]
      /\ UNCHANGED <<total_score, bankVars, pageVars, edited, erased>>
      /\ bank' = bank /\ erased' = erased /\ rescored' = (rescored /\ edit[e].num = 0)
  BY DEF Commit, bankVars
<1>1. Paper' = PaperOf(e) /\ exam'.total = NewTotal(e) /\ exam'.share = s
  BY <1>0 DEF Paper
<1>2. /\ r \in EditState /\ r.pc = "done" /\ r.add = {} /\ r.del = {}
  BY DEF EditState
<1>3. /\ PaperOf(e) \subseteq Questions /\ Cardinality(PaperOf(e)) \in Nat
      /\ Cardinality(PaperOf(e)) =
           Cardinality(Paper) + Cardinality(edit[e].add) - Cardinality(edit[e].del)
  BY NumberOfPaperOf
<1>4. edit[e].num \in Nat /\ (erased.exam = {} => edit[e].num = Cardinality(PaperOf(e)))
  BY <1>0, ShapeFields DEF IInv, Editing
<1>5. e \in Open /\ edit[e].add \subseteq bank \ Paper /\ edit[e].del \subseteq Paper /\ Paper \subseteq bank
  BY <1>0 DEF Open, Under, IInv, Editing
<1> HIDE DEF r
<1>6. /\ edit' \in [Editors -> EditState] /\ edit'[e] = r
      /\ \A f \in Editors \ {e} : edit'[f] = edit[f]
  BY <1>0, <1>2 DEF IInv, Shape
<1>7. ExamAddsUp'
  <2>1. /\ exam.total = Cardinality(Paper) + Cardinality(erased.exam)
        /\ Cardinality(Paper) \in Nat /\ Cardinality(erased.exam) \in Nat
        /\ Cardinality(edit[e].add) \in Nat /\ Cardinality(edit[e].del) \in Nat
    BY ShapeFields, FiniteQuestions DEF IInv, ExamAddsUp
  <2>2. NewTotal(e) = Cardinality(PaperOf(e)) + Cardinality(erased.exam)
    BY <1>3, <2>1 DEF NewTotal
  <2>3. ASSUME erased.exam = {}, NEW q \in PaperOf(e)
        PROVE  s[q] = [of |-> total_score, by |-> Cardinality(PaperOf(e))]
    <3>1. IsFiniteSet(PaperOf(e)) /\ PaperOf(e) # {}  BY <1>3, <2>3, FiniteQuestions
    <3>2. Cardinality(PaperOf(e)) # 0  BY <3>1, FS_EmptySet
    <3> QED  BY <1>4, <2>3, <3>2
  <2> HIDE DEF s
  <2>4. total_score \in Scores  BY DEF IInv, Shape
  <2> QED  BY <1>0, <1>1, <2>2, <2>3, <2>4 DEF ExamAddsUp
<1> HIDE DEF s
<1>8. Editing'
  <2>1. ASSUME NEW f \in Editors, f # e
        PROVE  edit[f].add \cap PaperOf(e) = {} /\ edit[f].del \subseteq PaperOf(e)
    BY <1>5, <2>1 DEF IInv, Editing, PaperOf
  <2>2. ASSUME NEW f \in Editors
        PROVE  /\ edit'[f].pc \in {"idle", "done"} => edit'[f].add = {} /\ edit'[f].del = {}
               /\ edit'[f].add \subseteq bank \ PaperOf(e) /\ edit'[f].del \subseteq PaperOf(e)
               /\ edit'[f].pc # "counted"
    <3>1. CASE f = e  BY <1>2, <1>6, <3>1
    <3>2. CASE f # e
      <4>1. edit[f].pc \notin {"locked", "counted"}  BY <1>0, <3>2 DEF IInv, Editing, Under
      <4> QED  BY <1>6, <2>1, <3>2, <4>1 DEF IInv, Editing
    <3> QED  BY <3>1, <3>2
  <2>3. ASSUME NEW f \in Editors, NEW g \in Editors, f # g
        PROVE  edit'[f].add \cap edit'[g].add = {} /\ edit'[f].del \cap edit'[g].del = {}
    <3>1. CASE f # e /\ g # e  BY <1>6, <2>3, <3>1 DEF IInv, Editing
    <3>2. CASE f = e  BY <1>2, <1>6, <3>2
    <3>3. CASE g = e  BY <1>2, <1>6, <3>3
    <3> QED  BY <3>1, <3>2, <3>3
  <2>4. ASSUME NEW f \in Under({"locked", "counted"})' PROVE FALSE
    <3>1. f \in Editors /\ f # e /\ edit[f].pc \in {"locked", "counted"}
      BY <1>2, <1>6, <2>4 DEF Under
    <3> QED  BY <1>0, <3>1 DEF IInv, Editing, Under
  <2>5. PaperOf(e) \subseteq bank  BY <1>5 DEF PaperOf
  <2> QED  BY <1>0, <1>1, <2>2, <2>3, <2>4, <2>5 DEF Editing
<1>9. exam'.share = [q \in Paper' |-> exam'.share[q]]  BY <1>1 DEF s
<1>10. exam' = [total |-> exam'.total, share |-> exam'.share]  BY <1>0
<1>11. total_score' \in Scores  BY <1>0 DEF IInv, Shape
<1> QED  BY <1>0, <1>1, <1>3, <1>6, <1>7, <1>8, <1>9, <1>10, <1>11, EditorStep

------------------------------------------------------------------------------
(* The writers of answers *)

\* What the page shows of the untouched questions stays true, and so do their marks, when
\* the answers of those questions stay as they are.
LEMMA SeenTheSame ==
  ASSUME IInv, UNCHANGED <<att, page>>, touched \subseteq touched', retyped \subseteq retyped',
         \A q \in page.ques \ retyped' : type'[q] = type[q],
         \A q \in page.ques \ touched' : \A a \in Answers :
           (ans'[a].ques = q \/ ans[a].ques = q) => ans'[a] = ans[a]
  PROVE  Showing' /\ GradedAsShown'
<1>1. Showing'  BY DEF IInv, Showing
<1>2. GradedAsShown'
  <2>1. page.right \subseteq Answers  BY DEF IInv, Shape
  <2>2. ASSUME NEW q \in page.ques \ touched'
        PROVE  Chosen(q)' = Chosen(q) /\ Promised(q)' = Promised(q) /\ Unseen(q)' = Unseen(q)
    <3>1. \A a \in Answers : ans'[a].ques = q <=> ans[a].ques = q  OBVIOUS
    <3>2. Chosen(q)' = Chosen(q) /\ Promised(q)' = Promised(q)
      BY <2>1, <3>1 DEF Chosen, Promised
    <3> QED  BY <3>2 DEF Unseen
  <2>3. page'.ques \ touched' \subseteq page.ques \ touched  OBVIOUS
  <2>4. ASSUME att.pc \in {"graded", "done"}, NEW q \in page.ques \ touched'
        PROVE  /\ NeedsARightChoice(q)'
               /\ q \notin retyped' => EarnsSingle(q)' /\ EarnsMultiple(q)'
    <3>1. q \in page.ques \ touched  BY <2>3, <2>4
    <3>2. Chosen(q)' = Chosen(q) /\ Promised(q)' = Promised(q) /\ Unseen(q)' = Unseen(q)
      BY <2>2, <2>4
    <3>3. /\ NeedsARightChoice(q)
          /\ q \notin retyped' => EarnsSingle(q) /\ EarnsMultiple(q)
      BY <2>4, <3>1 DEF IInv, GradedAsShown
    <3> QED  BY <3>2, <3>3 DEF NeedsARightChoice, EarnsSingle, EarnsMultiple
  <2> QED  BY <2>4 DEF GradedAsShown
<1> QED  BY <1>1, <1>2

\* What a writer does concerns no question of the page that counts as untouched, or as being
\* of the type it was, afterwards.
LEMMA BankStep ==
  ASSUME IInv, UNCHANGED <<bank, examVars, pageVars, left, erased>>,
         touched \subseteq touched', touched' \subseteq Questions, crossed' \subseteq Questions,
         retyped \subseteq retyped', retyped' \subseteq Questions,
         type' \in [Questions -> Types], \A q \in page.ques \ retyped' : type'[q] = type[q],
         ans' \in [Answers -> AnswerRow], write' \in [Writers -> WriteState], Numbering',
         \A q \in page.ques \ touched' : \A a \in Answers :
           (ans'[a].ques = q \/ ans[a].ques = q) => ans'[a] = ans[a]
  PROVE  IInv'
<1>1. UNCHANGED <<bank, exam, total_score, rescored, edit, att, row, page, draft, erased>>
  BY DEF examVars, pageVars
<1>2. Paper' = Paper /\ Open' = Open  BY <1>1 DEF Paper, Open, Under
<1>3. Shape'  BY <1>1, <1>2 DEF IInv, Shape, IsChoice
<1>4. Editing'
  <2>1. \A e : PaperOf(e)' = PaperOf(e)  BY <1>1, <1>2 DEF PaperOf
  <2> QED  BY <1>1, <1>2, <2>1 DEF IInv, Editing, Under
<1>5. Attempting'  BY <1>1 DEF IInv, Attempting, AttemptKeepsItsPaper
<1>6. ExamAddsUp'  BY <1>1, <1>2 DEF IInv, ExamAddsUp
<1>7. Showing' /\ GradedAsShown'  BY <1>1, SeenTheSame
<1> QED  BY <1>3, <1>4, <1>5, <1>6, <1>7 DEF IInv

LEMMA AnswerStep ==
  ASSUME IInv, UNCHANGED <<bank, type, retyped, examVars, pageVars, left, erased>>,
         touched \subseteq touched', touched' \subseteq Questions, crossed' \subseteq Questions,
         ans' \in [Answers -> AnswerRow], write' \in [Writers -> WriteState], Numbering',
         \A q \in page.ques \ touched' : \A a \in Answers :
           (ans'[a].ques = q \/ ans[a].ques = q) => ans'[a] = ans[a]
  PROVE  IInv'
<1>1. type \in [Questions -> Types] /\ retyped \subseteq Questions  BY DEF IInv, Shape
<1> QED  BY <1>1, BankStep

\* The last number of a question is the number of its answers, unless they have gaps.
LEMMA LastAidBound ==
  ASSUME IInv, NEW q \in Questions
  PROVE  /\ LastAid(q) \in Nat /\ LastAid(q) <= Cardinality(Used)
         /\ q \notin crossed => LastAid(q) <= Cardinality(Kept(q))
<1> DEFINE S == {ans[a].aid : a \in Kept(q)} \cup {0}
           N == Cardinality(Used)
<1>1. N \in Nat /\ Cardinality(Kept(q)) \in Nat  BY KeptFinite
<1>2. \A a \in Kept(q) : ans[a].aid \in 1..N  BY DEF Kept, IInv, Numbering
<1>3. S \in SUBSET (0..N) /\ S # {}  BY <1>1, <1>2
<1>4. q \notin crossed => S = 1..Cardinality(Kept(q)) \cup {0}  BY DEF IInv, Numbering
<1>5. LastAid(q) = Max(S)  BY DEF LastAid
<1> HIDE DEF S, N
<1>6. LastAid(q) \in S  BY <1>1, <1>3, <1>5, MaxOfBounded
<1>7. LastAid(q) \in 0..N  BY <1>3, <1>6
<1>8. q \notin crossed => LastAid(q) <= Cardinality(Kept(q))  BY <1>1, <1>4, <1>6
<1> QED  BY <1>1, <1>7, <1>8 DEF N

LEMMA ReadSteps ==
  ASSUME IInv, NEW w \in Writers,
         (\E q \in Questions : ReadLast(w, q)) \/ AddRefused(w)
  PROVE  IInv'
<1>0. /\ write \in [Writers -> WriteState] /\ ans \in [Answers -> AnswerRow]
      /\ touched \subseteq Questions /\ crossed \subseteq Questions
  BY DEF IInv, Shape
<1>1. UNCHANGED <<bank, type, ans, examVars, pageVars, touched, retyped, left, erased, crossed>>
  BY DEF ReadLast, AddRefused, edited
<1>2. \A q : Kept(q)' = Kept(q)  BY <1>1 DEF Kept
<1>3. Used' = Used  BY <1>1 DEF Used
<1>4. ASSUME NEW q \in Questions, ReadLast(w, q)
      PROVE  write' \in [Writers -> WriteState] /\ Numbering'
  <2> DEFINE r == [pc |-> "read", ques |-> q, last |-> LastAid(q)]
  <2>1. write' = [write EXCEPT ![w] = r]  BY <1>4 DEF ReadLast
  <2>2. r \in WriteState  BY LastAidBound DEF WriteState
  <2>3. r.ques = q /\ r.last = LastAid(q)  OBVIOUS
  <2> HIDE DEF r
  <2>4. write'[w] = r /\ \A v \in Writers \ {w} : write'[v] = write[v]  BY <1>0, <2>1
  <2>5. LastAid(q) <= Cardinality(Used) /\ (q \notin crossed => LastAid(q) <= Cardinality(Kept(q)))
    BY LastAidBound
  <2>6. Numbering'  BY <1>1, <1>2, <1>3, <2>3, <2>4, <2>5 DEF IInv, Numbering
  <2> QED  BY <1>0, <2>1, <2>2, <2>6
<1>5. ASSUME AddRefused(w) PROVE write' \in [Writers -> WriteState] /\ Numbering'
  <2>1. write' = [write EXCEPT ![w].pc = "done"]  BY <1>5 DEF AddRefused
  <2>2. write'[w].pc = "done" /\ \A v \in Writers \ {w} : write'[v] = write[v]
    BY <1>0, <2>1 DEF WriteState
  <2>3. Numbering'  BY <1>1, <1>2, <1>3, <2>2 DEF IInv, Numbering
  <2> QED  BY <1>0, <2>1, <2>3 DEF WriteState
<1> QED  BY <1>0, <1>1, <1>4, <1>5, AnswerStep

\* The answers of q that a writer changes are on the page no more once q is touched.
LEMMA Touched ==
  ASSUME IInv, NEW q \in Questions, Touch(q),
         \A a \in Answers : ans'[a] # ans[a] =>
           ans'[a].ques = q /\ ans[a].ques \in {q, NoQuestion}
  PROVE  /\ touched \subseteq touched' /\ touched' \subseteq Questions
         /\ \A p \in page.ques \ touched' : \A a \in Answers :
              (ans'[a].ques = p \/ ans[a].ques = p) => ans'[a] = ans[a]
<1>1. page.ques \subseteq Questions /\ touched \subseteq Questions  BY DEF IInv, Shape, IsChoice
<1>2. touched' = touched \cup (page.ques \cap {q})  BY DEF Touch
<1>3. ASSUME NEW p \in page.ques \ touched' PROVE p # q /\ p # NoQuestion
  BY <1>1, <1>2, <1>3, ConstantsAssumption
<1> QED  BY <1>1, <1>2, <1>3

LEMMA AddStep ==
  ASSUME IInv, NEW w \in Writers, NEW a \in Answers, NEW right \in BOOLEAN, AddAnswer(w, a, right)
  PROVE  IInv'
<1>a. PICK q : q = write[w].ques  OBVIOUS
<1> DEFINE n == write[w].last + 1
           r == [pc |-> "kept", ques |-> q, aid |-> n, right |-> right]
<1>0. /\ write \in [Writers -> WriteState] /\ ans \in [Answers -> AnswerRow]
      /\ touched \subseteq Questions /\ crossed \subseteq Questions
  BY DEF IInv, Shape
<1>1. /\ write[w].pc = "read" /\ ans[a].pc = "free" /\ q \in bank
      /\ \A b \in Kept(q) : ans[b].aid # n
      /\ ans' = [ans EXCEPT ![a] = r] /\ write' = [write EXCEPT ![w].pc = "done"]
      /\ Touch(q) /\ UNCHANGED <<bank, type, retyped, examVars, pageVars, left, erased, crossed>>
  BY <1>a DEF AddAnswer
<1>2. /\ q \in Questions /\ write[w].last <= Cardinality(Used) /\ write[w].last \in Nat
      /\ q \notin crossed => write[w].last <= Cardinality(Kept(q))
      /\ ans[a].ques = NoQuestion
  BY <1>1, <1>a, ShapeFields DEF IInv, Numbering
<1>3. r \in AnswerRow /\ r.pc = "kept" /\ r.ques = q /\ r.aid = n
  BY <1>2 DEF AnswerRow
<1>4. /\ write'[w].pc = "done" /\ \A v \in Writers \ {w} : write'[v] = write[v]
      /\ write' \in [Writers -> WriteState]
  BY <1>0, <1>1 DEF WriteState
<1> HIDE DEF r
<1>5. /\ ans'[a] = r /\ \A b \in Answers \ {a} : ans'[b] = ans[b]
      /\ ans' \in [Answers -> AnswerRow]
  BY <1>0, <1>1, <1>3
<1>6. /\ Kept(q)' = Kept(q) \cup {a} /\ \A p : p # q => Kept(p)' = Kept(p)
      /\ Used' = Used \cup {a} /\ a \notin Used /\ \A p : a \notin Kept(p)
  BY <1>1, <1>3, <1>5 DEF Kept, Used
<1>7. /\ Cardinality(Kept(q)') = Cardinality(Kept(q)) + 1
      /\ Cardinality(Used') = Cardinality(Used) + 1
      /\ Cardinality(Used) \in Nat /\ \A p : Cardinality(Kept(p)) \in Nat
  BY <1>6, KeptFinite, FS_AddElement
<1> HIDE DEF n
<1>8. Numbering'
  <2>1. ASSUME NEW p \in Questions \ crossed
        PROVE  {ans'[b].aid : b \in Kept(p)'} = 1..Cardinality(Kept(p)')
    <3>1. CASE p # q
      <4>1. \A b \in Kept(p) : ans'[b].aid = ans[b].aid  BY <1>5, <1>6 DEF Kept
      <4>2. {ans[b].aid : b \in Kept(p)} = 1..Cardinality(Kept(p))  BY <2>1 DEF IInv, Numbering
      <4> QED  BY <1>6, <3>1, <4>1, <4>2
    <3>2. CASE p = q
      <4>1. \A b \in Kept(q) : ans'[b].aid = ans[b].aid  BY <1>5, <1>6 DEF Kept
      <4>2. {ans[b].aid : b \in Kept(q)} = 1..Cardinality(Kept(q))
        BY <2>1, <3>2 DEF IInv, Numbering
      <4>3. n = Cardinality(Kept(q)) + 1
        <5>1. n \notin 1..Cardinality(Kept(q))  BY <1>1, <4>2
        <5>2. q \notin crossed  BY <2>1, <3>2
        <5> QED  BY <1>2, <1>7, <5>1, <5>2 DEF n
      <4>4. {ans'[b].aid : b \in Kept(q)'} = {ans[b].aid : b \in Kept(q)} \cup {n}
        BY <1>3, <1>5, <1>6, <4>1
      <4>5. 1..Cardinality(Kept(q)) \cup {n} = 1..Cardinality(Kept(q)')  BY <1>7, <4>3
      <4>6. {ans'[b].aid : b \in Kept(q)'} = 1..Cardinality(Kept(q)')  BY <4>2, <4>4, <4>5
      <4> QED  BY <3>2, <4>6
    <3> QED  BY <3>1, <3>2
  <2>2. ASSUME NEW p \in Questions, NEW b \in Kept(p)', NEW c \in Kept(p)', ans'[b].aid = ans'[c].aid
        PROVE  b = c
    <3>1. b \in Kept(p) \cup {a} /\ c \in Kept(p) \cup {a} /\ (b = a \/ c = a => p = q)
      BY <1>6
    <3>2. CASE b # a /\ c # a
      <4>1. ans'[b] = ans[b] /\ ans'[c] = ans[c]  BY <1>5, <3>1, <3>2 DEF Kept
      <4> QED  BY <2>2, <3>1, <3>2, <4>1 DEF IInv, Numbering
    <3>3. CASE b = a /\ c # a
      <4>1. ans'[b].aid = n /\ ans'[c] = ans[c] /\ c \in Kept(q)
        BY <1>3, <1>5, <3>1, <3>3 DEF Kept
      <4> QED  BY <1>1, <2>2, <4>1
    <3>4. CASE c = a /\ b # a
      <4>1. ans'[c].aid = n /\ ans'[b] = ans[b] /\ b \in Kept(q)
        BY <1>3, <1>5, <3>1, <3>4 DEF Kept
      <4> QED  BY <1>1, <2>2, <4>1
    <3> QED  BY <3>2, <3>3, <3>4
  <2>3. ASSUME NEW b \in Answers
        PROVE  /\ ans'[b].pc = "free" => ans'[b].ques = NoQuestion
               /\ ans'[b].pc = "kept" =>
                    ans'[b].ques \in Questions /\ ans'[b].aid \in 1..Cardinality(Used')
    <3>1. CASE b = a
      <4>1. n \in 1..Cardinality(Used')  BY <1>2, <1>7 DEF n
      <4> QED  BY <1>2, <1>3, <1>5, <3>1, <4>1
    <3>2. CASE b # a
      <4>1. ans'[b] = ans[b]  BY <1>5, <3>2
      <4> QED  BY <1>7, <4>1 DEF IInv, Numbering
    <3> QED  BY <3>1, <3>2
  <2>4. ASSUME NEW v \in Writers, write'[v].pc = "read"
        PROVE  (/\ write[v].ques \in Questions /\ write[v].last <= Cardinality(Used)
                /\ write[v].ques \in bank \ crossed =>
                     write[v].last <= Cardinality(Kept(write[v].ques)))'
    <3>1. v # w /\ write'[v] = write[v]  BY <1>4, <2>4
    <3>2. PICK p : p = write[v].ques  OBVIOUS
    <3>3. write[v].last \in Nat  BY ShapeFields DEF IInv
    <3>4. /\ p \in Questions /\ write[v].last <= Cardinality(Used)
          /\ p \in bank \ crossed => write[v].last <= Cardinality(Kept(p))
      BY <2>4, <3>1, <3>2 DEF IInv, Numbering
    <3>5. /\ Cardinality(Kept(p)) \in Nat /\ Cardinality(Kept(p)') \in Nat
          /\ Cardinality(Kept(p)) <= Cardinality(Kept(p)')
      <4>1. CASE p = q  BY <1>7, <4>1
      <4>2. CASE p # q  BY <1>6, <1>7, <4>2
      <4> QED  BY <4>1, <4>2
    <3>6. p \in bank \ crossed => write[v].last <= Cardinality(Kept(p)')
      BY <3>3, <3>4, <3>5
    <3>7. Kept(write[v].ques)' = Kept(p)'  BY <3>1, <3>2
    <3> QED  BY <1>1, <1>7, <3>1, <3>2, <3>3, <3>4, <3>6, <3>7
  <2> QED  BY <1>1, <2>1, <2>2, <2>3, <2>4 DEF Numbering
<1>9. \A b \in Answers : ans'[b] # ans[b] => ans'[b].ques = q /\ ans[b].ques \in {q, NoQuestion}
  BY <1>2, <1>3, <1>5
<1>10. /\ touched \subseteq touched' /\ touched' \subseteq Questions
       /\ \A p \in page.ques \ touched' : \A b \in Answers :
            (ans'[b].ques = p \/ ans[b].ques = p) => ans'[b] = ans[b]
  BY <1>1, <1>2, <1>9, Touched
<1> QED  BY <1>0, <1>1, <1>4, <1>5, <1>8, <1>10, AnswerStep

\* Taking k out of a row of numbers and moving down what is above it leaves a row.
LEMMA MovedDown ==
  ASSUME NEW n \in Nat, NEW k \in 1..n
  PROVE  {IF i > k THEN i - 1 ELSE i : i \in (1..n) \ {k}} = 1..(n - 1)
<1> DEFINE M == {IF i > k THEN i - 1 ELSE i : i \in (1..n) \ {k}}
<1>1. M \subseteq 1..(n - 1)  OBVIOUS
<1>2. ASSUME NEW j \in 1..(n - 1) PROVE j \in M
  <2>1. CASE j < k
    <3>1. j \in (1..n) \ {k} /\ ~ (j > k)  BY <2>1
    <3> QED  BY <3>1
  <2>2. CASE j >= k
    <3>1. j + 1 \in (1..n) \ {k} /\ j + 1 > k /\ (j + 1) - 1 = j  BY <2>2
    <3> QED  BY <3>1
  <2> QED  BY <2>1, <2>2
<1> QED  BY <1>1, <1>2

LEMMA DeleteStep ==
  ASSUME IInv, NEW w \in Writers, NEW a \in Answers, DeleteAnswer(w, a)
  PROVE  IInv'
<1>a. PICK q : q = ans[a].ques  OBVIOUS
<1>b. PICK k : k = ans[a].aid  OBVIOUS
<1>0. /\ write \in [Writers -> WriteState] /\ ans \in [Answers -> AnswerRow]
      /\ crossed \subseteq Questions
  BY DEF IInv, Shape
<1>1. /\ write[w].pc = "idle" /\ ans[a].pc = "kept"
      /\ ans' = [b \in Answers |-> IF b = a THEN [ans[b] EXCEPT !.pc = "gone"]
                                   ELSE IF MovesDown(b, a) THEN [ans[b] EXCEPT !.aid = @ - 1]
                                   ELSE ans[b]]
      /\ write' = [write EXCEPT ![w].pc = "done"]
      /\ Touch(q) /\ UNCHANGED <<bank, type, retyped, examVars, pageVars, left, erased>>
      /\ crossed' = crossed \cup {p \in {q} : \E v \in Writers : write[v].pc = "read" /\ write[v].ques = q}
  BY <1>a DEF DeleteAnswer, Idle
<1>2. q \in Questions /\ k \in 1..Cardinality(Used) /\ Cardinality(Used) \in Nat
  BY <1>1, <1>a, <1>b, KeptFinite DEF IInv, Numbering
<1>3. /\ write'[w].pc = "done" /\ \A v \in Writers \ {w} : write'[v] = write[v]
      /\ write' \in [Writers -> WriteState]
  BY <1>0, <1>1 DEF WriteState
<1>4. \A b \in Answers : MovesDown(b, a) <=> (b \in Kept(q) /\ ans[b].aid > k)
  BY <1>a, <1>b DEF MovesDown
<1>5. /\ ans'[a].pc = "gone" /\ ans'[a].ques = q /\ ans'[a] \in AnswerRow
      /\ \A b \in Answers \ {a} :
           /\ ans'[b].pc = ans[b].pc /\ ans'[b].ques = ans[b].ques
           /\ ans'[b].aid = IF b \in Kept(q) /\ ans[b].aid > k THEN ans[b].aid - 1 ELSE ans[b].aid
           /\ ans'[b] \in AnswerRow
           /\ b \notin Kept(q) => ans'[b] = ans[b]
  <2>1. ans[a] \in AnswerRow /\ ans'[a] = [ans[a] EXCEPT !.pc = "gone"]  BY <1>0, <1>1
  <2>2. ans'[a].pc = "gone" /\ ans'[a].ques = q /\ ans'[a] \in AnswerRow
    BY <1>a, <2>1 DEF AnswerRow
  <2>3. ASSUME NEW b \in Answers, b # a
        PROVE  /\ ans'[b].pc = ans[b].pc /\ ans'[b].ques = ans[b].ques
               /\ ans'[b].aid = IF b \in Kept(q) /\ ans[b].aid > k THEN ans[b].aid - 1 ELSE ans[b].aid
               /\ ans'[b] \in AnswerRow
               /\ b \notin Kept(q) => ans'[b] = ans[b]
    <3>1. ans[b] \in AnswerRow  BY <1>0
    <3>2. CASE b \in Kept(q) /\ ans[b].aid > k
      <4>1. ans'[b] = [ans[b] EXCEPT !.aid = @ - 1]  BY <1>1, <1>4, <2>3, <3>2
      <4>2. ans[b].aid - 1 \in Nat  BY <1>2, <3>1, <3>2 DEF AnswerRow
      <4> QED  BY <3>1, <3>2, <4>1, <4>2 DEF AnswerRow
    <3>3. CASE ~ (b \in Kept(q) /\ ans[b].aid > k)
      <4>1. ans'[b] = ans[b]  BY <1>1, <1>4, <2>3, <3>3
      <4> QED  BY <3>1, <3>3, <4>1
    <3> QED  BY <3>2, <3>3
  <2> QED  BY <2>2, <2>3
<1>6. ans' \in [Answers -> AnswerRow]
  <2>1. \A b \in Answers : ans'[b] \in AnswerRow  BY <1>5
  <2>2. ans' = [b \in Answers |-> ans'[b]]  BY <1>1
  <2> QED  BY <2>1, <2>2
<1>7. /\ a \in Kept(q) /\ Kept(q)' = Kept(q) \ {a} /\ Used' = Used
      /\ \A p : p # q => Kept(p)' = Kept(p)
  <2>1. a \in Kept(q)  BY <1>1, <1>a DEF Kept
  <2>2. \A p : \A b \in Answers \ {a} : b \in Kept(p)' <=> b \in Kept(p)  BY <1>5 DEF Kept
  <2>3. \A p : a \notin Kept(p)' /\ (p # q => a \notin Kept(p))  BY <1>5, <1>a DEF Kept
  <2>4. \A p : Kept(p)' \subseteq Answers /\ Kept(p) \subseteq Answers  BY DEF Kept
  <2>5. Used' = Used  BY <1>1, <1>5 DEF Used
  <2> QED  BY <2>1, <2>2, <2>3, <2>4, <2>5
<1>8. /\ Cardinality(Kept(q)') = Cardinality(Kept(q)) - 1
      /\ \A p : Cardinality(Kept(p)) \in Nat
  BY <1>7, KeptFinite, FS_RemoveElement
<1>9. crossed \subseteq crossed' /\ crossed' \subseteq Questions  BY <1>0, <1>1, <1>2
<1>10. Numbering'
  <2>1. ASSUME NEW p \in Questions \ crossed'
        PROVE  {ans'[b].aid : b \in Kept(p)'} = 1..Cardinality(Kept(p)')
    <3>0. {ans[b].aid : b \in Kept(p)} = 1..Cardinality(Kept(p))
      BY <1>9, <2>1 DEF IInv, Numbering
    <3>1. CASE p # q
      <4>1. \A b \in Kept(p) : ans'[b].aid = ans[b].aid  BY <1>5, <1>7, <3>1 DEF Kept
      <4>2. {ans'[b].aid : b \in Kept(p)'} = {ans[b].aid : b \in Kept(p)}  BY <1>7, <3>1, <4>1
      <4> QED  BY <1>7, <3>0, <3>1, <4>2
    <3>2. CASE p = q
      <4> DEFINE n == Cardinality(Kept(q))
                 Down(i) == IF i > k THEN i - 1 ELSE i
      <4>1. k \in 1..n /\ n \in Nat  BY <1>7, <1>8, <1>b, <3>0, <3>2
      <4>2. \A b \in Kept(q) \ {a} : ans'[b].aid = Down(ans[b].aid)  BY <1>5 DEF Kept
      <4>3. {ans[b].aid : b \in Kept(q) \ {a}} = (1..n) \ {k}
        <5>1. \A b \in Kept(q) : ans[b].aid = k => b = a
          BY <1>2, <1>7, <1>b DEF IInv, Numbering
        <5> QED  BY <1>b, <1>7, <3>0, <3>2, <5>1
      <4>4. {ans'[b].aid : b \in Kept(q)'} = {Down(i) : i \in (1..n) \ {k}}  BY <1>7, <4>2, <4>3
      <4>5. {Down(i) : i \in (1..n) \ {k}} = 1..(n - 1)  BY <4>1, MovedDown
      <4>6. {ans'[b].aid : b \in Kept(q)'} = 1..Cardinality(Kept(q)')  BY <1>8, <4>4, <4>5
      <4> QED  BY <3>2, <4>6
    <3> QED  BY <3>1, <3>2
  <2>2. ASSUME NEW p \in Questions, NEW b \in Kept(p)', NEW c \in Kept(p)', ans'[b].aid = ans'[c].aid
        PROVE  b = c
    <3>1. b \in Kept(p) /\ c \in Kept(p) /\ b # a /\ c # a /\ b \in Answers /\ c \in Answers
      <4>1. a \notin Kept(p)'  BY <1>5 DEF Kept
      <4>2. Kept(p)' \subseteq Kept(p)  BY <1>7
      <4> QED  BY <2>2, <4>1, <4>2 DEF Kept
    <3>2. \A x, y \in Kept(p) : ans[x].aid = ans[y].aid => x = y  BY <2>2 DEF IInv, Numbering
    <3>3. CASE p # q
      <4>1. b \notin Kept(q) /\ c \notin Kept(q)  BY <3>1, <3>3 DEF Kept
      <4>2. ans'[b] = ans[b] /\ ans'[c] = ans[c]  BY <1>5, <3>1, <4>1
      <4> QED  BY <2>2, <3>1, <3>2, <4>2
    <3>4. CASE p = q
      <4>1. ans[b].aid \in Nat /\ ans[c].aid \in Nat  BY <3>1, ShapeFields DEF IInv
      <4>2. ans[b].aid # k /\ ans[c].aid # k  BY <1>b, <1>7, <3>1, <3>2, <3>4
      <4>3. /\ ans'[b].aid = IF ans[b].aid > k THEN ans[b].aid - 1 ELSE ans[b].aid
            /\ ans'[c].aid = IF ans[c].aid > k THEN ans[c].aid - 1 ELSE ans[c].aid
        BY <1>5, <3>1, <3>4
      <4>4. \A x, y \in Nat : x # k /\ y # k /\ (IF x > k THEN x - 1 ELSE x) = (IF y > k THEN y - 1 ELSE y)
                               => x = y
        BY <1>2
      <4>5. ans[b].aid = ans[c].aid  BY <2>2, <4>1, <4>2, <4>3, <4>4
      <4> QED  BY <3>1, <3>2, <4>5
    <3> QED  BY <3>3, <3>4
  <2>3. ASSUME NEW b \in Answers
        PROVE  /\ ans'[b].pc = "free" => ans'[b].ques = NoQuestion
               /\ ans'[b].pc = "kept" =>
                    ans'[b].ques \in Questions /\ ans'[b].aid \in 1..Cardinality(Used')
    <3>1. CASE b = a  BY <1>5, <3>1
    <3>2. CASE b # a
      <4>1. /\ ans[b].pc = "free" => ans[b].ques = NoQuestion
            /\ ans[b].pc = "kept" => ans[b].ques \in Questions /\ ans[b].aid \in 1..Cardinality(Used)
        BY DEF IInv, Numbering
      <4>2. ans'[b].pc = ans[b].pc /\ ans'[b].ques = ans[b].ques  BY <1>5, <3>2
      <4>3. CASE b \in Kept(q) /\ ans[b].aid > k
        <5>1. ans'[b].aid = ans[b].aid - 1  BY <1>5, <3>2, <4>3
        <5> QED  BY <1>2, <1>7, <4>1, <4>2, <4>3, <5>1
      <4>4. CASE ~ (b \in Kept(q) /\ ans[b].aid > k)
        <5>1. ans'[b].aid = ans[b].aid  BY <1>5, <3>2, <4>4
        <5> QED  BY <1>7, <4>1, <4>2, <5>1
      <4> QED  BY <4>3, <4>4
    <3> QED  BY <3>1, <3>2
  <2>4. ASSUME NEW v \in Writers, write'[v].pc = "read"
        PROVE  (/\ write[v].ques \in Questions /\ write[v].last <= Cardinality(Used)
                /\ write[v].ques \in bank \ crossed =>
                     write[v].last <= Cardinality(Kept(write[v].ques)))'
    <3>1. v # w /\ write'[v] = write[v] /\ write[v].pc = "read"  BY <1>3, <2>4
    <3>2. PICK p : p = write[v].ques  OBVIOUS
    <3>3. /\ p \in Questions /\ write[v].last <= Cardinality(Used)
          /\ p \in bank \ crossed => write[v].last <= Cardinality(Kept(p))
      BY <3>1, <3>2 DEF IInv, Numbering
    <3>4. p = q => p \in crossed'  BY <1>1, <3>1, <3>2
    <3>5. p \in bank \ crossed' => write[v].last <= Cardinality(Kept(p)')
      BY <1>7, <1>9, <3>3, <3>4
    <3>6. Kept(write[v].ques)' = Kept(p)'  BY <3>1, <3>2
    <3> QED  BY <1>1, <1>7, <3>1, <3>2, <3>3, <3>5, <3>6
  <2> QED  BY <2>1, <2>2, <2>3, <2>4 DEF Numbering
<1>11. \A b \in Answers : ans'[b] # ans[b] => ans'[b].ques = q /\ ans[b].ques \in {q, NoQuestion}
  <2>1. \A b \in Kept(q) : ans[b].ques = q  BY DEF Kept
  <2> QED  BY <1>5, <1>a, <2>1
<1>12. /\ touched \subseteq touched' /\ touched' \subseteq Questions
       /\ \A p \in page.ques \ touched' : \A b \in Answers :
            (ans'[b].ques = p \/ ans[b].ques = p) => ans'[b] = ans[b]
  BY <1>1, <1>2, <1>11, Touched
<1> QED  BY <1>1, <1>3, <1>6, <1>9, <1>10, <1>12, AnswerStep

LEMMA UpdateStep ==
  ASSUME IInv, NEW w \in Writers, NEW a \in Answers, UpdateAnswer(w, a)
  PROVE  IInv'
<1>a. PICK q : q = ans[a].ques  OBVIOUS
<1>0. /\ write \in [Writers -> WriteState] /\ ans \in [Answers -> AnswerRow]
      /\ crossed \subseteq Questions
  BY DEF IInv, Shape
<1>1. /\ ans[a].pc = "kept" /\ ans' = [ans EXCEPT ![a].right = ~ ans[a].right]
      /\ write' = [write EXCEPT ![w].pc = "done"]
      /\ Touch(q) /\ UNCHANGED <<bank, type, retyped, examVars, pageVars, left, erased, crossed>>
  BY <1>a DEF UpdateAnswer
<1>2. q \in Questions  BY <1>1, <1>a DEF IInv, Numbering
<1>3. /\ write'[w].pc = "done" /\ \A v \in Writers \ {w} : write'[v] = write[v]
      /\ write' \in [Writers -> WriteState]
  BY <1>0, <1>1 DEF WriteState
<1>4. /\ \A b \in Answers \ {a} : ans'[b] = ans[b]
      /\ ans' = [b \in Answers |-> ans'[b]]
  BY <1>0, <1>1
<1>5. /\ ans'[a].pc = ans[a].pc /\ ans'[a].ques = ans[a].ques /\ ans'[a].aid = ans[a].aid
      /\ ans'[a] \in AnswerRow
  <2>1. ans[a] \in AnswerRow /\ ans'[a] = [ans[a] EXCEPT !.right = ~ ans[a].right]  BY <1>0, <1>1
  <2> QED  BY <2>1 DEF AnswerRow
<1>6. ans' \in [Answers -> AnswerRow]
  <2>1. \A b \in Answers : ans'[b] \in AnswerRow  BY <1>0, <1>4, <1>5
  <2> QED  BY <1>4, <2>1
<1>7. \A b \in Answers :
        ans'[b].pc = ans[b].pc /\ ans'[b].ques = ans[b].ques /\ ans'[b].aid = ans[b].aid
  BY <1>4, <1>5
<1>8. Used' = Used /\ \A p : Kept(p)' = Kept(p)  BY <1>7 DEF Used, Kept
<1>9. Numbering'
  <2>1. \A p : \A b \in Kept(p) : ans'[b].aid = ans[b].aid  BY <1>7 DEF Kept
  <2>2. \A p : {ans'[b].aid : b \in Kept(p)'} = {ans[b].aid : b \in Kept(p)}  BY <1>8, <2>1
  <2>3. \A p \in Questions : \A b, c \in Kept(p)' : ans'[b].aid = ans'[c].aid => b = c
    BY <1>8, <2>1 DEF IInv, Numbering
  <2>4. ASSUME NEW v \in Writers, write'[v].pc = "read" PROVE write'[v] = write[v]
    BY <1>3, <2>4
  <2> QED  BY <1>1, <1>7, <1>8, <2>2, <2>3, <2>4 DEF IInv, Numbering
<1>10. \A b \in Answers : ans'[b] # ans[b] => ans'[b].ques = q /\ ans[b].ques \in {q, NoQuestion}
  BY <1>4, <1>5, <1>a
<1>11. /\ touched \subseteq touched' /\ touched' \subseteq Questions
       /\ \A p \in page.ques \ touched' : \A b \in Answers :
            (ans'[b].ques = p \/ ans[b].ques = p) => ans'[b] = ans[b]
  BY <1>1, <1>2, <1>10, Touched
<1> QED  BY <1>0, <1>1, <1>3, <1>6, <1>9, <1>11, AnswerStep

LEMMA RetypeStep ==
  ASSUME IInv, NEW w \in Writers, NEW q \in Questions, NEW t \in Types, UpdateQuestion(w, q, t)
  PROVE  IInv'
<1>1. /\ type' = [type EXCEPT ![q] = t] /\ write' = [write EXCEPT ![w].pc = "done"]
      /\ retyped' = retyped \cup (page.ques \cap {q})
      /\ UNCHANGED <<bank, ans, examVars, pageVars, touched, left, erased, crossed>>
  BY DEF UpdateQuestion
<1>2. /\ type \in [Questions -> Types] /\ retyped \subseteq Questions
      /\ touched \subseteq Questions /\ crossed \subseteq Questions
      /\ ans \in [Answers -> AnswerRow] /\ write \in [Writers -> WriteState]
  BY DEF IInv, Shape
<1>3. /\ type' \in [Questions -> Types] /\ retyped \subseteq retyped' /\ retyped' \subseteq Questions
      /\ \A p \in page.ques \ retyped' : type'[p] = type[p]
  BY <1>1, <1>2
<1>4. /\ write'[w].pc = "done" /\ \A v \in Writers \ {w} : write'[v] = write[v]
      /\ write' \in [Writers -> WriteState]
  BY <1>1, <1>2 DEF WriteState
<1>5. Used' = Used /\ \A p : Kept(p)' = Kept(p)  BY <1>1 DEF Used, Kept
<1>6. Numbering'
  <2>1. ASSUME NEW v \in Writers, write'[v].pc = "read" PROVE write'[v] = write[v]
    BY <1>4, <2>1
  <2> QED  BY <1>1, <1>5, <2>1 DEF IInv, Numbering
<1> QED  BY <1>1, <1>2, <1>3, <1>4, <1>6, BankStep

------------------------------------------------------------------------------
(* The bank loses a question *)

LEMMA DeleteQuestionStep ==
  ASSUME IInv, NEW q \in Questions, DeleteQuestion(q)
  PROVE  IInv'
<1>0. /\ bank \subseteq Questions /\ ans \in [Answers -> AnswerRow] /\ Paper \subseteq bank
      /\ erased.bank \subseteq Questions /\ erased.exam \subseteq erased.bank
      /\ erased.bank \cap bank = {} /\ touched \subseteq Questions
  BY DEF IInv, Shape, Editing
<1>1. /\ q \in bank /\ \A e \in Open : q \notin edit[e].add \cup edit[e].del
      /\ ~(att.pc = "graded" /\ q \in page.ques)
      /\ bank' = bank \ {q}
      /\ ans' = [a \in Answers |-> IF a \in Kept(q) THEN [ans[a] EXCEPT !.pc = "gone"] ELSE ans[a]]
      /\ exam' = [exam EXCEPT !.share = [p \in Paper \ {q} |-> exam.share[p]]]
      /\ row' = [p \in DOMAIN row \ {q} |-> row[p]]
      /\ Touch(q)
      /\ erased' = [bank |-> erased.bank \cup {q}, exam |-> erased.exam \cup ({q} \cap Paper)]
      /\ UNCHANGED <<edit, write, att, page, draft, left, crossed>>
      /\ UNCHANGED <<type, total_score, retyped, rescored>>
  BY DEF DeleteQuestion
<1>2. /\ exam' = [total |-> exam.total, share |-> [p \in Paper \ {q} |-> exam.share[p]]]
      /\ Paper' = Paper \ {q} /\ exam'.total = exam.total
      /\ exam'.share = [p \in Paper \ {q} |-> exam.share[p]]
  <2>1. exam = [total |-> exam.total, share |-> exam.share]  BY DEF IInv, Shape
  <2>2. exam' = [total |-> exam.total, share |-> [p \in Paper \ {q} |-> exam.share[p]]]
    BY <1>1, <2>1
  <2> QED  BY <2>2 DEF Paper
<1>3. \A a \in Answers :
        /\ a \in Kept(q) => ans'[a].pc = "gone" /\ ans'[a].ques = q /\ ans[a].ques = q
        /\ a \notin Kept(q) => ans'[a] = ans[a]
        /\ ans'[a] \in AnswerRow
  <2>1. ASSUME NEW a \in Kept(q)
        PROVE  ans'[a].pc = "gone" /\ ans'[a].ques = q /\ ans'[a] \in AnswerRow /\ ans[a].ques = q
    <3>1. ans[a] \in AnswerRow /\ ans[a].ques = q /\ a \in Answers  BY <1>0 DEF Kept
    <3>2. ans'[a] = [ans[a] EXCEPT !.pc = "gone"]  BY <1>1, <3>1
    <3> QED  BY <3>1, <3>2 DEF AnswerRow
  <2> QED  BY <1>0, <1>1, <2>1
<1>4. ans' \in [Answers -> AnswerRow]
  <2>1. ans' = [a \in Answers |-> ans'[a]]  BY <1>1
  <2> QED  BY <1>3, <2>1
<1>5. /\ Kept(q)' = {} /\ Used' = Used
      /\ \A p : p # q => Kept(p)' = Kept(p) /\ \A a \in Kept(p) : ans'[a] = ans[a]
  BY <1>3 DEF Kept, Used
<1>6. /\ touched \subseteq touched' /\ touched' \subseteq Questions
      /\ \A p \in page.ques \ touched' : \A b \in Answers :
           (ans'[b].ques = p \/ ans[b].ques = p) => ans'[b] = ans[b]
  <2>1. \A b \in Answers : ans'[b] # ans[b] => ans'[b].ques = q /\ ans[b].ques \in {q, NoQuestion}
    BY <1>3
  <2> QED  BY <1>1, <2>1, Touched
<1>7. Shape'
  <2>1. IsChoice(row')
    <3>1. row' = [p \in DOMAIN row' |-> row'[p]] /\ DOMAIN row' = DOMAIN row \ {q}
          /\ \A p \in DOMAIN row' : row'[p] = row[p]
      BY <1>1
    <3> QED  BY <3>1 DEF IInv, Shape, IsChoice
  <2>2. /\ erased' = [bank |-> erased'.bank, exam |-> erased'.exam]
        /\ erased'.bank \subseteq Questions /\ erased'.exam \subseteq erased'.bank
        /\ erased'.bank \cap bank' = {}
    BY <1>0, <1>1
  <2>3. Paper' \subseteq Questions /\ exam' = [total |-> exam'.total, share |-> exam'.share]
        /\ exam'.share = [p \in Paper' |-> exam'.share[p]]
    BY <1>0, <1>2
  <2>4. IsChoice(draft)' /\ IsChoice(page.picked)'  BY <1>1 DEF IInv, Shape, IsChoice
  <2>5. IsChoice(row)'  BY <2>1 DEF IsChoice
  <2>6. /\ edit' \in [Editors -> EditState] /\ write' \in [Writers -> WriteState]
        /\ att' = [pc |-> att'.pc, list |-> att'.list, mark |-> att'.mark, total |-> att'.total]
        /\ att'.pc \in {"none", "read", "open", "graded", "done"} /\ att'.list \subseteq Questions
        /\ page' = [loads |-> page'.loads, ques |-> page'.ques, type |-> page'.type,
                    aid |-> page'.aid, right |-> page'.right, picked |-> page'.picked]
        /\ page'.loads \in 0..MaxLoads /\ DOMAIN page'.picked = page'.ques
        /\ page'.aid \in [Answers -> Nat] /\ page'.right \subseteq Answers
        /\ crossed' \subseteq Questions /\ bank' \subseteq Questions /\ retyped' \subseteq Questions
        /\ type' \in [Questions -> Types] /\ total_score' \in Scores
    BY <1>0, <1>1 DEF IInv, Shape
  <2> QED  BY <1>4, <1>6, <2>2, <2>3, <2>4, <2>5, <2>6 DEF Shape
<1>8. Editing'
  <2>1. ASSUME NEW e \in Editors PROVE q \notin edit[e].add /\ q \notin edit[e].del
    <3>1. CASE e \in Open  BY <1>1, <3>1
    <3>2. CASE e \notin Open
      <4>1. edit[e].pc \in {"idle", "done"}  BY <3>2, ShapeFields DEF IInv, Open, Under
      <4> QED  BY <4>1 DEF IInv, Editing
    <3> QED  BY <3>1, <3>2
  <2>2. ASSUME NEW e \in Editors
        PROVE  /\ edit[e].add \subseteq bank' \ Paper' /\ edit[e].del \subseteq Paper'
               /\ edit[e].pc = "counted" /\ erased'.exam = {} => edit[e].num = Cardinality(PaperOf(e)')
    <3>1. edit[e].add \subseteq bank' \ Paper' /\ edit[e].del \subseteq Paper'
      BY <1>1, <1>2, <2>1 DEF IInv, Editing
    <3>2. CASE q \in Paper  BY <1>1, <3>1, <3>2
    <3>3. CASE q \notin Paper
      <4>1. PaperOf(e)' = PaperOf(e) /\ (erased'.exam = {} => erased.exam = {})
        BY <1>1, <1>2, <3>3 DEF PaperOf
      <4> QED  BY <3>1, <4>1 DEF IInv, Editing
    <3> QED  BY <3>2, <3>3
  <2>3. Paper' \subseteq bank'  BY <1>0, <1>1, <1>2
  <2>4. Under({"locked", "counted"})' = Under({"locked", "counted"})  BY <1>1 DEF Under
  <2> QED  BY <1>1, <2>2, <2>3, <2>4 DEF IInv, Editing
<1>9. Numbering'
  <2>1. ASSUME NEW p \in Questions \ crossed
        PROVE  {ans'[a].aid : a \in Kept(p)'} = 1..Cardinality(Kept(p)')
    <3>1. CASE p = q
      <4>1. Cardinality(Kept(p)') = 0  BY <1>5, <3>1, FS_EmptySet
      <4> QED  BY <1>5, <3>1, <4>1
    <3>2. CASE p # q
      <4>1. {ans'[a].aid : a \in Kept(p)'} = {ans[a].aid : a \in Kept(p)}  BY <1>5, <3>2
      <4> QED  BY <1>5, <2>1, <3>2, <4>1 DEF IInv, Numbering
    <3> QED  BY <3>1, <3>2
  <2>2. \A p \in Questions : \A a, b \in Kept(p)' : ans'[a].aid = ans'[b].aid => a = b
    BY <1>5 DEF IInv, Numbering
  <2>3. ASSUME NEW a \in Answers
        PROVE  /\ ans'[a].pc = "free" => ans'[a].ques = NoQuestion
               /\ ans'[a].pc = "kept" => ans'[a].ques \in Questions /\ ans'[a].aid \in 1..Cardinality(Used)
    BY <1>3 DEF IInv, Numbering
  <2>4. ASSUME NEW v \in Writers, write'[v].pc = "read"
        PROVE  (/\ write[v].ques \in Questions /\ write[v].last <= Cardinality(Used)
                /\ write[v].ques \in bank \ crossed =>
                     write[v].last <= Cardinality(Kept(write[v].ques)))'
    <3>1. PICK p : p = write[v].ques  OBVIOUS
    <3>2. /\ p \in Questions /\ write[v].last <= Cardinality(Used)
          /\ p \in bank \ crossed => write[v].last <= Cardinality(Kept(p))
      BY <1>1, <2>4, <3>1 DEF IInv, Numbering
    <3>3. p \in bank' \ crossed => write[v].last <= Cardinality(Kept(p)')
      BY <1>1, <1>5, <3>2
    <3>4. Kept(write[v].ques)' = Kept(p)'  BY <1>1, <3>1
    <3> QED  BY <1>1, <1>5, <3>1, <3>2, <3>3, <3>4
  <2> QED  BY <1>1, <1>5, <2>1, <2>2, <2>3, <2>4 DEF Numbering
<1>10. Attempting'
  BY <1>0, <1>1 DEF IInv, Attempting, AttemptKeepsItsPaper
<1>11. Showing' /\ GradedAsShown'  BY <1>1, <1>6, SeenTheSame
<1>12. ExamAddsUp'
  <2>1. /\ IsFiniteSet(Paper) /\ IsFiniteSet(erased.exam) /\ Paper \in SUBSET Questions
        /\ Cardinality(Paper) \in Nat /\ Cardinality(erased.exam) \in Nat
    <3>1. Paper \in SUBSET Questions /\ erased.exam \in SUBSET Questions  BY <1>0
    <3> QED  BY <3>1, FiniteQuestions
  <2>2. CASE q \in Paper
    <3>1. Cardinality(Paper') = Cardinality(Paper) - 1  BY <1>2, <2>1, <2>2, FS_RemoveElement
    <3>2. q \notin erased.exam /\ erased'.exam = erased.exam \cup {q}  BY <1>0, <1>1, <2>2
    <3>3. Cardinality(erased'.exam) = Cardinality(erased.exam) + 1  BY <2>1, <3>2, FS_AddElement
    <3>4. erased'.exam # {}  BY <3>2
    <3> QED  BY <1>2, <2>1, <3>1, <3>3, <3>4 DEF IInv, ExamAddsUp
  <2>3. CASE q \notin Paper
    <3>1. Paper' = Paper /\ erased'.exam = erased.exam  BY <1>1, <1>2, <2>3
    <3>2. \A p \in Paper : exam'.share[p] = exam.share[p]  BY <1>2, <2>3
    <3>3. total_score' = total_score /\ rescored' = rescored  BY <1>1
    <3> QED  BY <1>2, <3>1, <3>2, <3>3 DEF IInv, ExamAddsUp
  <2> QED  BY <2>2, <2>3
<1> QED  BY <1>7, <1>8, <1>9, <1>10, <1>11, <1>12 DEF IInv

------------------------------------------------------------------------------
(* The attempt and its page *)

\* What the student does leaves the bank and the exam alone.
LEMMA AttemptStep ==
  ASSUME IInv, UNCHANGED <<bankVars, examVars, erased>>,
         Shape', Attempting', Showing', GradedAsShown'
  PROVE  IInv'
<1>1. UNCHANGED <<bank, ans, write, crossed, exam, total_score, rescored, edit, erased>>
  BY DEF bankVars, examVars
<1>2. Paper' = Paper /\ \A e : PaperOf(e)' = PaperOf(e)  BY <1>1 DEF Paper, PaperOf
<1>3. Editing'  BY <1>1, <1>2 DEF IInv, Editing, Under
<1>4. Used' = Used /\ \A q : Kept(q)' = Kept(q)  BY <1>1 DEF Used, Kept
<1>5. Numbering'  BY <1>1, <1>4 DEF IInv, Numbering
<1>6. ExamAddsUp'  BY <1>1, <1>2 DEF IInv, ExamAddsUp
<1> QED  BY <1>3, <1>5, <1>6 DEF IInv

\* The shapes that such a step can change.
LEMMA AttemptShape ==
  ASSUME IInv, UNCHANGED <<bankVars, examVars, erased>>,
         att' = [pc |-> att'.pc, list |-> att'.list, mark |-> att'.mark, total |-> att'.total],
         att'.pc \in {"none", "read", "open", "graded", "done"}, att'.list \subseteq Questions,
         IsChoice(row'), IsChoice(draft'), IsChoice(page'.picked),
         page' = [loads |-> page'.loads, ques |-> page'.ques, type |-> page'.type,
                  aid |-> page'.aid, right |-> page'.right, picked |-> page'.picked],
         page'.loads \in 0..MaxLoads, DOMAIN page'.picked = page'.ques,
         page'.aid \in [Answers -> Nat], page'.right \subseteq Answers,
         touched' \subseteq Questions, retyped' \subseteq Questions
  PROVE  Shape'
<1>1. UNCHANGED <<bank, type, ans, write, crossed, exam, total_score, edit, erased>>
  BY DEF bankVars, examVars
<1>2. IsChoice(row)' /\ IsChoice(draft)' /\ IsChoice(page.picked)'  BY DEF IsChoice
<1> QED  BY <1>1, <1>2 DEF IInv, Shape, Paper

LEMMA ReadPaperStep ==
  ASSUME IInv, ReadPaper
  PROVE  IInv'
<1>1. /\ att.pc = "none" /\ att' = [pc |-> "read", list |-> Paper, mark |-> att.mark, total |-> att.total]
      /\ UNCHANGED <<bankVars, examVars, erased, row, page, draft, touched, retyped>>
  <2>1. att = [pc |-> att.pc, list |-> att.list, mark |-> att.mark, total |-> att.total]
    BY DEF IInv, Shape
  <2>2. att' = [att EXCEPT !.pc = "read", !.list = Paper]  BY DEF ReadPaper
  <2>3. att' = [pc |-> "read", list |-> Paper, mark |-> att.mark, total |-> att.total]  BY <2>1, <2>2
  <2> QED  BY <2>3 DEF ReadPaper, edited
<1>2. Shape'  BY <1>1, AttemptShape DEF IInv, Shape
<1>3. page.loads = 0 /\ bank' = bank /\ DOMAIN row \subseteq bank /\ page.ques = {}
  BY <1>1 DEF IInv, Attempting, bankVars
<1>4. Attempting'  BY <1>1, <1>3 DEF Attempting, AttemptKeepsItsPaper
<1>5. Showing' /\ GradedAsShown'  BY <1>1, <1>3 DEF Showing, GradedAsShown
<1> QED  BY <1>1, <1>2, <1>4, <1>5, AttemptStep

LEMMA StartStep ==
  ASSUME IInv, StartAttempt
  PROVE  IInv'
<1>1. /\ att.pc = "read" /\ UNCHANGED <<bankVars, examVars, erased, page, draft, touched, retyped>>
      /\ att = [pc |-> att.pc, list |-> att.list, mark |-> att.mark, total |-> att.total]
      /\ bank' = bank /\ erased' = erased
  BY DEF StartAttempt, bankVars, edited, IInv, Shape
<1>2. page.loads = 0 /\ page.ques = {} /\ att.list \subseteq Questions /\ erased.bank \cap bank = {}
  BY <1>1 DEF IInv, Shape, Attempting
<1>3. CASE att.list \subseteq bank
  <2>1. att' = [att EXCEPT !.pc = "open"] /\ row' = [q \in att.list |-> {}]
    BY <1>3 DEF StartAttempt
  <2>2. att' = [pc |-> "open", list |-> att.list, mark |-> att.mark, total |-> att.total]
    BY <1>1, <2>1
  <2>3. IsChoice(row')
    <3>1. \A q \in att.list : row'[q] = {}  BY <2>1
    <3> QED  BY <1>2, <2>1, <3>1, FS_EmptySet DEF IsChoice
  <2>4. Shape'  BY <1>1, <1>2, <2>2, <2>3, AttemptShape DEF IInv, Shape
  <2>5. DOMAIN row' = att.list  BY <2>1
  <2>6. Attempting'
    BY <1>1, <1>2, <1>3, <2>2, <2>5 DEF Attempting, AttemptKeepsItsPaper
  <2>7. Showing' /\ GradedAsShown'  BY <1>1, <1>2, <2>2 DEF Showing, GradedAsShown
  <2> QED  BY <1>1, <2>4, <2>6, <2>7, AttemptStep
<1>4. CASE ~(att.list \subseteq bank)
  <2>1. att' = [att EXCEPT !.pc = "none"] /\ row' = row  BY <1>4 DEF StartAttempt
  <2>2. att' = [pc |-> "none", list |-> att.list, mark |-> att.mark, total |-> att.total]
    BY <1>1, <2>1
  <2>3. Shape'  BY <1>1, <1>2, <2>1, <2>2, AttemptShape DEF IInv, Shape
  <2>4. Attempting'
    BY <1>1, <1>2, <2>1, <2>2 DEF IInv, Attempting, AttemptKeepsItsPaper
  <2>5. Showing' /\ GradedAsShown'  BY <1>1, <1>2, <2>2 DEF Showing, GradedAsShown
  <2> QED  BY <1>1, <2>3, <2>4, <2>5, AttemptStep
<1> QED  BY <1>3, <1>4

LEMMA LoadStep ==
  ASSUME IInv, LoadPage
  PROVE  IInv'
<1> DEFINE D == DOMAIN row
           Shown == UNION {Kept(q) : q \in D}
           aid == [a \in Answers |-> IF a \in Shown THEN ans[a].aid ELSE 0]
           picked == [q \in D |-> IF q \in DOMAIN row THEN Restored(q) ELSE {}]
<1>1. /\ att.pc = "open" /\ page.loads < MaxLoads /\ touched' = {} /\ retyped' = {}
      /\ page' = [loads |-> page.loads + 1, ques |-> D, type |-> [q \in D |-> type[q]], aid |-> aid,
                  right |-> {a \in Shown : ans[a].right}, picked |-> picked]
      /\ UNCHANGED <<bankVars, examVars, erased, att, row, draft>>
      /\ bank' = bank /\ erased' = erased /\ ans' = ans /\ type' = type
  BY DEF LoadPage, ListShown, bankVars
<1>2. /\ page'.loads = page.loads + 1 /\ page'.ques = D /\ page'.aid = aid
      /\ page'.right = {a \in Shown : ans[a].right} /\ page'.picked = picked
      /\ page'.type = [q \in D |-> type[q]]
  BY <1>1
<1>3. ASSUME NEW a \in Answers, ans[a].ques \in D
      PROVE  a \in Shown <=> ans[a].pc = "kept"
  BY <1>3 DEF Kept
<1>4. Shown \subseteq Answers  BY DEF Kept
<1>5. aid \in [Answers -> Nat]  BY ShapeFields DEF IInv
<1>6. IsChoice(picked) /\ DOMAIN picked = D
  <2>1. D \subseteq Questions /\ IsChoice(row) /\ IsChoice(draft)  BY DEF IInv, Shape, IsChoice
  <2>2. ASSUME NEW q \in D
        PROVE  picked[q] \subseteq Nat /\ IsFiniteSet(picked[q])
    <3>1. picked[q] = Restored(q)  OBVIOUS
    <3>2. CASE row[q] # {}  BY <2>1, <3>1, <3>2 DEF Restored, IsChoice
    <3>3. CASE row[q] = {} /\ q \in DOMAIN draft
      <4>1. picked[q] = draft[q]  BY <3>1, <3>3 DEF Restored
      <4> QED  BY <2>1, <3>3, <4>1 DEF IsChoice
    <3>4. CASE row[q] = {} /\ q \notin DOMAIN draft
      <4>1. picked[q] = {}  BY <3>1, <3>4 DEF Restored
      <4> QED  BY <4>1, FS_EmptySet
    <3> QED  BY <3>2, <3>3, <3>4
  <2>3. DOMAIN picked = D /\ picked = [q \in DOMAIN picked |-> picked[q]]  OBVIOUS
  <2> HIDE DEF picked
  <2> QED  BY <2>1, <2>2, <2>3 DEF IsChoice
<1>7. /\ page.loads + 1 \in 0..MaxLoads /\ page.loads + 1 > 0
  BY <1>1, ConstantsAssumption DEF IInv, Shape
<1>8. \A q \in D : \A a \in Answers : ans[a].ques = q =>
        /\ aid[a] = IF ans[a].pc = "kept" THEN ans[a].aid ELSE 0
        /\ a \in {b \in Shown : ans[b].right} <=> ans[a].pc = "kept" /\ ans[a].right
  BY <1>3
<1> HIDE DEF Shown, aid, picked
<1>9. {a \in Shown : ans[a].right} \subseteq Answers  BY <1>4
<1>10. Shape'
  <2>1. /\ att' = [pc |-> att'.pc, list |-> att'.list, mark |-> att'.mark, total |-> att'.total]
        /\ att'.pc \in {"none", "read", "open", "graded", "done"} /\ att'.list \subseteq Questions
        /\ IsChoice(row') /\ IsChoice(draft')
    BY <1>1 DEF IInv, Shape
  <2>2. page' = [loads |-> page'.loads, ques |-> page'.ques, type |-> page'.type,
                 aid |-> page'.aid, right |-> page'.right, picked |-> page'.picked]
    BY <1>1
  <2>3. IsChoice(page'.picked) /\ DOMAIN page'.picked = page'.ques  BY <1>2, <1>6
  <2>4. page'.loads \in 0..MaxLoads /\ page'.aid \in [Answers -> Nat] /\ page'.right \subseteq Answers
    BY <1>2, <1>5, <1>7, <1>9
  <2>5. touched' \subseteq Questions /\ retyped' \subseteq Questions  BY <1>1
  <2> QED  BY <1>1, <2>1, <2>2, <2>3, <2>4, <2>5, AttemptShape
<1>11. D = att.list \ erased.bank /\ D \subseteq bank
  BY <1>1 DEF IInv, Attempting, AttemptKeepsItsPaper
<1>12. Attempting'
  <2>1. page'.loads > 0 /\ page'.loads # 0 /\ page'.ques = D  BY <1>2, <1>7
  <2> QED  BY <1>1, <1>11, <2>1 DEF Attempting, AttemptKeepsItsPaper
<1>13. Showing'
  <2>1. page'.ques = D /\ page'.aid = aid /\ page'.right = {b \in Shown : ans[b].right}  BY <1>2
  <2>2. \A q \in D : page'.type[q] = type'[q]  BY <1>1, <1>2
  <2> QED  BY <1>1, <1>8, <2>1, <2>2 DEF Showing
<1>14. GradedAsShown'  BY <1>1 DEF GradedAsShown
<1> QED  BY <1>1, <1>10, <1>12, <1>13, <1>14, AttemptStep

LEMMA PickStep ==
  ASSUME IInv, NEW q \in Questions, NEW a \in Answers, Pick(q, a)
  PROVE  IInv'
<1> DEFINE n == page.aid[a]
           S == IF page.type[q] # "multiple" THEN {n}
                ELSE IF n \in page.picked[q] THEN page.picked[q] \ {n} ELSE page.picked[q] \cup {n}
           picked == [page.picked EXCEPT ![q] = S]
<1>1. /\ att.pc = "open" /\ q \in page.ques
      /\ page' = [page EXCEPT !.picked = picked] /\ draft' = picked /\ Saved(picked)
      /\ UNCHANGED <<bankVars, examVars, erased, att, touched, retyped>>
      /\ bank' = bank /\ erased' = erased /\ ans' = ans /\ type' = type
  BY DEF Pick, Picked, bankVars, edited
<1>2. /\ page = [loads |-> page.loads, ques |-> page.ques, type |-> page.type, aid |-> page.aid,
                 right |-> page.right, picked |-> page.picked]
      /\ IsChoice(page.picked) /\ DOMAIN page.picked = page.ques /\ n \in Nat
  BY DEF IInv, Shape
<1>3. S \subseteq Nat /\ IsFiniteSet(S)
  <2>1. page.picked[q] \subseteq Nat /\ IsFiniteSet(page.picked[q])  BY <1>1, <1>2 DEF IsChoice
  <2> HIDE DEF n
  <2>a. PICK P : P = page.picked[q]  OBVIOUS
  <2>b. IsFiniteSet({n})  BY FS_Singleton
  <2>c. IsFiniteSet(P \ {n})  BY <2>1, <2>a, FS_RemoveElement
  <2>d. IsFiniteSet(P \cup {n})  BY <2>1, <2>a, FS_AddElement
  <2>2. IsFiniteSet({n}) /\ IsFiniteSet(page.picked[q] \ {n}) /\ IsFiniteSet(page.picked[q] \cup {n})
    BY <2>a, <2>b, <2>c, <2>d
  <2> QED  BY <1>2, <2>1, <2>2
<1> HIDE DEF S
<1>4. IsChoice(picked) /\ DOMAIN picked = page.ques
  <2>1. DOMAIN picked = page.ques /\ picked = [p \in DOMAIN picked |-> picked[p]]
    BY <1>2 DEF IsChoice
  <2>2. \A p \in page.ques : picked[p] = IF p = q THEN S ELSE page.picked[p]
    BY <1>2 DEF IsChoice
  <2> HIDE DEF picked
  <2> QED  BY <1>2, <1>3, <2>1, <2>2 DEF IsChoice
<1> HIDE DEF picked
<1>5. /\ page'.loads = page.loads /\ page'.ques = page.ques /\ page'.aid = page.aid
      /\ page'.right = page.right /\ page'.picked = picked /\ page'.type = page.type
      /\ page' = [loads |-> page'.loads, ques |-> page'.ques, type |-> page'.type,
                  aid |-> page'.aid, right |-> page'.right, picked |-> page'.picked]
  BY <1>1, <1>2
<1>6. row' = row \/ (row' = picked /\ page.ques \subseteq bank)  BY <1>1 DEF Saved
<1>7. IsChoice(row')
  <2>1. IsChoice(row)  BY DEF IInv, Shape
  <2> QED  BY <1>4, <1>6, <2>1
<1>8. Shape'
  <2>1. /\ att' = [pc |-> att'.pc, list |-> att'.list, mark |-> att'.mark, total |-> att'.total]
        /\ att'.pc \in {"none", "read", "open", "graded", "done"} /\ att'.list \subseteq Questions
        /\ touched' \subseteq Questions /\ retyped' \subseteq Questions
        /\ page'.loads \in 0..MaxLoads
        /\ page'.aid \in [Answers -> Nat] /\ page'.right \subseteq Answers
    BY <1>1, <1>5 DEF IInv, Shape
  <2>2. IsChoice(draft') /\ IsChoice(page'.picked) /\ DOMAIN page'.picked = page'.ques
    BY <1>1, <1>4, <1>5
  <2> QED  BY <1>1, <1>5, <1>7, <2>1, <2>2, AttemptShape
<1>9. Attempting'
  <2>1. page.loads # 0 /\ page.loads \in Nat  BY <1>1, ConstantsAssumption DEF IInv, Attempting, Shape
  <2>2. /\ att.list \ erased.bank \subseteq page.ques /\ page.ques \subseteq att.list
        /\ DOMAIN row = att.list \ erased.bank /\ DOMAIN row \subseteq bank /\ erased.bank \cap bank = {}
    BY <1>1, <2>1 DEF IInv, Shape, Attempting, AttemptKeepsItsPaper
  <2>3. DOMAIN row' = att.list \ erased.bank /\ DOMAIN row' \subseteq bank
    <3>1. CASE row' = row  BY <2>2, <3>1
    <3>2. CASE row' = picked /\ page.ques \subseteq bank  BY <1>4, <2>2, <3>2
    <3> QED  BY <1>6, <3>1, <3>2
  <2> QED  BY <1>1, <1>5, <2>1, <2>2, <2>3 DEF Attempting, AttemptKeepsItsPaper
<1>10. Showing'  BY <1>1, <1>5 DEF IInv, Showing
<1>11. GradedAsShown'  BY <1>1 DEF GradedAsShown
<1> QED  BY <1>1, <1>8, <1>9, <1>10, <1>11, AttemptStep

------------------------------------------------------------------------------
(* The marks *)

\* A share of the mark is whole, and the whole mark only for all the right answers.
LEMMA ShareOfUnit ==
  ASSUME NEW n \in 1..Cardinality(Answers), NEW d \in 1..n
  PROVE  /\ (Unit * d) \div n > 0
         /\ (Unit * d) \div n = Unit <=> d = n
         /\ (Unit * d) \div n \in 0..Unit
<1>1. n \in Nat /\ n > 0 /\ d \in Nat /\ d > 0 /\ Unit \in Nat /\ Unit > 0 /\ Unit % n = 0
  <2>1. Cardinality(Answers) \in Nat  BY ConstantsAssumption, FS_CardinalityType
  <2> QED  BY <2>1, ConstantsAssumption
<1> DEFINE k == Unit \div n
<1>2. k \in Nat /\ Unit = n * k  BY <1>1
<1> HIDE DEF k
<1>3. Unit * d = n * (k * d) /\ k * d \in Nat  BY <1>1, <1>2
<1>4. \A c \in Nat : (n * c) \div n = c  BY <1>1
<1>5. (Unit * d) \div n = k * d  BY <1>3, <1>4
<1>6. k > 0  BY <1>1, <1>2
<1>7. k * d > 0 /\ (k * d = n * k <=> d = n)  BY <1>1, <1>2, <1>6
<1>8. k * d \in 0..Unit
  <2>1. PICK c \in Nat : n = d + c
    <3>1. n - d \in Nat /\ n = d + (n - d)  BY <1>1
    <3> QED  BY <3>1
  <2>2. n * k = d * k + c * k /\ c * k \in Nat /\ k * d \in Nat /\ d * k = k * d  BY <1>1, <1>2, <2>1
  <2> QED  BY <1>2, <2>2
<1> QED  BY <1>2, <1>5, <1>7, <1>8

\* A set of answers of one question is as big as the set of their numbers.
LEMMA Numbers ==
  ASSUME IInv, NEW q \in Questions, NEW T \in SUBSET Kept(q)
  PROVE  /\ IsFiniteSet(T) /\ Cardinality({ans[a].aid : a \in T}) = Cardinality(T)
         /\ Cardinality(T) \in Nat
<1> DEFINE f == [a \in T |-> ans[a].aid]
<1>1. IsFiniteSet(T)  BY KeptFinite, FS_Subset
<1>2. \A a, b \in T : f[a] = f[b] => a = b  BY DEF IInv, Numbering
<1>3. {f[a] : a \in T} = {ans[a].aid : a \in T}  OBVIOUS
<1> HIDE DEF f
<1>4. Cardinality({f[a] : a \in T}) = Cardinality(T)  BY <1>1, <1>2, ImageCardinality
<1> QED  BY <1>1, <1>3, <1>4, FS_CardinalityType

\* What is chosen on the page and what it promises, in the answers there are.
LEMMA SeenChoice ==
  ASSUME IInv, NEW q \in page.ques \ touched
  PROVE  /\ q \in Questions /\ page.picked[q] \subseteq Nat /\ IsFiniteSet(page.picked[q])
         /\ \A a \in Kept(q) : ans[a].aid # 0
         /\ Chosen(q) = {a \in Kept(q) : ans[a].aid \in page.picked[q]}
         /\ Promised(q) = {a \in Kept(q) : ans[a].right}
         /\ Chosen(q) \subseteq Kept(q) /\ Promised(q) \subseteq Kept(q)
         /\ \A a \in Kept(q) : page.aid[a] = ans[a].aid
         /\ RightAids(q) = {ans[a].aid : a \in Promised(q)}
<1>1. q \in Questions /\ page.right \subseteq Answers /\ IsChoice(page.picked) /\ q \in DOMAIN page.picked
  BY DEF IInv, Shape, IsChoice
<1>2. page.picked[q] \subseteq Nat /\ IsFiniteSet(page.picked[q])  BY <1>1 DEF IsChoice
<1>3. \A a \in Answers : ans[a].ques = q =>
        /\ page.aid[a] = IF ans[a].pc = "kept" THEN ans[a].aid ELSE 0
        /\ a \in page.right <=> ans[a].pc = "kept" /\ ans[a].right
  BY DEF IInv, Showing
<1>4. \A a \in Kept(q) : a \in Answers /\ ans[a].pc = "kept" /\ ans[a].ques = q /\ ans[a].aid # 0
  <2>1. ASSUME NEW a \in Kept(q) PROVE ans[a].aid \in 1..Cardinality(Used)
    BY DEF Kept, IInv, Numbering
  <2> QED  BY <2>1, KeptFinite DEF Kept
<1>5. Chosen(q) = {a \in Kept(q) : ans[a].aid \in page.picked[q]}
  <2>1. ASSUME NEW a \in Chosen(q) PROVE a \in Kept(q) /\ ans[a].aid \in page.picked[q]
    BY <1>3 DEF Chosen, Kept
  <2>2. ASSUME NEW a \in Kept(q), ans[a].aid \in page.picked[q] PROVE a \in Chosen(q)
    BY <1>3, <1>4, <2>2 DEF Chosen
  <2> QED  BY <2>1, <2>2
<1>6. Promised(q) = {a \in Kept(q) : ans[a].right}
  BY <1>1, <1>3 DEF Promised, Kept
<1>7. \A a \in Kept(q) : page.aid[a] = ans[a].aid  BY <1>3, <1>4
<1>8. RightAids(q) = {ans[a].aid : a \in Promised(q)}  BY <1>6 DEF RightAids
<1> QED  BY <1>1, <1>2, <1>4, <1>5, <1>6, <1>7, <1>8

\* Where the page shows right answers, nothing is earned without one of them.
LEMMA RightNeeded ==
  ASSUME IInv, NEW q \in page.ques \ touched, Promised(q) # {}, NEW m \in Marks(q, page.picked[q]),
         m > 0
  PROVE  Chosen(q) \cap Promised(q) # {}
<1> DEFINE C == page.picked[q]
           R == RightAids(q)
<1>1. /\ Chosen(q) = {a \in Kept(q) : ans[a].aid \in C} /\ Promised(q) \subseteq Kept(q)
      /\ R = {ans[a].aid : a \in Promised(q)} /\ \A a \in Kept(q) : ans[a].aid # 0
  BY SeenChoice
<1>2. R # {} /\ 0 \notin R  BY <1>1
<1>3. SUFFICES C \cap R # {}  BY <1>1
<1>4. CASE type[q] = "single"
  <2>1. m \in SingleMarks(q, C)  BY <1>4 DEF Marks
  <2> HIDE DEF C
  <2>2. PICK mine \in First(C), right \in First(R) : m = IF mine = right THEN Unit ELSE 0
    BY <2>1 DEF SingleMarks
  <2> HIDE DEF R
  <2>3. mine = right /\ right \in R /\ right # 0  BY <1>2, <2>2 DEF First
  <2> QED  BY <2>2, <2>3 DEF First
<1>5. CASE type[q] = "multiple"
  <2>1. m = MultipleMark(q, C)  BY <1>5 DEF Marks
  <2>2. ASSUME C \cap R = {} PROVE FALSE
    <3>1. Cardinality(C \cap R) = 0  BY <2>2, FS_EmptySet
    <3>2. Cardinality(C \ R) \in Nat
      <4>1. IsFiniteSet(C)  BY SeenChoice
      <4> HIDE DEF C, R
      <4>2. C \ R \in SUBSET C  OBVIOUS
      <4> QED  BY <4>1, <4>2, FS_Subset, FS_CardinalityType
    <3> HIDE DEF C
    <3> QED  BY <2>1, <3>1, <3>2 DEF MultipleMark
  <2> QED  BY <2>2
<1>6. CASE type[q] \notin {"single", "multiple"}
  <2>1. m = 0  BY <1>6 DEF Marks
  <2> QED  BY <2>1
<1> QED  BY <1>4, <1>5, <1>6

LEMMA SingleEarned ==
  ASSUME IInv, NEW q \in page.ques \ touched, type[q] = "single", Cardinality(Promised(q)) = 1,
         Cardinality(page.picked[q]) <= 1, NEW m \in Marks(q, page.picked[q])
  PROVE  m = IF Chosen(q) = Promised(q) THEN Unit ELSE 0
<1>0. PICK C : C = page.picked[q]  OBVIOUS
<1>1. /\ q \in Questions /\ IsFiniteSet(C) /\ \A b \in Kept(q) : ans[b].aid # 0
      /\ Chosen(q) = {b \in Kept(q) : ans[b].aid \in C}
      /\ Promised(q) \in SUBSET Kept(q) /\ RightAids(q) = {ans[b].aid : b \in Promised(q)}
  BY <1>0, SeenChoice
<1>2. PICK a : Promised(q) = {a}
  <2>1. IsFiniteSet(Promised(q))  BY <1>1, Numbers
  <2> QED  BY <2>1, FS_Singleton
<1>3. a \in Kept(q) /\ RightAids(q) = {ans[a].aid}  BY <1>1, <1>2
<1>4. C = {} \/ \E x : C = {x}
  <2>1. Cardinality(C) \in Nat /\ Cardinality(C) <= 1  BY <1>0, <1>1, FS_CardinalityType
  <2>2. Cardinality(C) = 0 \/ Cardinality(C) = 1  BY <2>1
  <2> QED  BY <1>1, <2>2, FS_EmptySet, FS_Singleton
<1>5. m = IF C = {ans[a].aid} THEN Unit ELSE 0
  <2>1. m \in SingleMarks(q, C)  BY <1>0 DEF Marks
  <2>2. PICK mine \in First(C), right \in First(RightAids(q)) : m = IF mine = right THEN Unit ELSE 0
    BY <2>1 DEF SingleMarks
  <2>3. right = ans[a].aid /\ ans[a].aid # 0  BY <1>1, <1>3, <2>2 DEF First
  <2>4. mine = ans[a].aid <=> C = {ans[a].aid}  BY <1>4, <2>2, <2>3 DEF First
  <2> QED  BY <2>2, <2>3, <2>4
<1>6. \A b \in Kept(q) : ans[b].aid = ans[a].aid => b = a  BY <1>1, <1>3 DEF IInv, Numbering
<1>7. C = {ans[a].aid} <=> Chosen(q) = {a}
  <2>1. ASSUME C = {ans[a].aid} PROVE Chosen(q) = {a}
    BY <1>1, <1>3, <1>6, <2>1
  <2>2. ASSUME Chosen(q) = {a} PROVE C = {ans[a].aid}
    <3>1. ans[a].aid \in C  BY <1>1, <2>2
    <3> QED  BY <1>4, <3>1
  <2> QED  BY <2>1, <2>2
<1> QED  BY <1>2, <1>5, <1>7

LEMMA MultipleEarned ==
  ASSUME IInv, NEW q \in page.ques \ touched, type[q] = "multiple", Promised(q) # {}, Unseen(q) = {},
         NEW m \in Marks(q, page.picked[q])
  PROVE  /\ (m = Unit) = (Chosen(q) = Promised(q))
         /\ (m > 0) = (Cardinality(Chosen(q) \cap Promised(q)) > Cardinality(Chosen(q) \ Promised(q)))
<1> DEFINE C == page.picked[q]
           Aids(T) == {ans[a].aid : a \in T}
           both == Chosen(q) \cap Promised(q)
           only == Chosen(q) \ Promised(q)
<1>1. /\ q \in Questions /\ Chosen(q) = {a \in Kept(q) : ans[a].aid \in C}
      /\ Promised(q) \in SUBSET Kept(q) /\ Chosen(q) \in SUBSET Kept(q)
      /\ both \in SUBSET Kept(q) /\ only \in SUBSET Kept(q)
      /\ \A a \in Kept(q) : page.aid[a] = ans[a].aid
      /\ RightAids(q) = Aids(Promised(q))
  BY SeenChoice
<1>2. \A a, b \in Kept(q) : ans[a].aid = ans[b].aid => a = b  BY <1>1 DEF IInv, Numbering
<1>3. C = Aids(Chosen(q))
  <2>1. C \subseteq {page.aid[a] : a \in Chosen(q)}  BY DEF Unseen
  <2>2. {page.aid[a] : a \in Chosen(q)} = Aids(Chosen(q))  BY <1>1
  <2>3. Aids(Chosen(q)) \subseteq C  BY <1>1
  <2> QED  BY <2>1, <2>2, <2>3
<1>4. C \cap RightAids(q) = Aids(both)  BY <1>1, <1>2, <1>3
<1>5. C \ RightAids(q) = Aids(only)  BY <1>1, <1>2, <1>3
<1> DEFINE r == Cardinality(both)
           w == Cardinality(only)
           n == Cardinality(Promised(q))
<1>6. /\ Cardinality(C \cap RightAids(q)) = r /\ Cardinality(C \ RightAids(q)) = w
      /\ Cardinality(RightAids(q)) = n /\ r \in Nat /\ w \in Nat /\ n \in Nat
      /\ IsFiniteSet(Promised(q)) /\ IsFiniteSet(only)
  BY <1>1, <1>4, <1>5, Numbers
<1>7. n \in 1..Cardinality(Answers) /\ r <= n /\ Cardinality(Answers) \in Nat
  <2>1. Promised(q) \in SUBSET Answers  BY <1>1 DEF Kept
  <2>2. n <= Cardinality(Answers) /\ Cardinality(Answers) \in Nat
    BY <2>1, ConstantsAssumption, FS_Subset, FS_CardinalityType
  <2>3. n # 0  BY <1>6, FS_EmptySet
  <2>4. both \in SUBSET Promised(q)  OBVIOUS
  <2>5. r <= n  BY <1>6, <2>4, FS_Subset
  <2> QED  BY <1>6, <2>2, <2>3, <2>5
<1>8. Chosen(q) = Promised(q) <=> r = n /\ w = 0
  <2>1. w = 0 <=> only = {}  BY <1>6, FS_EmptySet
  <2>2. r = n <=> both = Promised(q)
    <3>1. both \in SUBSET Promised(q)  OBVIOUS
    <3> QED  BY <1>6, <3>1, FS_Subset
  <2> QED  BY <2>1, <2>2
<1>9. RightAids(q) # {}  BY <1>1
<1> HIDE DEF r, w, n
<1>10. m = IF r <= w THEN 0 ELSE (Unit * (r - w)) \div n
  <2>1. m = MultipleMark(q, C)  BY DEF Marks
  <2> HIDE DEF C
  <2> QED  BY <1>6, <2>1 DEF MultipleMark
<1>11. Unit \in Nat /\ Unit # 0  BY ConstantsAssumption
<1>12. CASE r <= w
  <2>1. m = 0 /\ ~ (r > w)  BY <1>6, <1>10, <1>12
  <2>2. ~ (r = n /\ w = 0)  BY <1>6, <1>7, <1>12
  <2> QED  BY <1>8, <1>11, <2>1, <2>2 DEF r, w
<1>13. CASE ~ (r <= w)
  <2>1. r - w \in 1..n /\ r > w  BY <1>6, <1>7, <1>13
  <2>2. m = (Unit * (r - w)) \div n  BY <1>10, <1>13
  <2>3. m > 0 /\ (m = Unit <=> r - w = n)  BY <1>7, <2>1, <2>2, ShareOfUnit
  <2>4. r - w = n <=> r = n /\ w = 0  BY <1>6, <1>7
  <2> QED  BY <1>8, <2>1, <2>3, <2>4 DEF r, w
<1> QED  BY <1>12, <1>13

LEMMA SubmitStep ==
  ASSUME IInv, Submit
  PROVE  IInv'
<1>1. PICK mark : /\ \A q \in page.ques : mark[q] \in Marks(q, page.picked[q])
                  /\ att' = [att EXCEPT !.pc = "graded", !.mark = mark]
  BY DEF Submit
<1>2. /\ att.pc = "open" /\ page.loads > 0 /\ page.ques \subseteq bank
      /\ UNCHANGED <<bankVars, examVars, row, page, draft, touched, retyped, erased>>
      /\ bank' = bank /\ erased' = erased /\ ans' = ans /\ type' = type
      /\ att = [pc |-> att.pc, list |-> att.list, mark |-> att.mark, total |-> att.total]
  BY DEF Submit, bankVars, edited, IInv, Shape
<1>3. att' = [pc |-> "graded", list |-> att.list, mark |-> mark, total |-> att.total]  BY <1>1, <1>2
<1>4. Shape'  BY <1>2, <1>3, AttemptShape DEF IInv, Shape
<1>5. Attempting'
  <2>1. page.loads # 0  BY <1>2
  <2> QED  BY <1>2, <1>3, <2>1 DEF IInv, Attempting, AttemptKeepsItsPaper
<1>6. Showing'  BY <1>2 DEF IInv, Showing
<1>7. GradedAsShown'
  <2>1. \A q : Chosen(q)' = Chosen(q) /\ Promised(q)' = Promised(q)  BY <1>2 DEF Chosen, Promised
  <2>2. \A q : Unseen(q)' = Unseen(q)  BY <1>2, <2>1 DEF Unseen
  <2>3. ASSUME NEW q \in page.ques \ touched
        PROVE  /\ NeedsARightChoice(q)'
               /\ q \notin retyped => EarnsSingle(q)' /\ EarnsMultiple(q)'
    <3>1. PICK m : m = mark[q]  OBVIOUS
    <3>2. att'.mark[q] = m /\ m \in Marks(q, page.picked[q])  BY <1>1, <1>3, <3>1
    <3>3. NeedsARightChoice(q)'
      <4>1. m > 0 /\ Promised(q) # {} => Chosen(q) \cap Promised(q) # {}  BY <3>2, RightNeeded
      <4> QED  BY <2>1, <3>2, <4>1 DEF NeedsARightChoice
    <3>4. ASSUME q \notin retyped PROVE EarnsSingle(q)' /\ EarnsMultiple(q)'
      <4>1. page.type[q] = type[q] /\ page' = page  BY <1>2, <3>4 DEF IInv, Showing
      <4>2. EarnsSingle(q)'
        <5>1. type[q] = "single" /\ Cardinality(Promised(q)) = 1 /\ Cardinality(page.picked[q]) <= 1
                => m = IF Chosen(q) = Promised(q) THEN Unit ELSE 0
          BY <3>2, SingleEarned
        <5> QED  BY <2>1, <3>2, <4>1, <5>1 DEF EarnsSingle
      <4>3. EarnsMultiple(q)'
        <5>1. type[q] = "multiple" /\ Promised(q) # {} /\ Unseen(q) = {} =>
                /\ (m = Unit) = (Chosen(q) = Promised(q))
                /\ (m > 0) = (Cardinality(Chosen(q) \cap Promised(q))
                              > Cardinality(Chosen(q) \ Promised(q)))
          BY <3>2, MultipleEarned
        <5> QED  BY <2>1, <2>2, <3>2, <4>1, <5>1 DEF EarnsMultiple
      <4> QED  BY <4>2, <4>3
    <3> QED  BY <3>3, <3>4
  <2> QED  BY <1>2, <2>3 DEF GradedAsShown
<1> QED  BY <1>2, <1>4, <1>5, <1>6, <1>7, AttemptStep

LEMMA SettleStep ==
  ASSUME IInv, Settle
  PROVE  IInv'
<1>1. /\ att.pc = "graded" /\ UNCHANGED <<bankVars, examVars, page, draft, touched, retyped, erased>>
      /\ bank' = bank /\ erased' = erased /\ ans' = ans /\ type' = type
      /\ att = [pc |-> att.pc, list |-> att.list, mark |-> att.mark, total |-> att.total]
  BY DEF Settle, bankVars, edited, IInv, Shape
<1>2. /\ page.loads > 0 /\ page.ques \subseteq bank /\ page.loads # 0
      /\ att.list \ erased.bank \subseteq page.ques /\ page.ques \subseteq att.list
      /\ DOMAIN row = att.list \ erased.bank /\ DOMAIN row \subseteq bank /\ erased.bank \cap bank = {}
      /\ IsChoice(row) /\ IsChoice(page.picked) /\ DOMAIN page.picked = page.ques
  <2>1. page.loads > 0 /\ page.loads # 0  BY <1>1, ConstantsAssumption DEF IInv, Attempting, Shape
  <2> QED  BY <1>1, <2>1 DEF IInv, Shape, Attempting, AttemptKeepsItsPaper
<1>3. Showing'  BY <1>1 DEF IInv, Showing
<1>4. CASE exam.total = 0
  <2>1. att' = [att EXCEPT !.pc = "open", !.mark = [q \in {} |-> 0]] /\ row' = row
    BY <1>4 DEF Settle
  <2>2. att' = [pc |-> "open", list |-> att.list, mark |-> [q \in {} |-> 0], total |-> att.total]
    BY <1>1, <2>1
  <2>3. Shape'  BY <1>1, <1>2, <2>1, <2>2, AttemptShape DEF IInv, Shape
  <2>4. Attempting'  BY <1>1, <1>2, <2>1, <2>2 DEF Attempting, AttemptKeepsItsPaper
  <2>5. GradedAsShown'  BY <2>2 DEF GradedAsShown
  <2> QED  BY <1>1, <1>3, <2>3, <2>4, <2>5, AttemptStep
<1>5. CASE exam.total # 0
  <2>1. att' = [att EXCEPT !.pc = "done", !.total = exam.total] /\ row' = page.picked
    BY <1>5 DEF Settle
  <2>2. att' = [pc |-> "done", list |-> att.list, mark |-> att.mark, total |-> exam.total]
    BY <1>1, <2>1
  <2>3. Shape'  BY <1>1, <1>2, <2>1, <2>2, AttemptShape DEF IInv, Shape
  <2>4. Attempting'  BY <1>1, <1>2, <2>1, <2>2 DEF Attempting, AttemptKeepsItsPaper
  <2>5. GradedAsShown'
    <3>1. \A q : Chosen(q)' = Chosen(q) /\ Promised(q)' = Promised(q)  BY <1>1 DEF Chosen, Promised
    <3>2. \A q : Unseen(q)' = Unseen(q)  BY <1>1, <3>1 DEF Unseen
    <3>3. att'.mark = att.mark  BY <2>2
    <3>4. \A q \in page.ques \ touched :
            /\ NeedsARightChoice(q)
            /\ q \notin retyped => EarnsSingle(q) /\ EarnsMultiple(q)
      BY <1>1 DEF IInv, GradedAsShown
    <3>5. \A q \in page.ques \ touched :
            /\ NeedsARightChoice(q)'
            /\ q \notin retyped => EarnsSingle(q)' /\ EarnsMultiple(q)'
      BY <1>1, <3>1, <3>2, <3>3, <3>4 DEF NeedsARightChoice, EarnsSingle, EarnsMultiple
    <3> QED  BY <1>1, <3>5 DEF GradedAsShown
  <2> QED  BY <1>1, <1>3, <2>3, <2>4, <2>5, AttemptStep
<1> QED  BY <1>4, <1>5

------------------------------------------------------------------------------
(* The score *)

\* A mark is between nothing and the whole mark, whatever was chosen.
LEMMA MarkWithinUnit ==
  ASSUME IInv, NEW q \in Questions, NEW C \in SUBSET Nat, IsFiniteSet(C), NEW m \in Marks(q, C)
  PROVE  m \in 0..Unit
<1>1. Unit \in Nat /\ 0 \in 0..Unit /\ Unit \in 0..Unit  BY ConstantsAssumption
<1>2. CASE type[q] = "single"
  <2>1. m \in SingleMarks(q, C)  BY <1>2 DEF Marks
  <2>2. m \in {0, Unit}  BY <2>1 DEF SingleMarks
  <2> QED  BY <1>1, <2>2
<1>3. CASE type[q] = "multiple"
  <2> DEFINE T == {a \in Kept(q) : ans[a].right}
             R == RightAids(q)
             r == Cardinality(C \cap R)
             w == Cardinality(C \ R)
             n == Cardinality(R)
  <2>1. m = MultipleMark(q, C)  BY <1>3 DEF Marks
  <2>2. T \in SUBSET Kept(q) /\ R = {ans[a].aid : a \in T}  BY DEF RightAids
  <2>3. IsFiniteSet(T) /\ n = Cardinality(T) /\ n \in Nat  BY <2>2, Numbers
  <2>4. n <= Cardinality(Answers) /\ Cardinality(Answers) \in Nat
    <3>1. T \in SUBSET Answers  BY <2>2 DEF Kept
    <3> HIDE DEF T, n
    <3> QED  BY <2>3, <3>1, ConstantsAssumption, FS_Subset, FS_CardinalityType
  <2>5. r \in Nat /\ w \in Nat /\ r <= n
    <3> HIDE DEF R
    <3>1. C \cap R \in SUBSET C /\ C \ R \in SUBSET C  OBVIOUS
    <3>2. r \in Nat /\ w \in Nat  BY <3>1, FS_Subset, FS_CardinalityType
    <3>3. IsFiniteSet(R)
      <4> DEFINE f == [a \in T |-> ans[a].aid]
      <4>1. R = {f[a] : a \in T}  BY <2>2
      <4>2. \A a, b \in T : f[a] = f[b] => a = b  BY <2>2 DEF IInv, Numbering
      <4> HIDE DEF f, T
      <4> QED  BY <2>3, <4>1, <4>2, ImageCardinality
    <3>4. C \cap R \in SUBSET R  OBVIOUS
    <3> QED  BY <3>2, <3>3, <3>4, FS_Subset
  <2>6. m = IF r <= w THEN 0 ELSE (Unit * (r - w)) \div n
    BY <2>1 DEF MultipleMark
  <2> HIDE DEF r, w, n
  <2>7. CASE r <= w  BY <1>1, <2>6, <2>7
  <2>8. CASE ~ (r <= w)
    <3>1. r - w \in 1..n /\ n \in 1..Cardinality(Answers)  BY <2>3, <2>4, <2>5, <2>8
    <3>2. (Unit * (r - w)) \div n \in 0..Unit  BY <3>1, ShareOfUnit
    <3> QED  BY <2>6, <2>8, <3>2
  <2> QED  BY <2>7, <2>8
<1>4. CASE type[q] \notin {"single", "multiple"}
  <2>1. m = 0  BY <1>4 DEF Marks
  <2> QED  BY <1>1, <2>1
<1> QED  BY <1>2, <1>3, <1>4

\* Most steps leave alone what the score is made of.
LEMMA ScoringStays ==
  ASSUME Scoring, UNCHANGED <<exam, att, page.ques, left, erased>>
  PROVE  Scoring'
BY DEF Scoring, Paper

LEMMA ScoringEdits ==
  ASSUME Scoring, IInv, NEW e \in Editors, Commit(e)
  PROVE  Scoring'
<1>1. /\ UNCHANGED <<att, page, erased>> /\ left' = (left \/ edit[e].del # {})
      /\ exam' = [total |-> NewTotal(e),
                  share |-> [q \in PaperOf(e) |-> IF edit[e].num = 0 THEN exam.share[q]
                                                  ELSE [of |-> total_score, by |-> edit[e].num]]]
  BY DEF Commit, pageVars
<1>2. Paper' = PaperOf(e)  BY <1>1 DEF Paper
<1>3. left' \in BOOLEAN /\ (~left' => ~left /\ edit[e].del = {})  BY <1>1 DEF Scoring
<1>4. ~left' => Paper \subseteq Paper'  BY <1>2, <1>3 DEF PaperOf
<1> QED  BY <1>1, <1>3, <1>4 DEF Scoring

\* A question of the exam that leaves the bank is still counted.
LEMMA ScoringErases ==
  ASSUME Scoring, IInv, NEW q \in Questions, DeleteQuestion(q)
  PROVE  Scoring'
<1>1. /\ UNCHANGED <<att, page, left>>
      /\ exam' = [exam EXCEPT !.share = [p \in Paper \ {q} |-> exam.share[p]]]
      /\ erased' = [bank |-> erased.bank \cup {q}, exam |-> erased.exam \cup ({q} \cap Paper)]
  BY DEF DeleteQuestion
<1>2. exam = [total |-> exam.total, share |-> exam.share]  BY DEF IInv, Shape
<1>3. exam' = [total |-> exam.total, share |-> [p \in Paper \ {q} |-> exam.share[p]]]
  BY <1>1, <1>2
<1>4. Paper' = Paper \ {q}  BY <1>3 DEF Paper
<1>5. Paper \cup erased.exam \subseteq Paper' \cup erased'.exam  BY <1>1, <1>4
<1> QED  BY <1>1, <1>5 DEF Scoring

LEMMA ScoringReads ==
  ASSUME Scoring, IInv, ReadPaper \/ StartAttempt \/ LoadPage
  PROVE  Scoring'
<1>1. att = [pc |-> att.pc, list |-> att.list, mark |-> att.mark, total |-> att.total]
  BY DEF IInv, Shape
<1>2. UNCHANGED <<exam, erased>> /\ Paper' = Paper
  BY DEF ReadPaper, StartAttempt, LoadPage, examVars, Paper
<1>3. CASE ReadPaper
  <2>1. att' = [att EXCEPT !.pc = "read", !.list = Paper] /\ left' = FALSE  BY <1>3 DEF ReadPaper
  <2>2. att' = [pc |-> "read", list |-> Paper, mark |-> att.mark, total |-> att.total]  BY <1>1, <2>1
  <2> QED  BY <1>2, <2>1, <2>2 DEF Scoring
<1>4. CASE StartAttempt
  <2>1. att.pc = "read" /\ left' = left  BY <1>4 DEF StartAttempt
  <2>2. att' = [att EXCEPT !.pc = "open"] \/ att' = [att EXCEPT !.pc = "none"]
    BY <1>4 DEF StartAttempt
  <2>3. att'.list = att.list /\ att'.pc \in {"open", "none"}  BY <1>1, <2>2
  <2> QED  BY <1>2, <2>1, <2>3 DEF Scoring
<1>5. CASE LoadPage
  <2>1. att.pc = "open" /\ att' = att /\ left' = left  BY <1>5 DEF LoadPage
  <2> QED  BY <1>2, <2>1 DEF Scoring
<1> QED  BY <1>3, <1>4, <1>5

LEMMA ScoringPicks ==
  ASSUME Scoring, IInv, NEW q \in Questions, NEW a \in Answers, Pick(q, a)
  PROVE  Scoring'
<1>1. att.pc = "open" /\ UNCHANGED <<exam, att, left, erased>>  BY DEF Pick, examVars
<1>2. Paper' = Paper  BY <1>1 DEF Paper
<1> QED  BY <1>1, <1>2 DEF Scoring

\* The hand-in grades the questions the page shows.
LEMMA ScoringSubmits ==
  ASSUME Scoring, IInv, Submit
  PROVE  Scoring'
<1>1. PICK mark : /\ \A q \in page.ques : mark[q] \in Marks(q, page.picked[q])
                  /\ att' = [att EXCEPT !.pc = "graded", !.mark = mark]
  BY DEF Submit
<1>2. /\ att.pc = "open" /\ UNCHANGED <<exam, page, left, erased>>
      /\ att = [pc |-> att.pc, list |-> att.list, mark |-> att.mark, total |-> att.total]
  BY DEF Submit, examVars, IInv, Shape
<1>3. att' = [pc |-> "graded", list |-> att.list, mark |-> mark, total |-> att.total]  BY <1>1, <1>2
<1>4. ASSUME NEW q \in page.ques PROVE mark[q] \in 0..Unit
  <2>1. q \in Questions /\ page.picked[q] \in SUBSET Nat /\ IsFiniteSet(page.picked[q])
    BY <1>4 DEF IInv, Shape, IsChoice
  <2>2. mark[q] \in Marks(q, page.picked[q])  BY <1>1, <1>4
  <2> QED  BY <2>1, <2>2, MarkWithinUnit
<1>5. Paper' = Paper  BY <1>2 DEF Paper
<1> QED  BY <1>2, <1>3, <1>4, <1>5 DEF Scoring

\* The counter that divides the score counts the questions on the page, and those only more.
LEMMA ScoringSettles ==
  ASSUME Scoring, IInv, Settle
  PROVE  Scoring'
<1>1. /\ att.pc = "graded" /\ UNCHANGED <<exam, page, left, erased>>
      /\ att = [pc |-> att.pc, list |-> att.list, mark |-> att.mark, total |-> att.total]
  BY DEF Settle, examVars, IInv, Shape
<1>2. Paper' = Paper  BY <1>1 DEF Paper
<1>3. CASE exam.total = 0
  <2>1. att' = [att EXCEPT !.pc = "open", !.mark = [q \in {} |-> 0]]  BY <1>3 DEF Settle
  <2>2. att'.pc = "open" /\ att'.list = att.list  BY <1>1, <2>1
  <2> QED  BY <1>1, <1>2, <2>2 DEF Scoring
<1>4. CASE exam.total # 0
  <2>1. att' = [att EXCEPT !.pc = "done", !.total = exam.total]  BY <1>4 DEF Settle
  <2>2. att' = [pc |-> "done", list |-> att.list, mark |-> att.mark, total |-> exam.total]
    BY <1>1, <2>1
  <2>3. ASSUME ~left PROVE exam.total \in Nat /\ Cardinality(page.ques) <= exam.total
    <3> DEFINE P == Paper
               E == erased.exam
               Q == page.ques
    <3>1. page.loads > 0 /\ page.ques \subseteq att.list
      BY <1>1 DEF IInv, Attempting
    <3>2. Q \subseteq P \cup E  BY <1>1, <2>3, <3>1 DEF Scoring
    <3>3. IsFiniteSet(P) /\ IsFiniteSet(E) /\ Cardinality(P) \in Nat /\ Cardinality(E) \in Nat
      <4>1. P \in SUBSET Questions /\ E \in SUBSET Questions  BY DEF IInv, Shape
      <4> QED  BY <4>1, FiniteQuestions
    <3>4. exam.total = Cardinality(P) + Cardinality(E)  BY DEF IInv, ExamAddsUp
    <3> HIDE DEF P, E, Q
    <3>5. IsFiniteSet(P \cup E) /\ Cardinality(P \cup E) \in Nat
          /\ Cardinality(P \cup E) <= Cardinality(P) + Cardinality(E)
      <4>1. IsFiniteSet(P \cap E) /\ Cardinality(P \cap E) \in Nat
        <5>1. P \cap E \in SUBSET P  OBVIOUS
        <5> QED  BY <3>3, <5>1, FS_Subset, FS_CardinalityType
      <4>2. IsFiniteSet(P \cup E)
            /\ Cardinality(P \cup E) = Cardinality(P) + Cardinality(E) - Cardinality(P \cap E)
        BY <3>3, FS_Union
      <4>3. Cardinality(P \cup E) \in Nat  BY <4>2, FS_CardinalityType
      <4>4. Cardinality(P \cup E) <= Cardinality(P) + Cardinality(E)
        <5>1. PICK p, d, i, c : /\ p = Cardinality(P) /\ d = Cardinality(E)
                                /\ i = Cardinality(P \cap E) /\ c = Cardinality(P \cup E)
          OBVIOUS
        <5>2. p \in Nat /\ d \in Nat /\ i \in Nat /\ c = p + d - i  BY <3>3, <4>1, <4>2, <5>1
        <5>3. c <= p + d  BY <5>2
        <5> QED  BY <5>1, <5>3
      <4> QED  BY <4>2, <4>3, <4>4
    <3>6. Cardinality(Q) \in Nat /\ Cardinality(Q) <= Cardinality(P \cup E)
      BY <3>2, <3>5, FS_Subset, FS_CardinalityType
    <3>7. exam.total \in Nat /\ Cardinality(Q) <= exam.total  BY <3>3, <3>4, <3>5, <3>6
    <3> QED  BY <3>7 DEF Q
  <2> QED  BY <1>1, <2>2, <2>3 DEF Scoring
<1> QED  BY <1>3, <1>4

LEMMA NextScoring == IInv /\ Scoring /\ [Next]_vars => Scoring'
<1> SUFFICES ASSUME IInv, Scoring, [Next]_vars PROVE Scoring'  OBVIOUS
<1>1. CASE UNCHANGED vars
  <2>1. UNCHANGED <<exam, att, page.ques, left, erased>>  BY <1>1 DEF vars, history
  <2> QED  BY <2>1, ScoringStays
<1>2. ASSUME NEW e \in Editors, \/ \E Q \in SUBSET Questions : AddQuestions(e, Q)
                                \/ \E q \in Questions : RemoveQuestion(e, q)
                                \/ \E s \in Scores : UpdateExam(e, s)
                                \/ Lock(e) \/ Count(e) \/ Fail(e)
      PROVE  Scoring'
  <2>1. UNCHANGED <<exam, att, page.ques, left, erased>>
    BY <1>2 DEF AddQuestions, RemoveQuestion, UpdateExam, Lock, Count, Fail, pageVars
  <2> QED  BY <2>1, ScoringStays
<1>3. ASSUME NEW w \in Writers,
             \/ \E q \in Questions : ReadLast(w, q) \/ \E t \in Types : UpdateQuestion(w, q, t)
             \/ \E a \in Answers : \/ \E right \in BOOLEAN : AddAnswer(w, a, right)
                                   \/ DeleteAnswer(w, a) \/ UpdateAnswer(w, a)
             \/ AddRefused(w)
      PROVE  Scoring'
  <2>1. UNCHANGED <<exam, att, page.ques, left, erased>>
    BY <1>3 DEF ReadLast, UpdateQuestion, AddAnswer, DeleteAnswer, UpdateAnswer, AddRefused,
                examVars, pageVars
  <2> QED  BY <2>1, ScoringStays
<1>4. ASSUME NEW e \in Editors, Commit(e) PROVE Scoring'  BY <1>4, ScoringEdits
<1>5. ASSUME NEW q \in Questions, DeleteQuestion(q) PROVE Scoring'  BY <1>5, ScoringErases
<1>6. CASE ReadPaper \/ StartAttempt \/ LoadPage  BY <1>6, ScoringReads
<1>7. CASE Submit  BY <1>7, ScoringSubmits
<1>8. CASE Settle  BY <1>8, ScoringSettles
<1>9. ASSUME NEW q \in Questions, NEW a \in Answers, Pick(q, a) PROVE Scoring'
  BY <1>9, ScoringPicks
<1> QED  BY <1>1, <1>2, <1>3, <1>4, <1>5, <1>6, <1>7, <1>8, <1>9 DEF Next

------------------------------------------------------------------------------
(* The theorems *)

LEMMA Unchanged == ASSUME IInv, UNCHANGED vars PROVE IInv'
<1>1. /\ UNCHANGED <<bank, type, ans, exam, total_score, edit, write, att, row, page, draft>>
      /\ UNCHANGED <<touched, retyped, rescored, left, erased, crossed>>
  BY DEF vars, history
<1>2. UNCHANGED <<bankVars, examVars, erased>>  BY <1>1 DEF bankVars, examVars
<1>3. Shape'  BY <1>1 DEF IInv, Shape, IsChoice, Paper
<1>4. Attempting'  BY <1>1 DEF IInv, Attempting, AttemptKeepsItsPaper
<1>5. Showing' /\ GradedAsShown'  BY <1>1, SeenTheSame
<1> QED  BY <1>2, <1>3, <1>4, <1>5, AttemptStep

LEMMA NextIInv == IInv /\ [Next]_vars => IInv'
<1> SUFFICES ASSUME IInv, [Next]_vars PROVE IInv'  OBVIOUS
<1>1. CASE UNCHANGED vars  BY <1>1, Unchanged
<1>2. ASSUME NEW e \in Editors, \/ \E Q \in SUBSET Questions : AddQuestions(e, Q)
                                \/ \E q \in Questions : RemoveQuestion(e, q)
                                \/ \E s \in Scores : UpdateExam(e, s)
                                \/ Lock(e) \/ Count(e) \/ Commit(e) \/ Fail(e)
      PROVE  IInv'
  BY <1>2, EditSteps, CommitStep
<1>3. ASSUME NEW q \in Questions, DeleteQuestion(q) PROVE IInv'
  BY <1>3, DeleteQuestionStep
<1>4. ASSUME NEW w \in Writers,
             \/ \E q \in Questions : ReadLast(w, q) \/ \E t \in Types : UpdateQuestion(w, q, t)
             \/ \E a \in Answers : \/ \E right \in BOOLEAN : AddAnswer(w, a, right)
                                   \/ DeleteAnswer(w, a) \/ UpdateAnswer(w, a)
             \/ AddRefused(w)
      PROVE  IInv'
  BY <1>4, ReadSteps, AddStep, DeleteStep, UpdateStep, RetypeStep
<1>5. CASE ReadPaper \/ StartAttempt \/ LoadPage \/ Submit \/ Settle
  BY <1>5, ReadPaperStep, StartStep, LoadStep, SubmitStep, SettleStep
<1>6. ASSUME NEW q \in Questions, NEW a \in Answers, Pick(q, a) PROVE IInv'
  BY <1>6, PickStep
<1> QED  BY <1>1, <1>2, <1>3, <1>4, <1>5, <1>6 DEF Next

\* Every reachable state satisfies the inductive invariant.
THEOREM Inductive == Spec => []IInv
<1>1. Init => IInv  BY InitIInv
<1>2. IInv /\ [Next]_vars => IInv'  BY NextIInv
<1> QED  BY <1>1, <1>2, PTL DEF Spec

\* The rows of the bank, the exam and the attempt keep their shapes, whatever editors,
\* writers and the student do; and the answers of a question keep numbers of their own, in a
\* row from one but for the gap that an insertion leaves when an answer was deleted since it
\* read the last number (addAnswer reads it outside any transaction).
THEOREM TypeCorrect == Spec => []TypeOK
<1>1. IInv => TypeOK
  <2> SUFFICES ASSUME IInv PROVE TypeOK  OBVIOUS
  <2>1. exam.total \in Nat  BY ShapeFields DEF IInv, ExamAddsUp
  <2> QED  BY <2>1, ShapeFields DEF IInv, Shape, Editing, Numbering, Attempting, TypeOK
<1> QED  BY <1>1, Inductive, PTL

\* addQuestionToExam and removeQuestionFromExam leave the counter and the shares of an exam in
\* step with its rows, however many of them overlap: the update of total_ques takes the lock on
\* the exam's row before the rows are counted, and keeps it until the shares are written.  The
\* total they share is the exam's, which cannot change meanwhile, until updateExam changes it.
THEOREM CounterAndShares == Spec => []ExamAddsUp
<1>1. IInv => ExamAddsUp  BY DEF IInv
<1> QED  BY <1>1, Inductive, PTL

\* An attempt keeps the questions takeExam gave it, through edits of the exam, reloads, saves
\* and the hand-in, which all name the questions the page shows: those rows, or more that have
\* left the bank.
THEOREM AttemptKeepsPaper == Spec => []AttemptKeepsItsPaper
<1>1. IInv => AttemptKeepsItsPaper  BY DEF IInv, Attempting
<1> QED  BY <1>1, Inductive, PTL

\* calculateScore gives a choice what the page promised for it, as long as neither the answers
\* of the question nor its type have been edited since the page was loaded: the numbers that go
\* with the hand-in then name the answers the student saw.  A change of type alone can turn a
\* mark up or down, but gives none to whoever chose no right answer.
THEOREM EarnsWhatWasShown == Spec => []GradedAsShown
<1>1. IInv => GradedAsShown  BY DEF IInv
<1> QED  BY <1>1, Inductive, PTL

\* The score of an attempt stays within the total score of the exam: its marks are at most the
\* whole mark each, and total_ques, which divides their sum, is no smaller than the number of
\* questions on the page, unless one was removed from the exam since takeExam read them.
THEOREM ScoreIsWithinTotal == Spec => []ScoreWithinTotal
<1>1. Init => Scoring
  <2>1. Init => att.pc = "none" /\ left = FALSE  BY DEF Init
  <2> QED  BY <2>1 DEF Scoring
<1>2. IInv /\ Scoring /\ [Next]_vars => Scoring'  BY NextScoring
<1>3. IInv /\ Scoring => ScoreWithinTotal
  <2> SUFFICES ASSUME IInv, Scoring, att.pc = "done", ~left
               PROVE  MapThenSumSet(LAMBDA q : att.mark[q], page.ques) <= Unit * att.total
    BY DEF ScoreWithinTotal
  <2>1. PICK Q, f, t : Q = page.ques /\ f = att.mark /\ t = att.total  OBVIOUS
  <2>2. Q \in SUBSET Questions  BY <2>1 DEF IInv, Shape, IsChoice
  <2>3. IsFiniteSet(Q) /\ Cardinality(Q) \in Nat  BY <2>2, FiniteQuestions
  <2>4. \A q \in Q : f[q] \in 0..Unit  BY <2>1 DEF Scoring
  <2>5. t \in Nat /\ Cardinality(Q) <= t  BY <2>1 DEF Scoring
  \* The library's sum is the value of such a function.
  <2> DEFINE g == CHOOSE h : Sums(f, h, Q)
  <2>6. Sums(f, g, Q)  BY <2>3, SumsExist
  <2>7. MapThenSumSet(LAMBDA q : att.mark[q], page.ques) = g[Q]
    BY <2>1 DEF MapThenSumSet, MapThenFoldSet, Sums, SumStep, Some
  <2> HIDE DEF g
  <2>8. Unit \in Nat  BY ConstantsAssumption
  <2>9. g[Q] \in Nat /\ g[Q] <= Unit * Cardinality(Q)  BY <2>3, <2>4, <2>6, <2>8, SumsBounded
  <2>10. Unit * Cardinality(Q) <= Unit * t
    <3>1. PICK c \in Nat : t = Cardinality(Q) + c
      <4>1. t - Cardinality(Q) \in Nat /\ t = Cardinality(Q) + (t - Cardinality(Q))  BY <2>3, <2>5
      <4> QED  BY <4>1
    <3>2. Unit * t = Unit * Cardinality(Q) + Unit * c /\ Unit * c \in Nat
          /\ Unit * Cardinality(Q) \in Nat
      BY <2>3, <2>8, <3>1
    <3> QED  BY <3>2
  <2>11. Unit * Cardinality(Q) \in Nat /\ Unit * t \in Nat  BY <2>3, <2>5, <2>8
  <2>12. g[Q] <= Unit * t  BY <2>9, <2>10, <2>11
  <2> QED  BY <2>1, <2>7, <2>12
<1> QED  BY <1>1, <1>2, <1>3, Inductive, PTL DEF Spec

\* Whoever chooses what the page promised, in every question, gets every mark: calculateScore
\* loses none of them, if no answer or type was edited after the page was loaded and every
\* question has right answers, one if it is a single choice.
AsPromised(q) ==
  /\ Chosen(q) = Promised(q)
  /\ \/ /\ page.type[q] = "single" /\ Cardinality(Promised(q)) = 1
        /\ Cardinality(page.picked[q]) <= 1
     \/ page.type[q] = "multiple" /\ Promised(q) # {} /\ Unseen(q) = {}

Perfect ==
  /\ att.pc = "done" /\ page.ques \cap (touched \cup retyped) = {}
  /\ \A q \in page.ques : AsPromised(q)

THEOREM PerfectAttempt ==
  Spec => [](Perfect => MapThenSumSet(LAMBDA q : att.mark[q], page.ques)
                          = Unit * Cardinality(page.ques))
<1> DEFINE Sum == MapThenSumSet(LAMBDA q : att.mark[q], page.ques)
<1>1. IInv => (Perfect => Sum = Unit * Cardinality(page.ques))
  <2> SUFFICES ASSUME IInv, Perfect PROVE Sum = Unit * Cardinality(page.ques)  OBVIOUS
  <2>1. PICK Q, f : Q = page.ques /\ f = att.mark  OBVIOUS
  <2>2. Q \in SUBSET Questions  BY <2>1 DEF IInv, Shape, IsChoice
  <2>3. IsFiniteSet(Q) /\ Unit \in Nat  BY <2>2, FiniteQuestions, ConstantsAssumption
  <2>4. \A q \in Q : f[q] = Unit
    <3> SUFFICES ASSUME NEW q \in page.ques PROVE att.mark[q] = Unit  BY <2>1
    <3>1. q \in page.ques \ touched /\ q \notin retyped /\ AsPromised(q)  BY DEF Perfect
    <3>2. EarnsSingle(q) /\ EarnsMultiple(q)  BY <3>1 DEF IInv, GradedAsShown, Perfect
    <3> QED  BY <3>1, <3>2 DEF EarnsSingle, EarnsMultiple, AsPromised
  <2> DEFINE g == CHOOSE h : Sums(f, h, Q)
  <2>5. Sums(f, g, Q)  BY <2>3, SumsExist
  <2>6. Sum = g[Q]
    BY <2>1 DEF MapThenSumSet, MapThenFoldSet, Sums, SumStep, Some
  <2> HIDE DEF g, Sum
  <2>7. g[Q] = Unit * Cardinality(Q)  BY <2>3, <2>4, <2>5, SumsConstant
  <2> QED  BY <2>1, <2>6, <2>7
<1> QED  BY <1>1, Inductive, PTL
=================================================================================
