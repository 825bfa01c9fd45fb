--------------------------- MODULE InstanceProofs ---------------------------
(***************************************************************************)
(* Proofs about what runs with the items of one definition: the test agent *)
(* (TestRunner, for any programs of tests whose nested loops have          *)
(* different names, and AgentReports); and the connections that the        *)
(* interceptor relays (TrafficCapture, for any scripts: what it loses, and *)
(* what it logs of Redis, Kafka and MongoDB; and SessionSetup, for any     *)
(* dialogues).                                                             *)
(***************************************************************************)
EXTENDS TestRunner, Integers, FiniteSetTheorems, SequenceTheorems,
    WellFoundedInduction, TLAPS

CONSTANTS QueueCap, Executions, MaxSteps, Scripts, Names, Dialogues

VARIABLES runs, executing, steps, late, overtook, queue, worker, drain, events, lost, sent, reports,
    reported, notified, main, timedOut,
    conn, offered, fwd, seen, served, pushed, srv, answers, relayed, read, px, odd,
    client, server, up, down, closed,
    talk, hello, said, carried, answered, returned, peers, proxy

Reports == INSTANCE AgentReports
Wire == INSTANCE TrafficCapture WITH sent <- offered
Session == INSTANCE SessionSetup WITH told <- said, passed <- carried

-----------------------------------------------------------------------------
(* The inductive invariant.                                                *)

Positive == Nat \ {0}
Five == Positive \X Positive \X Positive \X Positive \X Positive

InStep == at \in {"round", "turn", "judge", "next"}
InPass == InStep \/ at = "step"

Located ==
    /\ prog \in Programs
    /\ test \in Positive /\ pass \in Positive /\ step \in Positive
    /\ round \in Positive /\ turn \in Positive
    /\ InPass \/ at = "pass" => test \in DOMAIN Tests
    /\ InStep => step \in DOMAIN T.steps

RanType ==
    /\ ran \in Seq(Five)
    /\ \A i \in DOMAIN ran :
        ran[i][1] \in DOMAIN Tests /\ ran[i][3] \in DOMAIN Tests[ran[i][1]].steps

\* The counters from which the next action is to be performed, those within 0.
Here ==
    CASE at = "test" -> <<test, 0, 0, 0, 0>>
      [] at = "pass" -> <<test, pass, 0, 0, 0>>
      [] at = "step" -> <<test, pass, step, 0, 0>>
      [] at = "round" -> <<test, pass, step, round, 0>>
      [] at = "turn" -> counters
      [] OTHER -> <<test, pass, step, round + 1, 0>>

Ordered ==
    /\ \A i \in 1..(Len(ran) - 1) : Before(ran[i], ran[i + 1])
    /\ at # "over" /\ ran # <<>> => Before(ran[Len(ran)], Here)

Performed(t, p, s) == \E j \in DOMAIN ran : SubSeq(ran[j], 1, 3) = <<t, p, s>>

\* The step at hand has had its first turn.
Begun ==
    \/ at \in {"judge", "next"}
    \/ at \in {"round", "turn"} /\ round > 1
    \/ at = "turn" /\ turn > 1

Passed(t, p, s) ==
    \/ t < test
    \/ /\ t = test /\ at # "test"
       /\ \/ p < pass
          \/ p = pass /\ at # "pass" /\ (s < step \/ (s = step /\ Begun))

PassesOf(t, test1, pass1) == 1..(IF t = test1 THEN pass1 ELSE 1)

Covered ==
    at # "over" =>
        \A t \in DOMAIN Tests : \A s \in DOMAIN Tests[t].steps :
            \A p \in PassesOf(t, test, pass) :
                Asked(t, s) /\ Count(Tests[t].loop) > 0 /\ Passed(t, p, s) => Performed(t, p, s)

CoveredBefore ==
    \A i \in DOMAIN ran : \A t \in 1..ran[i][1] :
        \A s \in DOMAIN Tests[t].steps, p \in 1..(IF t = ran[i][1] THEN ran[i][2] ELSE 1) :
            (Asked(t, s) /\ Count(Tests[t].loop) > 0 /\ Before(<<t, p, s>>, ran[i])) =>
                \E j \in 1..i : SubSeq(ran[j], 1, 3) = <<t, p, s>>

Running == at # "over" => verdict = "running"

OwnEnv ==
    InPass =>
        /\ \A x \in DOMAIN env : env[x] \in {<<0, 0>>, <<test, pass>>}
        /\ \A x \in T.vars : x \in DOMAIN env /\ env[x] = <<test, pass>>

OwnResults ==
    /\ "" \notin DOMAIN told
    /\ InPass => T.loop.name \notin DOMAIN told
    /\ at \in {"turn", "judge"} => S.loop.name \notin DOMAIN told

Excused(s) == s.loop.kind # "none" /\ (s.loop.until \/ ~s.stop)

Judged ==
    verdict # "failed" =>
        \A i \in DOMAIN ran :
            \/ SubSeq(ran[i], 1, 4) \in judged
            \/ Excused(Tests[ran[i][1]].steps[ran[i][3]])
            \/ at \in {"turn", "judge"} /\ SubSeq(ran[i], 1, 4) = <<test, pass, step, round>>

RunnerInv ==
    /\ TypeOK /\ Located /\ RanType /\ Ordered /\ Covered /\ CoveredBefore
    /\ Running /\ OwnEnv /\ OwnResults /\ Judged

-----------------------------------------------------------------------------
(* The data: programs, maps of variables, counters.                        *)

\* The tests of a program, and the range of steps to run.
LEMMA ProgramType ==
    ASSUME ProgramsTyped, prog \in Programs
    PROVE  /\ prog.from \in Nat /\ prog.before \in Nat
           /\ Tests \in Seq(TestType)
           /\ \A t \in DOMAIN Tests : Tests[t] \in TestType
BY DEF ProgramsTyped, Tests

\* A test has a loop and steps.
LEMMA TestData ==
    ASSUME NEW x \in TestType
    PROVE  /\ x.loop \in LoopType /\ x.steps \in Seq(StepType)
           /\ \A s \in DOMAIN x.steps : x.steps[s] \in StepType
BY DEF TestType

\* A step has a loop, and so has its action.
LEMMA StepData ==
    ASSUME NEW x \in StepType
    PROVE  x.loop \in LoopType /\ x.act \in LoopType /\ x.stop \in BOOLEAN
BY DEF StepType

\* A loop has a number of iterations.
LEMMA LoopData ==
    ASSUME NEW x \in LoopType
    PROVE  x.n \in Nat /\ x.until \in BOOLEAN /\ Count(x) \in Nat
BY DEF LoopType, Count

\* Put sets these names and leaves the others alone.
LEMMA PutType ==
    ASSUME NEW names, NEW v, NEW f
    PROVE  /\ DOMAIN Put(names, v, f) = names \cup DOMAIN f
           /\ \A x \in names : Put(names, v, f)[x] = v
           /\ \A x \in DOMAIN f : x \notin names => Put(names, v, f)[x] = f[x]
BY DEF Put

\* What SubSeq takes from the beginning of a list of numbers.
LEMMA FirstOnes ==
    ASSUME NEW x, NEW n \in Nat, n > 0, \A i \in 1..n : x[i] \in Nat
    PROVE  /\ SubSeq(x, 1, n) \in Seq(Nat)
           /\ Len(SubSeq(x, 1, n)) = n
           /\ \A i \in 1..n : SubSeq(x, 1, n)[i] = x[i]
<1>1. 1 \in Int /\ n \in Int
    OBVIOUS
<1>2. SubSeq(x, 1, n) \in Seq(Nat)
    BY <1>1, SubSeqProperties
<1>3. Len(SubSeq(x, 1, n)) = n
    BY <1>1, SubSeqProperties
<1>4. \A i \in 1..n : SubSeq(x, 1, n)[i] = x[i]
    BY <1>1, SubSeqProperties
<1> QED BY <1>2, <1>3, <1>4

\* The five counters of an action performed.
LEMMA FiveType ==
    ASSUME NEW x \in Five
    PROVE  /\ \A k \in 1..5 : x[k] \in Nat /\ x[k] > 0
           /\ DOMAIN x = 1..5
           /\ x = <<x[1], x[2], x[3], x[4], x[5]>>
           /\ SubSeq(x, 1, 3) = <<x[1], x[2], x[3]>>
           /\ SubSeq(x, 1, 4) = <<x[1], x[2], x[3], x[4]>>
<1>1. PICK a \in Positive, b \in Positive, c \in Positive, d \in Positive, e \in Positive :
        x = <<a, b, c, d, e>>
    BY DEF Five
<1>2. \A k \in 1..5 : x[k] \in Nat /\ x[k] > 0
    BY <1>1 DEF Positive
<1>3. DOMAIN x = 1..5 /\ x = <<x[1], x[2], x[3], x[4], x[5]>>
    BY <1>1
<1>4. SubSeq(x, 1, 3) = <<x[1], x[2], x[3]>>
  <2>1. \A i \in 1..3 : x[i] \in Nat
      BY <1>2
  <2>2. /\ SubSeq(x, 1, 3) \in Seq(Nat) /\ Len(SubSeq(x, 1, 3)) = 3
        /\ \A i \in 1..3 : SubSeq(x, 1, 3)[i] = x[i]
      BY <2>1, FirstOnes
  <2> DEFINE y == SubSeq(x, 1, 3)
  <2>3. y[1] = x[1] /\ y[2] = x[2] /\ y[3] = x[3]
      BY <2>2
  <2>4. y \in Seq(Nat) /\ Len(y) = 3
      BY <2>2
  <2> HIDE DEF y
  <2>5. y = <<y[1], y[2], y[3]>>
      BY <2>4
  <2> QED BY <2>3, <2>5 DEF y
<1>5. SubSeq(x, 1, 4) = <<x[1], x[2], x[3], x[4]>>
  <2>1. \A i \in 1..4 : x[i] \in Nat
      BY <1>2
  <2>2. /\ SubSeq(x, 1, 4) \in Seq(Nat) /\ Len(SubSeq(x, 1, 4)) = 4
        /\ \A i \in 1..4 : SubSeq(x, 1, 4)[i] = x[i]
      BY <2>1, FirstOnes
  <2> DEFINE y == SubSeq(x, 1, 4)
  <2>3. y[1] = x[1] /\ y[2] = x[2] /\ y[3] = x[3] /\ y[4] = x[4]
      BY <2>2
  <2>4. y \in Seq(Nat) /\ Len(y) = 4
      BY <2>2
  <2> HIDE DEF y
  <2>5. y = <<y[1], y[2], y[3], y[4]>>
      BY <2>4
  <2> QED BY <2>3, <2>5 DEF y
<1> QED BY <1>2, <1>3, <1>4, <1>5

Numbers == Nat \X Nat \X Nat \X Nat \X Nat

\* Five numbers, one after the other.
LEMMA NumbersType ==
    ASSUME NEW x \in Numbers
    PROVE  /\ DOMAIN x = 1..5
           /\ x[1] \in Nat /\ x[2] \in Nat /\ x[3] \in Nat /\ x[4] \in Nat /\ x[5] \in Nat
BY DEF Numbers

\* Before is the lexicographic order of five numbers,
LEMMA BeforeNumbers ==
    ASSUME NEW x \in Numbers, NEW y \in Numbers
    PROVE  Before(x, y) <=>
              \/ x[1] < y[1]
              \/ x[1] = y[1] /\ x[2] < y[2]
              \/ x[1] = y[1] /\ x[2] = y[2] /\ x[3] < y[3]
              \/ x[1] = y[1] /\ x[2] = y[2] /\ x[3] = y[3] /\ x[4] < y[4]
              \/ x[1] = y[1] /\ x[2] = y[2] /\ x[3] = y[3] /\ x[4] = y[4] /\ x[5] < y[5]
BY NumbersType DEF Before

\* and transitive.
LEMMA BeforeTransitive ==
    ASSUME NEW x \in Numbers, NEW y \in Numbers, NEW z \in Numbers, Before(x, y), Before(y, z)
    PROVE  Before(x, z)
<1>1. \/ x[1] < y[1]
      \/ x[1] = y[1] /\ x[2] < y[2]
      \/ x[1] = y[1] /\ x[2] = y[2] /\ x[3] < y[3]
      \/ x[1] = y[1] /\ x[2] = y[2] /\ x[3] = y[3] /\ x[4] < y[4]
      \/ x[1] = y[1] /\ x[2] = y[2] /\ x[3] = y[3] /\ x[4] = y[4] /\ x[5] < y[5]
    BY BeforeNumbers
<1>2. \/ y[1] < z[1]
      \/ y[1] = z[1] /\ y[2] < z[2]
      \/ y[1] = z[1] /\ y[2] = z[2] /\ y[3] < z[3]
      \/ y[1] = z[1] /\ y[2] = z[2] /\ y[3] = z[3] /\ y[4] < z[4]
      \/ y[1] = z[1] /\ y[2] = z[2] /\ y[3] = z[3] /\ y[4] = z[4] /\ y[5] < z[5]
    BY BeforeNumbers
<1>3. \/ x[1] < z[1]
      \/ x[1] = z[1] /\ x[2] < z[2]
      \/ x[1] = z[1] /\ x[2] = z[2] /\ x[3] < z[3]
      \/ x[1] = z[1] /\ x[2] = z[2] /\ x[3] = z[3] /\ x[4] < z[4]
      \/ x[1] = z[1] /\ x[2] = z[2] /\ x[3] = z[3] /\ x[4] = z[4] /\ x[5] < z[5]
    BY <1>1, <1>2, NumbersType
<1> QED BY <1>3, BeforeNumbers

\* A test, a pass and a step come before an action that is performed later.
LEMMA BeforeThree ==
    ASSUME NEW a1 \in Nat, NEW a2 \in Nat, NEW a3 \in Nat, NEW b \in Five
    PROVE  Before(<<a1, a2, a3>>, b) <=>
              \/ a1 < b[1]
              \/ a1 = b[1] /\ a2 < b[2]
              \/ a1 = b[1] /\ a2 = b[2] /\ a3 < b[3]
<1> DEFINE a == <<a1, a2, a3>>
<1>1. DOMAIN a = 1..3
    OBVIOUS
<1>2. a[1] = a1 /\ a[2] = a2 /\ a[3] = a3
    OBVIOUS
<1> HIDE DEF a
<1>3. Before(a, b) <=> \E k \in 1..3 : a[k] < b[k] /\ \A j \in 1..(k - 1) : a[j] = b[j]
    BY <1>1 DEF Before
<1>4. Before(a, b) <=>
        \/ a[1] < b[1]
        \/ a[1] = b[1] /\ a[2] < b[2]
        \/ a[1] = b[1] /\ a[2] = b[2] /\ a[3] < b[3]
    BY <1>3
<1> QED BY <1>2, <1>4 DEF a

-----------------------------------------------------------------------------
(* globalIndex counts the steps that come before.                          *)

\* 1..n has n elements.
LEMMA IntervalCount ==
    ASSUME NEW n \in Nat
    PROVE  IsFiniteSet(1..n) /\ Cardinality(1..n) = n
<1>1. 1 \in Int /\ n \in Int
    OBVIOUS
<1>2. IsFiniteSet(1..n) /\ Cardinality(1..n) = IF 1 > n THEN 0 ELSE n - 1 + 1
    BY <1>1, FS_Interval
<1> QED BY <1>2

\* What two sets have apart adds up.
LEMMA DisjointCount ==
    ASSUME NEW A, NEW B, IsFiniteSet(A), IsFiniteSet(B), A \cap B = {}
    PROVE  Cardinality(A \cup B) = Cardinality(A) + Cardinality(B)
<1>1. Cardinality(A) \in Nat /\ Cardinality(B) \in Nat
    BY FS_CardinalityType
<1>2. Cardinality(A \cup B) = Cardinality(A) + Cardinality(B) - Cardinality(A \cap B)
    BY FS_Union
<1>3. Cardinality(A \cap B) = 0
    BY FS_EmptySet
<1> QED BY <1>1, <1>2, <1>3

\* A test with n steps has n steps.
LEMMA PairCount ==
    ASSUME NEW t, NEW n \in Nat
    PROVE  /\ IsFiniteSet({<<t, j>> : j \in 1..n})
           /\ Cardinality({<<t, j>> : j \in 1..n}) = n
<1> DEFINE P == {<<t, j>> : j \in 1..n}
           f == [j \in 1..n |-> <<t, j>>]
<1>1. IsFiniteSet(1..n) /\ Cardinality(1..n) = n
    BY IntervalCount
<1>2. f \in Surjection(1..n, P)
    BY DEF Surjection
<1>3. f \in Injection(1..n, P)
  <2>1. \A j \in 1..n : f[j][2] = j
      OBVIOUS
  <2>2. f \in [1..n -> P]
      OBVIOUS
  <2> HIDE DEF f, P
  <2>3. \A j, k \in 1..n : f[j] = f[k] => j = k
      BY <2>1
  <2> QED BY <2>2, <2>3 DEF Injection, IsInjective
<1> HIDE DEF P, f
<1>4. IsFiniteSet(P) /\ Cardinality(P) = n
    BY <1>1, <1>2, <1>3, FS_Surjection
<1> QED BY <1>4 DEF P

\* The steps of the earlier tests can be counted.
LEMMA EarlierFinite ==
    ASSUME ProgramsTyped, prog \in Programs, NEW t \in DOMAIN Tests
    PROVE  IsFiniteSet(StepsOf(1..(t - 1))) /\ Cardinality(StepsOf(1..(t - 1))) \in Nat
<1> DEFINE Of(i) == {<<i, j>> : j \in DOMAIN Tests[i].steps}
<1>1. \A i \in 1..(t - 1) : IsFiniteSet(Of(i))
  <2> SUFFICES ASSUME NEW i \in 1..(t - 1)
               PROVE  IsFiniteSet(Of(i))
      OBVIOUS
  <2>1. i \in DOMAIN Tests
      BY ProgramType
  <2>2. PICK n \in Nat : DOMAIN Tests[i].steps = 1..n
      BY <2>1, ProgramType, TestData
  <2>3. Of(i) = {<<i, j>> : j \in 1..n}
      BY <2>2
  <2> QED BY <2>3, PairCount
<1>2. IsFiniteSet({Of(i) : i \in 1..(t - 1)})
  <2> DEFINE I == 1..(t - 1)
             O == {Of(i) : i \in I}
             f == [i \in I |-> Of(i)]
  <2>1. t - 1 \in Nat
      BY ProgramType
  <2>2. IsFiniteSet(I)
      BY <2>1, IntervalCount
  <2>3. f \in Surjection(I, O)
      BY Zenon DEF Surjection
  <2> HIDE DEF I, O, f
  <2>4. IsFiniteSet(O)
      BY <2>2, <2>3, FS_Surjection
  <2> QED BY <2>4 DEF O, I
<1>3. IsFiniteSet(UNION {Of(i) : i \in 1..(t - 1)})
    BY <1>1, <1>2, FS_UNION
<1>4. IsFiniteSet(StepsOf(1..(t - 1)))
    BY <1>3 DEF StepsOf
<1> QED BY <1>4, FS_CardinalityType

\* globalIndex is the number of the steps before this one.
LEMMA IndexCounts ==
    ASSUME ProgramsTyped, prog \in Programs, NEW t \in DOMAIN Tests,
           NEW s \in DOMAIN Tests[t].steps
    PROVE  /\ Index(t, s) \in Nat
           /\ Cardinality({x \in StepsOf(DOMAIN Tests) : Before(x, <<t, s>>)}) = Index(t, s)
<1> DEFINE E == StepsOf(1..(t - 1))
           H == {<<t, j>> : j \in 1..(s - 1)}
           B == {x \in StepsOf(DOMAIN Tests) : Before(x, <<t, s>>)}
<1>1. t \in Nat /\ t > 0 /\ s \in Nat /\ s > 0
    BY ProgramType, TestData
<1>2. IsFiniteSet(H) /\ Cardinality(H) = s - 1
  <2>1. s - 1 \in Nat
      BY <1>1
  <2> QED BY <2>1, PairCount
<1>3. E \cap H = {}
    BY <1>1 DEF StepsOf
<1>4. B = E \cup H
  <2>1. ASSUME NEW i \in DOMAIN Tests, NEW j \in DOMAIN Tests[i].steps
        PROVE  Before(<<i, j>>, <<t, s>>) <=> i < t \/ (i = t /\ j < s)
    <3>1. DOMAIN <<i, j>> = 1..2 /\ <<i, j>>[1] = i /\ <<i, j>>[2] = j
        OBVIOUS
    <3>2. i \in Nat /\ j \in Nat
        BY ProgramType, TestData
    <3> QED BY <1>1, <3>1, <3>2 DEF Before
  <2>2. \A x \in B : x \in E \cup H
    <3> SUFFICES ASSUME NEW x \in B PROVE x \in E \cup H
        OBVIOUS
    <3>0. PICK i \in DOMAIN Tests : x \in {<<i, j>> : j \in DOMAIN Tests[i].steps}
        BY DEF StepsOf
    <3>1. PICK j \in DOMAIN Tests[i].steps : x = <<i, j>>
        BY <3>0
    <3>2. i < t \/ (i = t /\ j < s)
        BY <2>1, <3>1
    <3>3. i \in Nat /\ i > 0 /\ j \in Nat /\ j > 0
        BY ProgramType, TestData
    <3> QED BY <1>1, <3>1, <3>2, <3>3 DEF StepsOf
  <2>3. E \subseteq B
    <3> SUFFICES ASSUME NEW x \in E PROVE x \in B
        OBVIOUS
    <3>0. PICK i \in 1..(t - 1) : x \in {<<i, j>> : j \in DOMAIN Tests[i].steps}
        BY DEF StepsOf
    <3>1. PICK j \in DOMAIN Tests[i].steps : x = <<i, j>>
        BY <3>0
    <3>2. i \in DOMAIN Tests
        BY ProgramType
    <3> QED BY <1>1, <2>1, <3>1, <3>2 DEF StepsOf
  <2>4. H \subseteq B
    <3> SUFFICES ASSUME NEW j \in 1..(s - 1) PROVE <<t, j>> \in B
        OBVIOUS
    <3>1. j \in DOMAIN Tests[t].steps
        BY <1>1, ProgramType, TestData
    <3> QED BY <1>1, <2>1, <3>1 DEF StepsOf
  <2> QED BY <2>2, <2>3, <2>4
<1>5. Cardinality(B) = Cardinality(E) + (s - 1)
  <2>1. IsFiniteSet(E) /\ Cardinality(E) \in Nat
      BY EarlierFinite
  <2> HIDE DEF E, H, B
  <2>2. Cardinality(E \cup H) = Cardinality(E) + Cardinality(H)
      BY <1>2, <1>3, <2>1, DisjointCount
  <2> QED BY <1>2, <1>4, <2>2
<1>6. Index(t, s) = s - 1 + Cardinality(E)
    BY DEF Index
<1> QED BY <1>1, <1>5, <1>6, EarlierFinite

\* So what is asked of a run is what is in its range.
LEMMA AskedInRange ==
    ASSUME ProgramsTyped, prog \in Programs, NEW t \in DOMAIN Tests,
           NEW s \in DOMAIN Tests[t].steps
    PROVE  Asked(t, s) <=> Performs(Tests[t].steps[s]) /\ InRange(t, s)
BY IndexCounts DEF Asked, InRange

\* The steps after one that the range leaves behind are behind it, too.
LEMMA IndexGrows ==
    ASSUME ProgramsTyped, prog \in Programs, NEW t \in DOMAIN Tests,
           NEW s \in Nat, NEW u \in Nat, s <= u
    PROVE  Index(t, s) <= Index(t, u)
BY EarlierFinite DEF Index

-----------------------------------------------------------------------------
(* What the invariant says of the counters, and of every step.             *)

\* What the invariant says of the tests and the counters.
LEMMA Facts ==
    ASSUME ProgramsTyped, RunnerInv
    PROVE  /\ prog \in Programs /\ prog.from \in Nat /\ prog.before \in Nat
           /\ Tests \in Seq(TestType)
           /\ \A t \in DOMAIN Tests : Tests[t] \in TestType
           /\ test \in Nat /\ pass \in Nat /\ step \in Nat /\ round \in Nat /\ turn \in Nat
           /\ test > 0 /\ pass > 0 /\ step > 0 /\ round > 0 /\ turn > 0
           /\ InPass \/ at = "pass" => test \in DOMAIN Tests /\ T \in TestType
           /\ InStep => step \in DOMAIN T.steps /\ S \in StepType
           /\ at = "test" /\ test <= Len(Tests) => test \in DOMAIN Tests /\ T \in TestType
<1>1. TypeOK /\ Located
    BY DEF RunnerInv
<1>2. /\ Tests \in Seq(TestType) /\ prog.from \in Nat /\ prog.before \in Nat
      /\ \A t \in DOMAIN Tests : Tests[t] \in TestType
    BY <1>1, ProgramType DEF Located
<1>3. /\ test \in Nat /\ pass \in Nat /\ step \in Nat /\ round \in Nat /\ turn \in Nat
      /\ test > 0 /\ pass > 0 /\ step > 0 /\ round > 0 /\ turn > 0
    BY <1>1 DEF Located, Positive
<1>4. InPass \/ at = "pass" => test \in DOMAIN Tests /\ T \in TestType
    BY <1>1, <1>2 DEF Located, T
<1>5. InStep => step \in DOMAIN T.steps /\ S \in StepType
    BY <1>1, <1>4, TestData DEF Located, S, InPass
<1>6. at = "test" /\ test <= Len(Tests) => test \in DOMAIN Tests /\ T \in TestType
    BY <1>2, <1>3 DEF T
<1> QED BY <1>1, <1>2, <1>3, <1>4, <1>5, <1>6 DEF Located

\* No step changes the program.
LEMMA ProgKept ==
    ASSUME Next
    PROVE  prog' = prog /\ Tests' = Tests /\ (test' = test => T' = T)
<1>1. prog' = prog
    BY DEF Next, StartTest, End, StartPass, EndPass, SkipStep, StartStep, StartRound, FailRound,
        NoTurn, Perform, Validate, NextRound
<1> QED BY <1>1 DEF Tests, T

\* The run is over.
Ended ==
    /\ at' = "over"
    /\ UNCHANGED <<prog, test, pass, step, round, turn, env, told, swallowed, ran, judged>>

\* StartTest ends the run, passes over a test, or starts its first pass.
LEMMA StartTestCases ==
    ASSUME StartTest
    PROVE  \/ Ended /\ at = "test" /\ verdict' \in {"passed", "failed"}
           \/ /\ at = "test" /\ ~(test > Len(Tests))
              /\ at' = "test" /\ test' = test + 1 /\ pass' = 1
              /\ \/ T.steps = <<>> /\ UNCHANGED <<told, env>>
                 \/ Count(T.loop) = 0 /\ SetLoopResult(T.loop, FALSE)
              /\ UNCHANGED <<prog, step, round, turn, swallowed, ran, judged, verdict>>
           \/ /\ at = "test" /\ ~(test > Len(Tests)) /\ at' = "pass" /\ pass' = 1
              /\ UNCHANGED <<prog, test, step, round, turn, env, told, swallowed, ran, judged, verdict>>
BY DEF StartTest, End, Ended, counters

\* So does StartStep with a step.
LEMMA StartStepCases ==
    ASSUME StartStep
    PROVE  \/ Ended /\ verdict' = "failed"
           \/ /\ Count(S.loop) = 0 /\ at' = "step" /\ step' = step + 1 /\ round' = 1
              /\ SetLoopResult(S.loop, FALSE)
              /\ UNCHANGED <<prog, test, pass, turn, swallowed, ran, judged, verdict>>
           \/ /\ at' = "round" /\ round' = 1
              /\ UNCHANGED <<prog, test, pass, step, turn, env, told, swallowed, ran, judged, verdict>>
BY DEF StartStep, End, Ended, counters

\* The counters keep to the tests, and the steps that are at hand to theirs.
LEMMA LocatedStep ==
    ASSUME ProgramsTyped, RunnerInv, Next
    PROVE  Located'
<1>0. /\ prog' \in Programs /\ Tests' = Tests /\ (test' = test => T' = T)
      /\ prog' = prog
    BY Facts, ProgKept
<1> SUFFICES /\ test' \in Nat /\ pass' \in Nat /\ step' \in Nat /\ round' \in Nat /\ turn' \in Nat
             /\ test' > 0 /\ pass' > 0 /\ step' > 0 /\ round' > 0 /\ turn' > 0
             /\ InPass' \/ at' = "pass" => test' = test /\ test \in DOMAIN Tests
             /\ InStep' => step' \in DOMAIN T.steps
    BY <1>0 DEF Located, Positive, InPass
<1>1. CASE StartTest
  <2>1. at = "test"
      BY <1>1 DEF StartTest
  <2>2. ~(test > Len(Tests)) => test \in DOMAIN Tests
      BY <2>1, Facts
  <2> QED BY <1>1, <2>1, <2>2, Facts, StartTestCases DEF Ended, SetLoopResult, InStep, InPass
<1>2. CASE StartPass
    BY <1>2, Facts DEF StartPass, InStep, InPass
<1>3. CASE EndPass
    BY <1>3, Facts DEF EndPass, Ends, InStep, InPass
<1>4. CASE SkipStep
    BY <1>4, Facts DEF SkipStep, InStep, InPass
<1>5. CASE StartStep
  <2>1. at = "step" /\ step <= Len(T.steps)
      BY <1>5 DEF StartStep
  <2>2. step \in DOMAIN T.steps
      BY <2>1, Facts, TestData DEF InPass
  <2> QED BY <1>5, <2>1, <2>2, Facts, StartStepCases DEF Ended, SetLoopResult, InStep, InPass
<1>6. CASE StartRound
    BY <1>6, Facts DEF StartRound, InStep, InPass
<1>7. CASE FailRound
    BY <1>7, Facts DEF FailRound, Fail, counters, InStep, InPass
<1>8. CASE NoTurn
    BY <1>8, Facts DEF NoTurn, counters, InStep, InPass
<1>9. CASE Perform
    BY <1>9, Facts DEF Perform, Fail, InStep, InPass
<1>10. CASE Validate
    BY <1>10, Facts DEF Validate, counters, InStep, InPass
<1>11. CASE NextRound
    BY <1>11, Facts DEF NextRound, InStep, InPass
<1> QED BY <1>1, <1>2, <1>3, <1>4, <1>5, <1>6, <1>7, <1>8, <1>9, <1>10, <1>11 DEF Next

\* The other state keeps its type.
LEMMA TypeOKStep ==
    ASSUME ProgramsTyped, RunnerInv, Next
    PROVE  TypeOK'
<1>1. \A i \in 1..5 : counters'[i] \in Nat
    BY LocatedStep DEF Located, counters, Positive
<1>2. TypeOK
    BY DEF RunnerInv
<1>3. /\ at' \in {"test", "pass", "step", "round", "turn", "judge", "next", "over"}
      /\ swallowed' \in BOOLEAN
      /\ verdict' \in {"running", "passed", "failed"}
    BY <1>2 DEF TypeOK, Next, StartTest, End, StartPass, EndPass, SkipStep, StartStep,
        StartRound, FailRound, Fail, NoTurn, Perform, Validate, NextRound
<1>4. \A x \in DOMAIN told' : told'[x] \in BOOLEAN
  <2>1. \A x \in DOMAIN told : told[x] \in BOOLEAN
      BY <1>2 DEF TypeOK
  <2>2. ASSUME NEW loop \in LoopType, NEW met \in BOOLEAN, SetLoopResult(loop, met)
        PROVE  \A x \in DOMAIN told' : told'[x] \in BOOLEAN
    <3>1. (loop.until => met) \in BOOLEAN
        OBVIOUS
    <3>2. ASSUME NEW v \in BOOLEAN, told' = Put(Sets(loop), v, told)
          PROVE  \A x \in DOMAIN told' : told'[x] \in BOOLEAN
        BY <2>1, <3>2 DEF Put
    <3> QED BY <2>2, <3>1, <3>2 DEF SetLoopResult
  <2>3. ASSUME NEW loop, told' = Restrict(told, DOMAIN told \ Sets(loop))
        PROVE  \A x \in DOMAIN told' : told'[x] \in BOOLEAN
      BY <2>1, <2>3 DEF Restrict
  <2>4. \A loop : Met(loop) \subseteq BOOLEAN
      BY DEF Met
  <2>5. CASE StartTest
    <3>1. CASE T \in TestType /\ SetLoopResult(T.loop, FALSE)
        BY <2>2, <3>1, TestData
    <3>2. at = "test" /\ ~(test > Len(Tests)) => T \in TestType
        BY Facts
    <3>3. told' = told \/ (T \in TestType /\ SetLoopResult(T.loop, FALSE))
        BY <2>5, <3>2, StartTestCases, Zenon DEF Ended
    <3> QED BY <2>1, <3>1, <3>3
  <2>6. CASE StartPass
      BY <2>6 DEF StartPass, Empty
  <2>7. CASE EndPass
    <3>1. T.loop \in LoopType
        BY <2>7, Facts, TestData DEF EndPass, InPass
    <3> QED BY <2>1, <2>2, <2>4, <2>7, <3>1 DEF EndPass
  <2>8. CASE StartStep
    <3>1. S.loop \in LoopType
      <4>1. step \in DOMAIN T.steps /\ T \in TestType
          BY <2>8, Facts, TestData DEF StartStep, InPass
      <4> QED BY <4>1, TestData, StepData DEF S
    <3>2. CASE SetLoopResult(S.loop, FALSE)
        BY <2>2, <3>1, <3>2
    <3> QED BY <2>1, <2>8, <3>2, StartStepCases DEF Ended
  <2>9. CASE StartRound
      BY <2>3, <2>9 DEF StartRound, Setup
  <2>10. CASE NoTurn
    <3>1. S.act \in LoopType /\ SetLoopResult(S.act, FALSE)
        BY <2>10, Facts, StepData DEF NoTurn, InStep
    <3> QED BY <2>2, <3>1
  <2>11. CASE Perform
    <3>1. S.act \in LoopType
        BY <2>11, Facts, StepData DEF Perform, InStep
    <3> QED BY <2>2, <2>3, <2>4, <2>11, <3>1 DEF Perform
  <2>12. CASE NextRound
    <3>1. S.loop \in LoopType
        BY <2>12, Facts, StepData DEF NextRound, InStep
    <3> QED BY <2>1, <2>2, <2>4, <2>12, <3>1 DEF NextRound
  <2> QED BY <2>1, <2>5, <2>6, <2>7, <2>8, <2>9, <2>10, <2>11, <2>12 DEF Next, SkipStep,
             FailRound,
        Validate
<1> QED BY <1>1, <1>3, <1>4 DEF TypeOK

-----------------------------------------------------------------------------
(* The order of the actions.                                               *)

\* Only Perform performs an action.
LEMMA RanSteps ==
    ASSUME Next
    PROVE  ran' = ran \/ (Perform /\ at = "turn" /\ ran' = Append(ran, counters))
BY DEF Next, StartTest, End, StartPass, EndPass, SkipStep, StartStep, StartRound, FailRound,
    NoTurn, Perform, Validate, NextRound

\* The actions performed, with one more.
LEMMA Grown ==
    ASSUME NEW x \in Five, RanType
    PROVE  /\ Append(ran, x) \in Seq(Five) /\ Len(Append(ran, x)) = Len(ran) + 1
           /\ Len(ran) \in Nat /\ DOMAIN ran = 1..Len(ran)
           /\ DOMAIN Append(ran, x) = 1..(Len(ran) + 1)
           /\ \A i \in DOMAIN ran : Append(ran, x)[i] = ran[i]
           /\ Append(ran, x)[Len(ran) + 1] = x
BY DEF RanType

\* The counters are such an action.
LEMMA CountersFive ==
    ASSUME RunnerInv
    PROVE  /\ counters \in Five
           /\ counters[1] = test /\ counters[2] = pass /\ counters[3] = step
           /\ counters[4] = round /\ counters[5] = turn
BY DEF RunnerInv, Located, counters, Five

\* What is performed is a step of a test.
LEMMA RanTypeStep ==
    ASSUME ProgramsTyped, RunnerInv, Next
    PROVE  RanType'
<1>1. RanType /\ Tests' = Tests
    BY ProgKept DEF RunnerInv
<1>2. CASE ran' = ran
    BY <1>1, <1>2 DEF RanType
<1>3. CASE at = "turn" /\ ran' = Append(ran, counters)
  <2>1. test \in DOMAIN Tests /\ step \in DOMAIN Tests[test].steps
      BY <1>3, Facts DEF InStep, InPass, T
  <2> DEFINE c == counters
  <2>2. c \in Five /\ c[1] = test /\ c[3] = step /\ ran' = Append(ran, c)
      BY <1>3, CountersFive
  <2> HIDE DEF c
  <2>3. /\ ran' \in Seq(Five) /\ DOMAIN ran' = 1..(Len(ran) + 1)
        /\ DOMAIN ran = 1..Len(ran) /\ Len(ran) \in Nat
        /\ \A i \in DOMAIN ran : ran'[i] = ran[i]
        /\ ran'[Len(ran) + 1] = c
      BY <1>1, <2>2, Grown
  <2>4. ASSUME NEW i \in DOMAIN ran'
        PROVE  ran'[i][1] \in DOMAIN Tests /\ ran'[i][3] \in DOMAIN Tests[ran'[i][1]].steps
    <3>1. i \in DOMAIN ran \/ i = Len(ran) + 1
        BY <2>3
    <3> QED BY <1>1, <2>1, <2>2, <2>3, <3>1 DEF RanType
  <2> QED BY <1>1, <2>3, <2>4 DEF RanType
<1> QED BY <1>2, <1>3, RanSteps

\* Every step goes on to later counters or stays at the same; the step that
\* performs an action goes on.
LEMMA HereGrows ==
    ASSUME ProgramsTyped, RunnerInv, Next, at' # "over"
    PROVE  /\ Here \in Numbers /\ Here' \in Numbers
           /\ Here' = Here \/ Before(Here, Here')
           /\ Perform => Here = counters /\ Before(Here, Here')
<1>0. test \in Nat /\ pass \in Nat /\ step \in Nat /\ round \in Nat /\ turn \in Nat
    BY Facts
<1>1. Here \in Numbers
    BY <1>0 DEF Here, counters, Numbers
<1>2. Here' \in Numbers
  <2>1. test' \in Nat /\ pass' \in Nat /\ step' \in Nat /\ round' \in Nat /\ turn' \in Nat
      BY LocatedStep DEF Located, Positive
  <2> QED BY <2>1 DEF Here, counters, Numbers
<1>3. CASE StartTest
  <2>1. Here = <<test, 0, 0, 0, 0>>
      BY <1>3 DEF StartTest, Here
  <2>2. \/ test' = test + 1 /\ at' = "test"
        \/ test' = test /\ pass' = 1 /\ at' = "pass"
      BY <1>3, StartTestCases, Zenon DEF Ended
  <2>3. Here' = <<test + 1, 0, 0, 0, 0>> \/ Here' = <<test, 1, 0, 0, 0>>
      BY <2>2 DEF Here
  <2> QED BY <1>1, <1>2, <1>0, <1>3, <2>1, <2>3, BeforeNumbers DEF StartTest, Perform
<1>4. CASE StartPass
  <2>1. Here = <<test, pass, 0, 0, 0>> /\ Here' = <<test, pass, 1, 0, 0>>
      BY <1>4 DEF StartPass, Here
  <2> QED BY <1>1, <1>2, <1>0, <1>4, <2>1, BeforeNumbers DEF StartPass, Perform
<1>5. CASE EndPass
  <2>1. Here = <<test, pass, step, 0, 0>>
      BY <1>5 DEF EndPass, Here
  <2>2. Here' = <<test + 1, 0, 0, 0, 0>> \/ Here' = <<test, pass + 1, 0, 0, 0>>
      BY <1>5 DEF EndPass, Here
  <2> QED BY <1>1, <1>2, <1>0, <1>5, <2>1, <2>2, BeforeNumbers DEF EndPass, Perform
<1>6. CASE SkipStep
  <2>1. Here = <<test, pass, step, 0, 0>> /\ Here' = <<test, pass, step + 1, 0, 0>>
      BY <1>6 DEF SkipStep, Here
  <2> QED BY <1>1, <1>2, <1>0, <1>6, <2>1, BeforeNumbers DEF SkipStep, Perform
<1>7. CASE StartStep
  <2>1. Here = <<test, pass, step, 0, 0>>
      BY <1>7 DEF StartStep, Here
  <2>2. Here' = <<test, pass, step + 1, 0, 0>> \/ Here' = <<test, pass, step, 1, 0>>
      BY <1>7, StartStepCases DEF Here, Ended, SetLoopResult
  <2> QED BY <1>1, <1>2, <1>0, <1>7, <2>1, <2>2, BeforeNumbers DEF StartStep, Perform
<1>8. CASE StartRound
  <2>1. Here = <<test, pass, step, round, 0>> /\ Here' = <<test, pass, step, round, 1>>
      BY <1>8 DEF StartRound, Here, counters
  <2> QED BY <1>1, <1>2, <1>0, <1>8, <2>1, BeforeNumbers DEF StartRound, Perform
<1>9. CASE FailRound
  <2>1. Here = <<test, pass, step, round, turn>> /\ Here' = <<test, pass, step, round + 1, 0>>
      BY <1>9 DEF FailRound, Fail, Here, counters
  <2> QED BY <1>1, <1>2, <1>0, <1>9, <2>1, BeforeNumbers DEF FailRound, Perform
<1>10. CASE NoTurn
  <2>1. Here = <<test, pass, step, round, turn>> /\ Here' = <<test, pass, step, round + 1, 0>>
      BY <1>10 DEF NoTurn, Here, counters
  <2>2. ~Perform
      BY <1>0, <1>10, Facts DEF NoTurn, Perform
  <2> QED BY <1>1, <1>2, <1>0, <2>1, <2>2, BeforeNumbers
<1>11. CASE Perform
  <2>1. Here = <<test, pass, step, round, turn>> /\ Here = counters
      BY <1>11 DEF Perform, Here, counters
  <2>2. \/ Here' = <<test, pass, step, round + 1, 0>>
        \/ Here' = <<test, pass, step, round, turn + 1>>
      BY <1>11 DEF Perform, Fail, Here, counters
  <2> QED BY <1>1, <1>2, <1>0, <2>1, <2>2, BeforeNumbers
<1>12. CASE Validate
  <2>1. Here = <<test, pass, step, round + 1, 0>> /\ Here' = Here
      BY <1>12 DEF Validate, Here, counters
  <2> QED BY <1>1, <1>0, <1>2, <1>12, <2>1, BeforeNumbers DEF Validate, Perform
<1>13. CASE NextRound
  <2>1. Here = <<test, pass, step, round + 1, 0>>
      BY <1>13 DEF NextRound, Here
  <2>2. Here' = <<test, pass, step + 1, 0, 0>> \/ Here' = Here
      BY <1>13 DEF NextRound, Here
  <2> QED BY <1>1, <1>0, <1>2, <1>13, <2>1, <2>2, BeforeNumbers DEF NextRound, Perform
<1> QED BY <1>3, <1>4, <1>5, <1>6, <1>7, <1>8, <1>9, <1>10, <1>11, <1>12, <1>13 DEF Next

\* What is performed comes after everything that was.
LEMMA OrderedStep ==
    ASSUME ProgramsTyped, RunnerInv, Next
    PROVE  Ordered'
<1>0. Ordered /\ RanType
    BY DEF RunnerInv
<1>1. at # "over"
    BY DEF Next, StartTest, StartPass, EndPass, SkipStep, StartStep, StartRound, FailRound,
        NoTurn, Perform, Validate, NextRound
<1>2. \A i \in DOMAIN ran : ran[i] \in Numbers
    BY <1>0 DEF RanType, Five, Positive, Numbers
<1>3. Len(ran) \in Nat /\ (ran # <<>> => Len(ran) \in DOMAIN ran)
    BY <1>0 DEF RanType
<1>4. CASE ran' = ran
  <2>1. ASSUME at' # "over", ran # <<>>
        PROVE  Before(ran[Len(ran)], Here')
    <3>1. Before(ran[Len(ran)], Here)
        BY <1>0, <1>1, <2>1 DEF Ordered
    <3> QED BY <1>2, <1>3, <2>1, <3>1, HereGrows, BeforeTransitive
  <2> QED BY <1>0, <1>4, <2>1 DEF Ordered
<1>5. CASE Perform /\ at = "turn" /\ ran' = Append(ran, counters)
  <2> DEFINE c == counters
             n == Len(ran)
  <2>1. c \in Five /\ Here = c /\ ran' = Append(ran, c)
      BY <1>5, CountersFive DEF Here
  <2>2. at' # "over" => Before(c, Here')
      BY <1>5, <2>1, HereGrows
  <2> HIDE DEF c, n
  <2>3. /\ Len(ran') = n + 1 /\ ran'[n + 1] = c /\ n \in Nat /\ DOMAIN ran = 1..n
        /\ \A i \in 1..n : ran'[i] = ran[i]
      BY <1>0, <2>1, Grown DEF n
  <2>4. ASSUME NEW i \in 1..n
        PROVE  Before(ran'[i], ran'[i + 1])
    <3>1. CASE i = n
      <4>1. ran # <<>>
          BY <1>0, <2>3, <3>1 DEF RanType
      <4>2. Before(ran[n], Here)
          BY <1>0, <1>1, <4>1 DEF Ordered, n
      <4> QED BY <2>1, <2>3, <3>1, <4>2
    <3>2. CASE i # n
      <4>1. i \in 1..(n - 1) /\ i + 1 \in 1..n
          BY <2>3, <3>2
      <4>2. Before(ran[i], ran[i + 1])
          BY <1>0, <4>1 DEF Ordered, n
      <4> QED BY <2>3, <4>1, <4>2
    <3> QED BY <3>1, <3>2
  <2> QED BY <2>2, <2>3, <2>4 DEF Ordered
<1> QED BY <1>4, <1>5, RanSteps

-----------------------------------------------------------------------------
(* No step is left out.                                                    *)

\* What is asked of a run does not change.
LEMMA AskedKept ==
    ASSUME Next, NEW t, NEW s
    PROVE  Asked(t, s)' <=> Asked(t, s)
<1>1. prog' = prog
    BY ProgKept
<1> QED BY <1>1 DEF Asked, StepsOf, Tests

\* What was performed stays so.
LEMMA PerformedKept ==
    ASSUME RunnerInv, Next, NEW t, NEW p, NEW s, Performed(t, p, s)
    PROVE  Performed(t, p, s)'
<1>0. RanType
    BY DEF RunnerInv
<1>1. PICK j \in DOMAIN ran : SubSeq(ran[j], 1, 3) = <<t, p, s>>
    BY DEF Performed
<1>2. j \in DOMAIN ran' /\ ran'[j] = ran[j]
  <2>1. CASE ran' = ran
      BY <2>1
  <2>2. CASE ran' = Append(ran, counters)
    <3> DEFINE c == counters
    <3>1. c \in Five /\ ran' = Append(ran, c)
        BY <2>2, CountersFive
    <3> HIDE DEF c
    <3> QED BY <1>0, <3>1, Grown
  <2> QED BY <2>1, <2>2, RanSteps
<1> QED BY <1>1, <1>2 DEF Performed

\* The action at hand is the last one.
LEMMA PerformedNow ==
    ASSUME RunnerInv, ran' = Append(ran, counters)
    PROVE  /\ DOMAIN ran' = 1..(Len(ran) + 1) /\ DOMAIN ran = 1..Len(ran) /\ Len(ran) \in Nat
           /\ \A i \in DOMAIN ran : ran'[i] = ran[i]
           /\ ran'[Len(ran) + 1] = counters
           /\ SubSeq(counters, 1, 3) = <<test, pass, step>>
           /\ SubSeq(counters, 1, 4) = <<test, pass, step, round>>
           /\ \E j \in DOMAIN ran' : SubSeq(ran'[j], 1, 3) = <<test, pass, step>>
<1> DEFINE c == counters
<1>0. RanType
    BY DEF RunnerInv
<1>1. /\ c \in Five /\ ran' = Append(ran, c)
      /\ c[1] = test /\ c[2] = pass /\ c[3] = step /\ c[4] = round
    BY CountersFive
<1> HIDE DEF c
<1>2. /\ DOMAIN ran' = 1..(Len(ran) + 1) /\ DOMAIN ran = 1..Len(ran) /\ Len(ran) \in Nat
      /\ \A i \in DOMAIN ran : ran'[i] = ran[i]
      /\ ran'[Len(ran) + 1] = c
    BY <1>0, <1>1, Grown
<1>3. /\ SubSeq(c, 1, 3) = <<test, pass, step>>
      /\ SubSeq(c, 1, 4) = <<test, pass, step, round>>
    BY <1>1, FiveType
<1>4. Len(ran) + 1 \in DOMAIN ran'
    BY <1>2
<1>5. \E j \in DOMAIN ran' : SubSeq(ran'[j], 1, 3) = <<test, pass, step>>
    BY <1>2, <1>3, <1>4
<1> QED BY <1>2, <1>3, <1>5 DEF c

\* What is passed over was performed, or is not asked for.
LEMMA CoveredStep ==
    ASSUME ProgramsTyped, RunnerInv, Next
    PROVE  Covered'
<1>0. Covered /\ at # "over"
    BY DEF RunnerInv, Next, StartTest, StartPass, EndPass, SkipStep, StartStep, StartRound,
        FailRound, NoTurn, Perform, Validate, NextRound
<1>1. Tests' = Tests
    BY ProgKept
<1> SUFFICES ASSUME at' # "over", NEW t \in DOMAIN Tests, NEW s \in DOMAIN Tests[t].steps,
                    NEW p \in PassesOf(t, test', pass'), Asked(t, s),
                    Count(Tests[t].loop) > 0, Passed(t, p, s)'
             PROVE  Performed(t, p, s)'
    BY <1>1, AskedKept DEF Covered, PassesOf
<1>2. CASE Passed(t, p, s) /\ p \in PassesOf(t, test, pass)
    BY <1>0, <1>2, PerformedKept DEF Covered
<1>3. Performs(Tests[t].steps[s]) /\ InRange(t, s)
    BY Facts, AskedInRange
<1>4. /\ test \in Nat /\ pass \in Nat /\ step \in Nat /\ round \in Nat /\ turn \in Nat
      /\ test > 0 /\ pass > 0 /\ step > 0 /\ round > 0 /\ turn > 0
      /\ t \in Nat /\ t > 0 /\ s \in Nat /\ s > 0 /\ Tests[t].steps # <<>>
    BY Facts, TestData
<1>5. t = test /\ s = step => InRange(test, step) /\ Count(S.loop) # 0 /\ Count(S.act) # 0 /\
        S.act.over = ""
  <2>1. Tests[t].steps[s] \in StepType
      BY Facts, TestData
  <2>2. ASSUME t = test, s = step
        PROVE  S = Tests[t].steps[s] /\ InRange(test, step)
      BY <1>3, <2>2 DEF S, T
  <2>3. Count(Tests[t].steps[s].loop) # 0 /\ Count(Tests[t].steps[s].act) # 0
    <3> DEFINE x == Tests[t].steps[s]
    <3>1. Count(x.loop) > 0 /\ Count(x.act) > 0
        BY <1>3 DEF Performs
    <3>2. x.loop \in LoopType /\ x.act \in LoopType
        BY <2>1, StepData
    <3> HIDE DEF x
    <3>3. Count(x.loop) \in Nat /\ Count(x.act) \in Nat
        BY <3>2, LoopData
    <3> QED BY <3>1, <3>3 DEF x
  <2> QED BY <1>3, <2>2, <2>3 DEF Performs
<1>6. CASE StartTest
  <2>1. at = "test"
      BY <1>6 DEF StartTest
  <2>2. \/ test' = test + 1 /\ at' = "test" /\ (T.steps = <<>> \/ Count(T.loop) = 0)
        \/ test' = test /\ pass' = 1 /\ at' = "pass"
      BY <1>6, StartTestCases, Zenon DEF Ended
  <2>3. t # test \/ test' = test
      BY <1>4, <2>2 DEF T
  <2> QED BY <1>2, <1>4, <2>1, <2>2, <2>3 DEF Passed, PassesOf
<1>7. CASE StartPass
    BY <1>2, <1>4, <1>7 DEF StartPass, Passed, PassesOf, Begun
<1>8. CASE EndPass
  <2>1. t = test => s < step
    <3>1. CASE step > Len(T.steps)
        BY <1>4, <3>1, Facts, TestData DEF T
    <3>2. CASE prog.before # 0 /\ Index(test, step) >= prog.before
      <4>1. ASSUME t = test, step <= s
            PROVE  Index(test, step) <= Index(t, s)
          BY <1>4, <4>1, Facts, IndexGrows
      <4>2. t = test => Index(t, step) \in Nat
          BY <1>4, Facts, EarlierFinite DEF Index
      <4>3. Index(t, s) \in Nat /\ Index(t, s) < prog.before
          BY <1>3, <3>2, Facts, IndexCounts DEF InRange
      <4> QED BY <1>4, <3>2, <4>1, <4>2, <4>3, Facts
    <3> QED BY <1>8, <3>1, <3>2 DEF EndPass
  <2>2. /\ at = "step"
        /\ \/ test' = test + 1 /\ at' = "test"
           \/ test' = test /\ pass' = pass + 1 /\ at' = "pass"
      BY <1>8 DEF EndPass
  <2> QED BY <1>2, <1>4, <2>1, <2>2 DEF Passed, PassesOf
<1>9. CASE SkipStep
  <2>1. ~(t = test /\ s = step)
    <3>1. CASE t = test /\ s = step
      <4>1. Index(test, step) \in Nat /\ Index(test, step) >= prog.from
          BY <1>5, <3>1, Facts, IndexCounts DEF InRange
      <4> QED BY <1>9, <4>1, Facts DEF SkipStep
    <3> QED BY <3>1
  <2> QED BY <1>2, <1>4, <1>9, <2>1 DEF SkipStep, Passed, PassesOf, Begun
<1>10. CASE StartStep
  <2>1. \/ Count(S.loop) = 0 /\ at' = "step" /\ step' = step + 1
        \/ at' = "round" /\ round' = 1 /\ step' = step
      BY <1>10, StartStepCases DEF Ended, SetLoopResult
  <2>2. at = "step" /\ test' = test /\ pass' = pass
      BY <1>10, StartStepCases DEF StartStep, Ended, SetLoopResult
  <2>3. ~(t = test /\ s = step /\ Count(S.loop) = 0)
      BY <1>5
  <2> QED BY <1>2, <1>4, <2>1, <2>2, <2>3 DEF Passed, PassesOf, Begun
<1>11. CASE StartRound
    BY <1>2, <1>4, <1>11 DEF StartRound, Passed, PassesOf, Begun
<1>12. CASE FailRound
  <2>1. ~(t = test /\ s = step)
      BY <1>12, <1>5 DEF FailRound, Planned
  <2> QED BY <1>2, <1>4, <1>12, <2>1 DEF FailRound, counters, Passed, PassesOf, Begun
<1>13. CASE NoTurn
  <2>1. ~(t = test /\ s = step)
      BY <1>13, <1>5 DEF NoTurn
  <2> QED BY <1>2, <1>4, <1>13, <2>1 DEF NoTurn, counters, Passed, PassesOf, Begun
<1>14. CASE Perform
  <2>1. at = "turn" /\ test' = test /\ pass' = pass /\ step' = step
      BY <1>14 DEF Perform
  <2>2. \E j \in DOMAIN ran' : SubSeq(ran'[j], 1, 3) = <<test, pass, step>>
      BY <1>14, PerformedNow DEF Perform
  <2>3. CASE t = test /\ p = pass /\ s = step
      BY <2>2, <2>3 DEF Performed
  <2> QED BY <1>2, <1>4, <2>1, <2>3 DEF Passed, PassesOf
<1>15. CASE Validate
    BY <1>2, <1>4, <1>15 DEF Validate, counters, Passed, PassesOf, Begun
<1>16. CASE NextRound
    BY <1>2, <1>4, <1>16 DEF NextRound, Passed, PassesOf, Begun
<1> QED BY <1>6, <1>7, <1>8, <1>9, <1>10, <1>11, <1>12, <1>13, <1>14, <1>15, <1>16 DEF Next

\* So everything before an action was performed before it.
LEMMA CoveredBeforeStep ==
    ASSUME ProgramsTyped, RunnerInv, Next
    PROVE  CoveredBefore'
<1>0. CoveredBefore /\ Covered /\ RanType
    BY DEF RunnerInv
<1>1. Tests' = Tests
    BY ProgKept
<1>2. CASE ran' = ran
    BY <1>0, <1>1, <1>2, AskedKept DEF CoveredBefore
<1>3. CASE Perform /\ at = "turn" /\ ran' = Append(ran, counters)
  <2> DEFINE n == Len(ran) + 1
  <2>1. /\ DOMAIN ran' = 1..n /\ DOMAIN ran = 1..Len(ran) /\ Len(ran) \in Nat
        /\ \A i \in DOMAIN ran : ran'[i] = ran[i]
        /\ ran'[n] = counters
      BY <1>3, PerformedNow
  <2> HIDE DEF n
  <2> SUFFICES ASSUME NEW i \in DOMAIN ran', NEW t \in 1..ran'[i][1], NEW s \in DOMAIN Tests[t].steps,
                      NEW p \in 1..(IF t = ran'[i][1] THEN ran'[i][2] ELSE 1),
                      Asked(t, s), Count(Tests[t].loop) > 0, Before(<<t, p, s>>, ran'[i])
               PROVE  \E j \in 1..i : SubSeq(ran'[j], 1, 3) = <<t, p, s>>
      BY <1>1, AskedKept DEF CoveredBefore
  <2>2. CASE i \in DOMAIN ran
    <3>1. PICK j \in 1..i : SubSeq(ran[j], 1, 3) = <<t, p, s>>
        BY <1>0, <2>1, <2>2 DEF CoveredBefore
    <3>2. j \in DOMAIN ran
        BY <2>1, <2>2, <3>1
    <3> QED BY <2>1, <3>1, <3>2
  <2>3. CASE i = n
    <3> DEFINE c == counters
    <3>1. /\ c \in Five /\ c[1] = test /\ c[2] = pass /\ c[3] = step /\ ran'[i] = c
          /\ test \in DOMAIN Tests
        BY <1>3, <2>1, <2>3, CountersFive, Facts DEF InStep, InPass
    <3> HIDE DEF c
    <3>2. t \in DOMAIN Tests /\ t \in Nat /\ p \in Nat /\ s \in Nat
        BY <3>1, Facts, TestData
    <3>3. \/ t < test
          \/ t = test /\ p < pass
          \/ t = test /\ p = pass /\ s < step
        BY <3>1, <3>2, BeforeThree
    <3>4. Passed(t, p, s)
        BY <1>3, <3>3 DEF Passed
    <3>5. p \in PassesOf(t, test, pass)
        BY <3>1 DEF PassesOf
    <3>6. Performed(t, p, s)
        BY <1>0, <1>3, <3>2, <3>4, <3>5 DEF Covered
    <3>7. PICK j \in DOMAIN ran : SubSeq(ran[j], 1, 3) = <<t, p, s>>
        BY <3>6 DEF Performed
    <3>8. j \in 1..i
        BY <2>1, <2>3, <3>7 DEF n
    <3> QED BY <2>1, <3>7, <3>8
  <2>4. i \in DOMAIN ran \/ i = n
      BY <2>1 DEF n
  <2> QED BY <2>2, <2>3, <2>4
<1> QED BY <1>2, <1>3, RanSteps

-----------------------------------------------------------------------------
(* The variables and the results of loops.                                 *)

\* A step sees the variables of its own pass.
LEMMA OwnEnvStep ==
    ASSUME ProgramsTyped, RunnerInv, Next
    PROVE  OwnEnv'
<1>0. OwnEnv
    BY DEF RunnerInv
<1>1. prog' = prog /\ (test' = test => T' = T)
    BY ProgKept
<1> SUFFICES ASSUME InPass'
             PROVE  /\ test' = test
                    /\ \A x \in DOMAIN env' : env'[x] \in {<<0, 0>>, <<test, pass'>>}
                    /\ \A x \in T.vars : x \in DOMAIN env' /\ env'[x] = <<test, pass'>>
    BY <1>1 DEF OwnEnv
<1>2. ASSUME InPass, test' = test, pass' = pass, NEW names, env' = Put(names, <<test, pass>>, env)
      PROVE  /\ \A x \in DOMAIN env' : env'[x] \in {<<0, 0>>, <<test, pass'>>}
             /\ \A x \in T.vars : x \in DOMAIN env' /\ env'[x] = <<test, pass'>>
    BY <1>0, <1>2 DEF OwnEnv, Put
<1>3. CASE InPass /\ test' = test /\ pass' = pass /\ env' = env
    BY <1>0, <1>3 DEF OwnEnv
<1>4. CASE StartTest
    BY <1>4, StartTestCases, Zenon DEF Ended, InPass, InStep
<1>5. CASE StartPass
    BY <1>5 DEF StartPass, Seeded
<1>6. CASE EndPass
    BY <1>6 DEF EndPass, InPass, InStep
<1>7. CASE SkipStep
    BY <1>3, <1>7 DEF SkipStep, InPass
<1>8. CASE StartStep
    BY <1>2, <1>3, <1>8, StartStepCases DEF StartStep, Ended, SetLoopResult, InPass, InStep
<1>9. CASE StartRound
    BY <1>2, <1>9 DEF StartRound, Setup, InPass, InStep
<1>10. CASE FailRound
    BY <1>3, <1>10 DEF FailRound, counters, InPass, InStep
<1>11. CASE NoTurn
    BY <1>2, <1>11 DEF NoTurn, SetLoopResult, counters, InPass, InStep
<1>12. CASE Perform
    BY <1>2, <1>12 DEF Perform, InPass, InStep
<1>13. CASE Validate
    BY <1>2, <1>3, <1>13 DEF Validate, counters, InPass, InStep
<1>14. CASE NextRound
    BY <1>2, <1>3, <1>14 DEF NextRound, SetLoopResult, InPass, InStep
<1> QED BY <1>4, <1>5, <1>6, <1>7, <1>8, <1>9, <1>10, <1>11, <1>12, <1>13, <1>14 DEF Next

\* The names of the three loops are different.
LEMMA NamesDiffer ==
    ASSUME ProgramsTyped, NamesNested, RunnerInv
    PROVE  /\ "" \notin DOMAIN told
           /\ InPass => T.loop.name \notin DOMAIN told
           /\ \A loop : "" \notin Sets(loop) /\ Sets(loop) \subseteq {loop.name}
           /\ (at = "step" /\ step \in DOMAIN T.steps) \/ InStep =>
                 /\ T.loop.name \notin Sets(S.loop) /\ T.loop.name \notin Sets(S.act)
                 /\ S.loop.name \notin Sets(S.act)
<1>1. OwnResults
    BY DEF RunnerInv
<1>2. \A loop : "" \notin Sets(loop) /\ Sets(loop) \subseteq {loop.name}
    BY DEF Sets
<1>3. ASSUME (at = "step" /\ step \in DOMAIN T.steps) \/ InStep
      PROVE  /\ T.loop.name \notin Sets(S.loop) /\ T.loop.name \notin Sets(S.act)
             /\ S.loop.name \notin Sets(S.act)
  <2>1. prog \in Programs /\ test \in DOMAIN prog.tests /\ step \in DOMAIN prog.tests[test].steps
      BY <1>3, Facts DEF InPass, T, Tests
  <2>2. /\ T.loop.name # "" => T.loop.name # S.loop.name /\ T.loop.name # S.act.name
        /\ S.loop.name # "" => S.loop.name # S.act.name
      BY <2>1 DEF NamesNested, S, T, Tests
  <2> QED BY <2>2 DEF Sets
<1> QED BY <1>1, <1>2, <1>3 DEF OwnResults

\* No loop that is still running has a result.
LEMMA OwnResultsStep ==
    ASSUME ProgramsTyped, NamesNested, RunnerInv, Next
    PROVE  OwnResults'
<1>0. OwnResults
    BY DEF RunnerInv
<1>1. prog' = prog /\ (test' = test => T' = T) /\ (test' = test /\ step' = step => S' = S)
    BY ProgKept DEF S
<1>2. ASSUME NEW loop, NEW v, told' = Put(Sets(loop), v, told)
      PROVE  /\ DOMAIN told' = Sets(loop) \cup DOMAIN told
             /\ "" \notin DOMAIN told'
    BY <1>2, NamesDiffer DEF Put
<1>3. ASSUME NEW loop, told' = Restrict(told, DOMAIN told \ Sets(loop))
      PROVE  DOMAIN told' = DOMAIN told \ Sets(loop)
    BY <1>3 DEF Restrict
<1>4. ASSUME NEW loop, NEW met, SetLoopResult(loop, met)
      PROVE  /\ DOMAIN told' = Sets(loop) \cup DOMAIN told
             /\ "" \notin DOMAIN told'
    BY <1>2, <1>4 DEF SetLoopResult
<1> SUFFICES /\ "" \notin DOMAIN told'
             /\ InPass' => T'.loop.name \notin DOMAIN told'
             /\ at' \in {"turn", "judge"} => S'.loop.name \notin DOMAIN told'
    BY DEF OwnResults
<1>5. CASE StartTest
  <2>1. "" \notin DOMAIN told'
    <3>1. CASE SetLoopResult(T.loop, FALSE)
        BY <1>4, <3>1
    <3> QED BY <1>0, <1>5, <3>1, StartTestCases, Zenon DEF Ended, OwnResults
  <2>2. at' \in {"over", "test", "pass"}
      BY <1>5, StartTestCases, Zenon DEF Ended
  <2> QED BY <2>1, <2>2 DEF InPass, InStep
<1>6. CASE StartPass
    BY <1>6 DEF StartPass, Empty
<1>7. CASE EndPass
    BY <1>0, <1>4, <1>7 DEF EndPass, OwnResults, InPass, InStep
<1>8. CASE SkipStep
    BY <1>0, <1>1, <1>8 DEF SkipStep, OwnResults, InPass, InStep
<1>9. CASE StartStep
  <2>1. at = "step" /\ step \in DOMAIN T.steps
      BY <1>9, Facts, TestData DEF StartStep, InPass
  <2>2. at' \in {"over", "step", "round"} /\ test' = test
      BY <1>9, StartStepCases, Zenon DEF Ended
  <2>3. CASE SetLoopResult(S.loop, FALSE)
      BY <1>1, <1>4, <2>1, <2>2, <2>3, NamesDiffer DEF InPass
  <2>4. CASE told' = told
      BY <1>0, <1>1, <2>1, <2>2, <2>4 DEF OwnResults, InPass
  <2> QED BY <1>9, <2>3, <2>4, StartStepCases, Zenon DEF Ended
<1>10. CASE StartRound
    BY <1>0, <1>1, <1>3, <1>10 DEF StartRound, Setup, OwnResults, InPass, InStep, Sets
<1>11. CASE FailRound
    BY <1>0, <1>1, <1>11 DEF FailRound, Fail, counters, OwnResults, InPass, InStep
<1>12. CASE NoTurn
  <2>1. SetLoopResult(S.act, FALSE) /\ at = "turn" /\ test' = test /\ step' = step
      BY <1>12 DEF NoTurn, counters
  <2> QED BY <1>0, <1>1, <1>4, <2>1, NamesDiffer DEF OwnResults, InPass, InStep
<1>13. CASE Perform
  <2>1. at = "turn" /\ test' = test /\ step' = step
      BY <1>13 DEF Perform
  <2>2. CASE told' = Restrict(told, DOMAIN told \ Sets(S.act))
      BY <1>0, <1>1, <1>3, <2>1, <2>2 DEF OwnResults, InPass, InStep
  <2>3. ASSUME NEW met, SetLoopResult(S.act, met)
        PROVE  /\ "" \notin DOMAIN told'
               /\ InPass' => T'.loop.name \notin DOMAIN told'
               /\ at' \in {"turn", "judge"} => S'.loop.name \notin DOMAIN told'
      BY <1>0, <1>1, <1>4, <2>1, <2>3, NamesDiffer DEF OwnResults, InPass, InStep
  <2> QED BY <1>13, <2>2, <2>3 DEF Perform
<1>14. CASE Validate
    BY <1>0, <1>1, <1>14 DEF Validate, counters, OwnResults, InPass, InStep
<1>15. CASE NextRound
  <2>1. at = "next" /\ at' \in {"step", "round"} /\ test' = test
      BY <1>15 DEF NextRound
  <2>2. CASE told' = told
      BY <1>0, <1>1, <2>1, <2>2 DEF OwnResults, InPass, InStep
  <2>3. ASSUME NEW met, SetLoopResult(S.loop, met)
        PROVE  "" \notin DOMAIN told' /\ T'.loop.name \notin DOMAIN told'
      BY <1>1, <1>4, <2>1, <2>3, NamesDiffer DEF InPass, InStep
  <2> QED BY <1>15, <2>1, <2>2, <2>3 DEF NextRound
<1> QED BY <1>5, <1>6, <1>7, <1>8, <1>9, <1>10, <1>11, <1>12, <1>13, <1>14, <1>15 DEF Next

-----------------------------------------------------------------------------
(* What was performed was judged.                                          *)

\* What was performed is judged when the step is over, or is excused.
LEMMA JudgedStep ==
    ASSUME ProgramsTyped, RunnerInv, Next
    PROVE  Judged'
<1>0. Judged /\ RanType /\ TypeOK
    BY DEF RunnerInv
<1>1. Tests' = Tests /\ judged \subseteq judged'
    BY ProgKept DEF Next, StartTest, End, StartPass, EndPass, SkipStep, StartStep, StartRound,
        FailRound, NoTurn, Perform, Validate, NextRound
<1> SUFFICES ASSUME verdict' # "failed", NEW i \in DOMAIN ran'
             PROVE  \/ SubSeq(ran'[i], 1, 4) \in judged'
                    \/ Excused(Tests[ran'[i][1]].steps[ran'[i][3]])
                    \/ /\ at' \in {"turn", "judge"}
                       /\ SubSeq(ran'[i], 1, 4) = <<test', pass', step', round'>>
    BY <1>1 DEF Judged, Excused
<1>2. verdict # "failed" /\ at # "over"
  <2>1. at # "over" /\ Running
      BY DEF RunnerInv, Next, StartTest, StartPass, EndPass, SkipStep, StartStep, StartRound,
        FailRound, NoTurn, Perform, Validate, NextRound
  <2> QED BY <2>1 DEF Running
<1>3. ASSUME SubSeq(ran'[i], 1, 4) = <<test, pass, step, round>>
      PROVE  ran'[i][1] = test /\ ran'[i][3] = step /\ Tests[ran'[i][1]].steps[ran'[i][3]] = S
  <2>1. ran'[i] \in Five
      BY RanTypeStep DEF RanType
  <2>2. ran'[i][1] = test /\ ran'[i][3] = step
      BY <1>3, <2>1, FiveType
  <2> QED BY <2>2 DEF S, T
<1>4. CASE Perform /\ at = "turn" /\ ran' = Append(ran, counters)
  <2>1. SubSeq(ran'[i], 1, 4) = <<test, pass, step, round>> \/ (i \in DOMAIN ran /\ ran'[i] = ran[i])
    <3>1. i \in DOMAIN ran \/ i = Len(ran) + 1
        BY <1>4, PerformedNow
    <3> QED BY <1>4, <3>1, PerformedNow
  <2>2. CASE SubSeq(ran'[i], 1, 4) = <<test, pass, step, round>>
    <3>1. CASE at' \in {"turn", "judge"}
        BY <1>4, <2>2, <3>1 DEF Perform
    <3>2. CASE ~(at' \in {"turn", "judge"})
      <4>1. Fail
          BY <1>4, <3>2 DEF Perform
      <4>2. Excused(S)
          BY <4>1 DEF Fail, Excused
      <4> QED BY <1>3, <2>2, <4>2
    <3> QED BY <3>1, <3>2
  <2>3. CASE i \in DOMAIN ran /\ ran'[i] = ran[i] /\ SubSeq(ran'[i], 1, 4) # <<test, pass, step, round>>
    <3> QED BY <1>0, <1>1, <1>2, <2>3 DEF Judged
  <2> QED BY <2>1, <2>2, <2>3
<1>5. CASE ran' = ran
  <2>1. verdict # "failed" /\ at # "over"
      BY <1>2
  <2>2. \/ SubSeq(ran[i], 1, 4) \in judged
        \/ Excused(Tests[ran[i][1]].steps[ran[i][3]])
        \/ at \in {"turn", "judge"} /\ SubSeq(ran[i], 1, 4) = <<test, pass, step, round>>
      BY <1>0, <1>5, <2>1 DEF Judged
  <2>3. CASE at \in {"turn", "judge"} /\ SubSeq(ran[i], 1, 4) = <<test, pass, step, round>>
    <3>1. CASE FailRound
      <4>1. Excused(S)
          BY <3>1 DEF FailRound, Fail, Excused
      <4> QED BY <1>3, <1>5, <2>3, <4>1
    <3>2. CASE NoTurn
        BY <1>5, <2>3, <3>2 DEF NoTurn, counters
    <3>3. CASE Validate
        BY <1>5, <2>3, <3>3 DEF Validate
    <3>4. CASE Perform
      <4>1. DOMAIN ran' = 1..(Len(ran) + 1) /\ DOMAIN ran = 1..Len(ran) /\ Len(ran) \in Nat
          BY <3>4, PerformedNow DEF Perform
      <4> QED BY <1>5, <4>1
    <3> QED BY <2>3, <3>1, <3>2, <3>3, <3>4 DEF Next, StartTest, StartPass, EndPass, SkipStep,
          StartStep, StartRound, NextRound
  <2> QED BY <1>1, <1>5, <2>2, <2>3
<1> QED BY <1>4, <1>5, RanSteps

-----------------------------------------------------------------------------
(* The invariant.                                                          *)

\* The verdict comes at the end.
LEMMA RunningStep ==
    ASSUME RunnerInv, Next
    PROVE  Running'
BY StartTestCases, StartStepCases DEF RunnerInv, Running, Next, Ended, StartTest, End,
   StartPass,
    EndPass, SkipStep, StartStep, StartRound, FailRound, Fail, NoTurn, Perform, Validate, NextRound

\* The invariant holds at the start,
LEMMA RunnerInit ==
    ASSUME ProgramsTyped, Init
    PROVE  RunnerInv
<1>1. /\ at = "test" /\ test = 1 /\ pass = 1 /\ step = 1 /\ round = 1 /\ turn = 1
      /\ prog \in Programs /\ told = Empty /\ swallowed = FALSE /\ ran = <<>> /\ judged = {}
      /\ verdict = "running"
    BY DEF Init
<1>2. TypeOK
  <2>1. \A i \in 1..5 : counters[i] \in Nat
      BY <1>1 DEF counters
  <2>2. DOMAIN told = {}
      BY <1>1 DEF Empty
  <2> QED BY <1>1, <2>1, <2>2 DEF TypeOK
<1>3. Located
    BY <1>1 DEF Located, Positive, InPass, InStep
<1>4. RanType /\ DOMAIN ran = {}
    BY <1>1 DEF RanType
<1>5. Ordered /\ CoveredBefore /\ Judged
    BY <1>1, <1>4 DEF Ordered, CoveredBefore, Judged
<1>6. Covered
  <2>1. \A t \in DOMAIN Tests : t \in Nat /\ t > 0
      BY <1>1, ProgramType
  <2> QED BY <1>1, <2>1 DEF Covered, Passed
<1>7. OwnEnv /\ OwnResults /\ Running
    BY <1>1 DEF OwnEnv, OwnResults, Running, Empty, InPass, InStep
<1> QED BY <1>2, <1>3, <1>4, <1>5, <1>6, <1>7 DEF RunnerInv

\* and every step preserves it.
LEMMA RunnerStep ==
    ASSUME ProgramsTyped, NamesNested, RunnerInv, [Next]_runnerVars
    PROVE  RunnerInv'
<1>1. CASE Next
    BY <1>1, TypeOKStep, LocatedStep, RanTypeStep, OrderedStep, CoveredStep, CoveredBeforeStep,
        RunningStep, OwnEnvStep, OwnResultsStep, JudgedStep DEF RunnerInv
<1>2. CASE UNCHANGED runnerVars
  <2>1. UNCHANGED <<prog, at, test, pass, step, round, turn, env, told, swallowed, ran, judged,
          verdict>>
      BY <1>2 DEF runnerVars, counters
  <2>2. TypeOK' /\ Located' /\ RanType'
      BY <2>1 DEF RunnerInv, TypeOK, counters, Located, RanType, Tests, T, InPass, InStep
  <2>3. Ordered' /\ CoveredBefore'
      BY <2>1 DEF RunnerInv, Ordered, Here, counters, CoveredBefore, Asked, StepsOf, Tests
  <2>4. Covered' /\ Running'
      BY <2>1 DEF RunnerInv, Covered, Asked, StepsOf, Tests, PassesOf, Passed, Performed, Begun,
         Running
  <2>5. OwnEnv' /\ OwnResults' /\ Judged'
      BY <2>1 DEF RunnerInv, OwnEnv, OwnResults, Judged, Tests, T, S, InPass, InStep
  <2> QED BY <2>2, <2>3, <2>4, <2>5 DEF RunnerInv
<1> QED BY <1>1, <1>2

\* What the runs check of the runner follows.
LEMMA RunnerInvImplies ==
    ASSUME RunnerInv
    PROVE  TypeOK /\ StepsInOrder /\ OwnVariables /\ ResultAfterLoop /\ PassedMeansJudged
<1>1. StepsInOrder
    BY DEF RunnerInv, Ordered, CoveredBefore, StepsInOrder
<1>2. OwnVariables /\ ResultAfterLoop
    BY DEF RunnerInv, OwnEnv, OwnResults, OwnVariables, ResultAfterLoop, InPass, InStep
<1>3. PassedMeansJudged
  <2>1. verdict = "passed" => at = "over"
      BY DEF RunnerInv, Running
  <2> QED BY <2>1 DEF RunnerInv, Judged, PassedMeansJudged, Excused
<1> QED BY <1>1, <1>2, <1>3 DEF RunnerInv

\* Whatever programs of tests the agent is given, the invariant holds throughout.
THEOREM RunnerInvCorrect ==
    ASSUME ProgramsTyped, NamesNested
    PROVE  Spec => []RunnerInv
<1>1. Init => RunnerInv
    BY RunnerInit
<1>2. RunnerInv /\ [Next]_runnerVars => RunnerInv'
    BY RunnerStep
<1> QED BY <1>1, <1>2, PTL DEF Spec

\* Each action is performed once for a turn of its loops, in their order, and
\* after everything that is asked of the run before it.
THEOREM StepsInOrderCorrect ==
    ASSUME ProgramsTyped, NamesNested
    PROVE  Spec => []StepsInOrder
<1>1. RunnerInv => StepsInOrder
    BY RunnerInvImplies
<1> QED BY <1>1, RunnerInvCorrect, PTL

\* A step sees the variables of the definition and of its own pass, and no
\* result of a loop that is still running.
THEOREM OwnVariablesCorrect ==
    ASSUME ProgramsTyped, NamesNested
    PROVE  Spec => [](OwnVariables /\ ResultAfterLoop)
<1>1. RunnerInv => OwnVariables /\ ResultAfterLoop
    BY RunnerInvImplies
<1> QED BY <1>1, RunnerInvCorrect, PTL

\* Tests pass only when every action performed was followed by the assertions of
\* its step, or the step was told to put up with errors.
THEOREM PassedMeansJudgedCorrect ==
    ASSUME ProgramsTyped, NamesNested
    PROVE  Spec => []PassedMeansJudged
<1>1. RunnerInv => PassedMeansJudged
    BY RunnerInvImplies
<1> QED BY <1>1, RunnerInvCorrect, PTL

-----------------------------------------------------------------------------
(* What the agent reports: AgentReports, for any number of executions and  *)
(* of steps, and any room for events.                                      *)

USE DEF Reports!vars, Reports!runVars, Reports!eventVars, Reports!reportVars

-----------------------------------------------------------------------------
(* The invariant.                                                          *)

\* The queue and what was sent are lists of events there have been.
EventsAreNumbered ==
    /\ queue \in Seq(Nat) /\ sent \in Seq(Nat)
    /\ \A k \in DOMAIN queue : queue[k] \in 1..events
    /\ \A i \in DOMAIN sent : sent[i] \in 1..events

\* The flag that POST /execute looks at tells of the one execution there is,
\* unless one came before that of auto mode.
FlagTells ==
    ~overtook =>
        /\ \A e \in Reports!Everyone : runs[e] = "running" => executing
        /\ \A e, f \in Reports!Everyone : runs[e] = "running" /\ runs[f] = "running" => e = f
        /\ runs[Reports!AutoMode] = "accepted" => \A e \in Executions : runs[e] # "running"

\* Once main has waited for the executions, those that still run were accepted
\* too late; once it has waited for the reports, there are none.
WaitedFor ==
    /\ main \notin {"up", "executions"} =>
          \A e \in Reports!Everyone : runs[e] \in {"off", "ended"} \/
            (runs[e] = "running" /\ e \in late)
    /\ main \in {"server", "stop", "exited"} => reports = {}
    /\ \A e \in Reports!Everyone : runs[e] = "ended" => e \in notified

\* Every event is somewhere: sent, lost, held by one of the two that send, or
\* queued; and main ends with nothing in hand.
EventsAccounted ==
    /\ \A n \in 1..events :
          \/ \E i \in DOMAIN sent : sent[i] = n
          \/ n \in lost \/ n = worker \/ n = drain
          \/ \E k \in DOMAIN queue : queue[k] = n
    /\ main = "exited" => drain = 0 /\ (queue = <<>> \/ timedOut)

\* Until main sends as well, what was sent, what the worker sends and what is
\* queued are in order, one behind the other.
InOrder ==
    main \notin {"stop", "exited"} =>
        /\ drain = 0 /\ worker >= 0
        /\ \A i, j \in DOMAIN sent : i < j => sent[i] < sent[j]
        /\ \A i, j \in DOMAIN queue : i < j => queue[i] < queue[j]
        /\ \A i \in DOMAIN sent, k \in DOMAIN queue : sent[i] < queue[k]
        /\ worker > 0 => /\ \A i \in DOMAIN sent : sent[i] < worker
                         /\ \A k \in DOMAIN queue : worker < queue[k]

ReportInv == EventsAreNumbered /\ FlagTells /\ WaitedFor /\ EventsAccounted /\ InOrder
AgentInv == Reports!TypeOK /\ ReportInv

-----------------------------------------------------------------------------
(* The queue.                                                              *)

\* What is left of a list when its first element is taken.
LEMMA HeadTail ==
  ASSUME NEW q \in Seq(Nat), q # <<>>
  PROVE  /\ Tail(q) \in Seq(Nat) /\ Head(q) = q[1] /\ 1 \in DOMAIN q
         /\ Len(Tail(q)) <= Len(q)
         /\ DOMAIN Tail(q) = 1..(Len(q) - 1) /\ DOMAIN q = 1..Len(q)
         /\ \A k \in DOMAIN Tail(q) : k + 1 \in DOMAIN q /\ Tail(q)[k] = q[k + 1]
         /\ \A k \in DOMAIN q : k = 1 \/ (k - 1 \in DOMAIN Tail(q) /\ Tail(q)[k - 1] = q[k])
  OBVIOUS

\* A list with one more element at its end.
LEMMA Appended ==
  ASSUME NEW q \in Seq(Nat), NEW n \in Nat
  PROVE  /\ Append(q, n) \in Seq(Nat) /\ Len(Append(q, n)) = Len(q) + 1
         /\ DOMAIN q = 1..Len(q) /\ DOMAIN Append(q, n) = 1..(Len(q) + 1)
         /\ \A k \in DOMAIN q : k \in DOMAIN Append(q, n) /\ Append(q, n)[k] = q[k]
         /\ Append(q, n)[Len(q) + 1] = n
         /\ \A k \in DOMAIN Append(q, n) : k \in DOMAIN q \/ k = Len(q) + 1
  OBVIOUS

-----------------------------------------------------------------------------
(* Every step preserves the invariant.                                     *)


\* Events keep their numbers, and each is somewhere, in order, whoever sends.
LEMMA EventStep ==
  ASSUME Reports!Bounds, AgentInv, [Reports!Next]_Reports!vars
  PROVE  EventsAreNumbered' /\ EventsAccounted' /\ InOrder'
  <1> DEFINE Goal == EventsAreNumbered' /\ EventsAccounted' /\ InOrder'
  <1>0. /\ events \in Nat /\ worker \in -1..events /\ drain \in 0..events
        /\ queue \in Seq(Nat) /\ sent \in Seq(Nat)
        /\ DOMAIN queue = 1..Len(queue) /\ DOMAIN sent = 1..Len(sent)
        /\ Len(queue) \in Nat /\ Len(sent) \in Nat
        /\ \A k \in DOMAIN queue : queue[k] \in 1..events
        /\ \A i \in DOMAIN sent : sent[i] \in 1..events
    BY DEF AgentInv, Reports!TypeOK, ReportInv, EventsAreNumbered
  <1>1. CASE UNCHANGED <<Reports!eventVars, main, timedOut>>
    BY <1>1 DEF AgentInv, ReportInv, EventsAreNumbered, EventsAccounted, InOrder
  <1>2. CASE Reports!LogEvent /\ UNCHANGED <<main, timedOut>> /\ main # "exited"
    <2>1. CASE Len(queue) < QueueCap
      <3>1. /\ events' = events + 1 /\ queue' = Append(queue, events + 1)
            /\ UNCHANGED <<worker, drain, sent, lost>>
        BY <1>2, <2>1 DEF Reports!LogEvent
      <3>2. /\ queue' \in Seq(Nat) /\ DOMAIN queue' = 1..(Len(queue) + 1)
            /\ \A k \in DOMAIN queue : k \in DOMAIN queue' /\ queue'[k] = queue[k]
            /\ queue'[Len(queue) + 1] = events + 1
            /\ \A k \in DOMAIN queue' : k \in DOMAIN queue \/ k = Len(queue) + 1
        <4>1. events + 1 \in Nat
          BY <1>0
        <4> DEFINE longer == Append(queue, events + 1)
        <4>2. /\ longer \in Seq(Nat) /\ DOMAIN longer = 1..(Len(queue) + 1)
              /\ \A k \in DOMAIN queue : k \in DOMAIN longer /\ longer[k] = queue[k]
              /\ longer[Len(queue) + 1] = events + 1
              /\ \A k \in DOMAIN longer : k \in DOMAIN queue \/ k = Len(queue) + 1
          BY <1>0, <4>1, Appended
        <4> HIDE DEF longer
        <4>3. queue' = longer
          BY <3>1 DEF longer
        <4> QED BY <4>2, <4>3
      <3>3. EventsAreNumbered'
        <4>0. \A n \in 1..events : n \in 1..(events + 1)
          BY <1>0
        <4>1. ASSUME NEW k \in DOMAIN queue'
              PROVE  queue'[k] \in 1..events'
          <5>1. CASE k \in DOMAIN queue
            BY <1>0, <3>1, <3>2, <4>0, <5>1
          <5>2. CASE k = Len(queue) + 1
            <6>1. queue'[k] = events + 1 /\ events' = events + 1
              BY <3>1, <3>2, <5>2
            <6>2. events \in Nat
              BY <1>0
            <6>3. events + 1 \in 1..(events + 1)
              BY <6>2
            <6> QED BY <6>1, <6>3
          <5> QED BY <3>2, <4>1, <5>1, <5>2
        <4>2. \A i \in DOMAIN sent' : sent'[i] \in 1..events'
          BY <1>0, <3>1, <4>0
        <4> QED BY <1>0, <3>1, <3>2, <4>1, <4>2 DEF EventsAreNumbered
      <3>4. EventsAccounted'
        <4>1. ASSUME NEW n \in 1..(events + 1)
              PROVE  \/ \E i \in DOMAIN sent : sent[i] = n
                     \/ n \in lost \/ n = worker \/ n = drain
                     \/ \E k \in DOMAIN queue' : queue'[k] = n
          <5>1. CASE n = events + 1
            BY <1>0, <3>2, <5>1
          <5>2. CASE n \in 1..events
            BY <3>2, <5>2 DEF AgentInv, ReportInv, EventsAccounted
          <5> QED BY <1>0, <5>1, <5>2
        <4>2. main' # "exited"
          BY <1>2
        <4> QED BY <3>1, <4>1, <4>2 DEF EventsAccounted
      <3>5. InOrder'
        <4>1. SUFFICES ASSUME main \notin {"stop", "exited"}
                       PROVE  InOrder'
          BY <1>2 DEF InOrder
        <4>2. \A i, j \in DOMAIN queue' : i < j => queue'[i] < queue'[j]
          <5>1. SUFFICES ASSUME NEW i \in DOMAIN queue', NEW j \in DOMAIN queue', i < j
                         PROVE  queue'[i] < queue'[j]
            OBVIOUS
          <5>2. i \in DOMAIN queue /\ queue'[i] = queue[i] /\ queue[i] \in 1..events
            BY <1>0, <3>2, <5>1
          <5>3. CASE j \in DOMAIN queue
            BY <3>2, <4>1, <5>1, <5>2, <5>3 DEF AgentInv, ReportInv, InOrder
          <5>4. CASE j = Len(queue) + 1
            BY <1>0, <3>2, <5>2, <5>4
          <5> QED BY <3>2, <5>3, <5>4
        <4>3. \A i \in DOMAIN sent, k \in DOMAIN queue' : sent[i] < queue'[k]
          <5>1. SUFFICES ASSUME NEW i \in DOMAIN sent, NEW k \in DOMAIN queue'
                         PROVE  sent[i] < queue'[k]
            OBVIOUS
          <5>2. CASE k \in DOMAIN queue
            BY <3>2, <4>1, <5>2 DEF AgentInv, ReportInv, InOrder
          <5>3. CASE k = Len(queue) + 1
            BY <1>0, <3>2, <5>3
          <5> QED BY <3>2, <5>2, <5>3
        <4>4. worker > 0 => \A k \in DOMAIN queue' : worker < queue'[k]
          <5>1. SUFFICES ASSUME worker > 0, NEW k \in DOMAIN queue'
                         PROVE  worker < queue'[k]
            OBVIOUS
          <5>2. CASE k \in DOMAIN queue
            BY <3>2, <4>1, <5>1, <5>2 DEF AgentInv, ReportInv, InOrder
          <5>3. CASE k = Len(queue) + 1
            BY <1>0, <3>2, <5>3
          <5> QED BY <3>2, <5>2, <5>3
        <4> QED BY <3>1, <4>1, <4>2, <4>3, <4>4 DEF AgentInv, ReportInv, InOrder
      <3> QED BY <3>3, <3>4, <3>5
    <2>2. CASE ~(Len(queue) < QueueCap)
      <3>1. /\ events' = events + 1 /\ lost' = lost \cup {events + 1}
            /\ UNCHANGED <<worker, drain, sent, queue>>
        BY <1>2, <2>2 DEF Reports!LogEvent
      <3>2. EventsAreNumbered'
        BY <1>0, <3>1 DEF EventsAreNumbered
      <3>3. EventsAccounted'
        BY <1>0, <1>2, <3>1 DEF AgentInv, ReportInv, EventsAccounted
      <3>4. InOrder'
        BY <1>0, <1>2, <3>1 DEF AgentInv, ReportInv, InOrder
      <3> QED BY <3>2, <3>3, <3>4
    <2> QED BY <2>1, <2>2
  <1>3. CASE Reports!WorkerTakes \/ Reports!DrainTakes
    <2>1. /\ queue # <<>> /\ queue' = Tail(queue)
          /\ \/ worker = 0 /\ worker' = queue[1] /\ drain' = drain
             \/ main = "stop" /\ drain = 0 /\ drain' = queue[1] /\ worker' = worker
          /\ UNCHANGED <<events, lost, sent, main, timedOut>> /\ main # "exited"
      BY <1>0, <1>3, HeadTail DEF Reports!WorkerTakes, Reports!DrainTakes, Reports!Alive
    <2>2. /\ queue' \in Seq(Nat) /\ 1 \in DOMAIN queue
          /\ \A k \in DOMAIN queue' : k + 1 \in DOMAIN queue /\ queue'[k] = queue[k + 1]
          /\ \A k \in DOMAIN queue : k = 1 \/ (k - 1 \in DOMAIN queue' /\ queue'[k - 1] = queue[k])
          /\ DOMAIN queue' = 1..(Len(queue) - 1)
      BY <1>0, <2>1, HeadTail
    <2>3. EventsAreNumbered'
      BY <1>0, <2>1, <2>2 DEF EventsAreNumbered
    <2>4. EventsAccounted'
      <3>1. ASSUME NEW n \in 1..events
            PROVE  \/ \E i \in DOMAIN sent : sent[i] = n
                   \/ n \in lost \/ n = worker' \/ n = drain'
                   \/ \E k \in DOMAIN queue' : queue'[k] = n
        <4>1. CASE \E k \in DOMAIN queue : queue[k] = n
          <5>1. PICK k \in DOMAIN queue : queue[k] = n
            BY <4>1
          <5>2. CASE k = 1
            BY <2>1, <5>1, <5>2
          <5>3. CASE k # 1
            BY <2>2, <5>1, <5>3
          <5> QED BY <5>2, <5>3
        <4>2. CASE n = worker \/ n = drain
          BY <2>1, <4>2
        <4> QED BY <4>1, <4>2 DEF AgentInv, ReportInv, EventsAccounted
      <3> QED BY <2>1, <3>1 DEF EventsAccounted
    <2>5. InOrder'
      <3>1. SUFFICES ASSUME main \notin {"stop", "exited"}
                     PROVE  InOrder'
        BY <2>1 DEF InOrder
      <3>2. worker = 0 /\ worker' = queue[1] /\ drain' = drain
        BY <2>1, <3>1
      <3>3. \A i, j \in DOMAIN queue' : i < j => queue'[i] < queue'[j]
        <4>1. SUFFICES ASSUME NEW i \in DOMAIN queue', NEW j \in DOMAIN queue', i < j
                       PROVE  queue'[i] < queue'[j]
          OBVIOUS
        <4>2. /\ i + 1 \in DOMAIN queue /\ j + 1 \in DOMAIN queue /\ i + 1 < j + 1
              /\ queue'[i] = queue[i + 1] /\ queue'[j] = queue[j + 1]
          BY <1>0, <2>2, <4>1
        <4> QED BY <3>1, <4>2 DEF AgentInv, ReportInv, InOrder
      <3>4. \A i \in DOMAIN sent, k \in DOMAIN queue' : sent[i] < queue'[k]
        BY <2>2, <3>1 DEF AgentInv, ReportInv, InOrder
      <3>5. \A i \in DOMAIN sent : sent[i] < worker'
        BY <2>2, <3>1, <3>2 DEF AgentInv, ReportInv, InOrder
      <3>6. \A k \in DOMAIN queue' : worker' < queue'[k]
        <4>1. SUFFICES ASSUME NEW k \in DOMAIN queue'
                       PROVE  worker' < queue'[k]
          OBVIOUS
        <4>2. k + 1 \in DOMAIN queue /\ 1 < k + 1 /\ queue'[k] = queue[k + 1]
          BY <1>0, <2>2
        <4> QED BY <2>2, <3>1, <3>2, <4>2 DEF AgentInv, ReportInv, InOrder
      <3>7. worker' >= 0
        BY <1>0, <2>2, <3>2
      <3> QED BY <2>1, <3>1, <3>2, <3>3, <3>4, <3>5, <3>6, <3>7
              DEF AgentInv, ReportInv, InOrder
    <2> QED BY <2>3, <2>4, <2>5
  <1>4. CASE Reports!WorkerSends \/ Reports!DrainSends
    <2>1. \E n \in 1..events :
             /\ sent' = Append(sent, n)
             /\ \/ worker = n /\ worker' = 0 /\ drain' = drain
                \/ main = "stop" /\ drain = n /\ drain' = 0 /\ worker' = worker
             /\ UNCHANGED <<queue, events, lost, main, timedOut>> /\ main # "exited"
      BY <1>0, <1>4 DEF Reports!WorkerSends, Reports!DrainSends, Reports!Alive
    <2>2. PICK n \in 1..events :
             /\ sent' = Append(sent, n)
             /\ \/ worker = n /\ worker' = 0 /\ drain' = drain
                \/ main = "stop" /\ drain = n /\ drain' = 0 /\ worker' = worker
             /\ UNCHANGED <<queue, events, lost, main, timedOut>> /\ main # "exited"
      BY <2>1
    <2>3. /\ sent' \in Seq(Nat) /\ DOMAIN sent' = 1..(Len(sent) + 1)
          /\ \A k \in DOMAIN sent : k \in DOMAIN sent' /\ sent'[k] = sent[k]
          /\ sent'[Len(sent) + 1] = n
          /\ \A k \in DOMAIN sent' : k \in DOMAIN sent \/ k = Len(sent) + 1
      <3>1. n \in Nat
        BY <1>0
      <3> DEFINE longer == Append(sent, n)
      <3>2. /\ longer \in Seq(Nat) /\ DOMAIN longer = 1..(Len(sent) + 1)
            /\ \A k \in DOMAIN sent : k \in DOMAIN longer /\ longer[k] = sent[k]
            /\ longer[Len(sent) + 1] = n
            /\ \A k \in DOMAIN longer : k \in DOMAIN sent \/ k = Len(sent) + 1
        BY <1>0, <3>1, Appended
      <3> HIDE DEF longer
      <3>3. sent' = longer
        BY <2>2 DEF longer
      <3> QED BY <3>2, <3>3
    <2>4. EventsAreNumbered'
      BY <1>0, <2>2, <2>3 DEF EventsAreNumbered
    <2>5. EventsAccounted'
      <3>1. ASSUME NEW m \in 1..events
            PROVE  \/ \E i \in DOMAIN sent' : sent'[i] = m
                   \/ m \in lost \/ m = worker' \/ m = drain'
                   \/ \E k \in DOMAIN queue : queue[k] = m
        <4>1. CASE \E i \in DOMAIN sent : sent[i] = m
          BY <2>3, <4>1
        <4>2. CASE m = n
          <5>1. Len(sent) + 1 \in DOMAIN sent'
            BY <1>0, <2>3
          <5> QED BY <2>3, <4>2, <5>1
        <4>3. CASE m # n /\ (m = worker \/ m = drain)
          BY <2>2, <4>3
        <4> QED BY <4>1, <4>2, <4>3 DEF AgentInv, ReportInv, EventsAccounted
      <3> QED BY <2>2, <3>1 DEF EventsAccounted
    <2>6. InOrder'
      <3>1. SUFFICES ASSUME main \notin {"stop", "exited"}
                     PROVE  InOrder'
        BY <2>2 DEF InOrder
      <3>2. worker = n /\ worker' = 0 /\ drain' = drain /\ worker > 0
        <4>1. worker = n /\ worker' = 0 /\ drain' = drain
          BY <2>2, <3>1
        <4>2. events \in Nat /\ n \in 1..events
          BY <1>0, <2>2
        <4>3. n > 0
          BY <4>2
        <4> QED BY <4>1, <4>3
      <3>3. \A i, j \in DOMAIN sent' : i < j => sent'[i] < sent'[j]
        <4>1. SUFFICES ASSUME NEW i \in DOMAIN sent', NEW j \in DOMAIN sent', i < j
                       PROVE  sent'[i] < sent'[j]
          OBVIOUS
        <4>2. i \in DOMAIN sent /\ sent'[i] = sent[i]
          BY <1>0, <2>3, <4>1
        <4>3. CASE j \in DOMAIN sent
          BY <2>3, <3>1, <4>1, <4>2, <4>3 DEF AgentInv, ReportInv, InOrder
        <4>4. CASE j = Len(sent) + 1
          BY <2>3, <3>1, <3>2, <4>2, <4>4 DEF AgentInv, ReportInv, InOrder
        <4> QED BY <2>3, <4>3, <4>4
      <3>4. \A i \in DOMAIN sent', k \in DOMAIN queue : sent'[i] < queue[k]
        BY <2>3, <3>1, <3>2 DEF AgentInv, ReportInv, InOrder
      <3> QED BY <2>2, <3>1, <3>2, <3>3, <3>4 DEF AgentInv, ReportInv, InOrder
    <2> QED BY <2>4, <2>5, <2>6
  <1>5. CASE Reports!WorkerStops
    BY <1>0, <1>5 DEF Reports!WorkerStops, AgentInv, ReportInv, EventsAreNumbered,
                      EventsAccounted, InOrder
  <1>6. CASE Reports!Exit
    BY <1>6 DEF Reports!Exit, Reports!Went, AgentInv, ReportInv, EventsAreNumbered,
                EventsAccounted, InOrder
  <1>7. CASE Reports!Signal \/ Reports!WaitExecutions \/ Reports!WaitReports \/ Reports!StopServer
    BY <1>7 DEF Reports!Signal, Reports!WaitExecutions, Reports!WaitReports, Reports!StopServer,
       Reports!Went, AgentInv,
                ReportInv, EventsAreNumbered, EventsAccounted, InOrder
  <1>8. ASSUME NEW e \in Reports!Everyone, Reports!PerformStep(e)
        PROVE  Goal
    BY <1>2, <1>8 DEF Reports!PerformStep, Reports!Alive
  <1>9. ASSUME NEW e \in Reports!Everyone, Reports!EndExecution(e)
        PROVE  Goal
    BY <1>1, <1>9 DEF Reports!EndExecution
  <1>10. CASE (\E e \in Executions : Reports!Execute(e)) \/ Reports!BeginAuto \/
                (\E n \in reports : Reports!Report(n))
    BY <1>1, <1>10 DEF Reports!Execute, Reports!BeginAuto, Reports!Report
  <1>11. CASE UNCHANGED Reports!vars
    BY <1>1, <1>11
  <1> QED BY <1>3, <1>4, <1>5, <1>6, <1>7, <1>8, <1>9, <1>10, <1>11 DEF Reports!Next

\* Executions follow one another, and main waits for them and their reports.
LEMMA RunStep ==
  ASSUME Reports!Bounds, AgentInv, [Reports!Next]_Reports!vars
  PROVE  FlagTells' /\ WaitedFor'
  <1> USE DEF Reports!Everyone, Reports!TypeOK
  <1>0. Reports!TypeOK /\ FlagTells /\ WaitedFor /\ Reports!AutoMode \notin Executions
    BY DEF AgentInv, ReportInv, Reports!Bounds
  <1>1. CASE UNCHANGED <<Reports!runVars, Reports!reportVars, main>>
    BY <1>0, <1>1 DEF FlagTells, WaitedFor
  <1>2. ASSUME NEW e \in Executions, Reports!Execute(e)
        PROVE  FlagTells' /\ WaitedFor'
    <2>1. FlagTells'
      BY <1>0, <1>2 DEF Reports!Execute, Reports!Free, FlagTells
    <2>2. WaitedFor'
      BY <1>0, <1>2 DEF Reports!Execute, WaitedFor
    <2> QED BY <2>1, <2>2
  <1>3. CASE Reports!BeginAuto
    <2>1. FlagTells'
      BY <1>0, <1>3 DEF Reports!BeginAuto, FlagTells
    <2>2. WaitedFor'
      BY <1>0, <1>3 DEF Reports!BeginAuto, WaitedFor
    <2> QED BY <2>1, <2>2
  <1>4. ASSUME NEW e \in Reports!Everyone, Reports!PerformStep(e)
        PROVE  FlagTells' /\ WaitedFor'
    <2>1. UNCHANGED <<runs, executing, overtook, late, notified, main>>
      BY <1>4 DEF Reports!PerformStep
    <2>2. main \in {"up", "executions"}
      BY <1>0, <1>4 DEF Reports!PerformStep, WaitedFor
    <2> QED BY <1>0, <2>1, <2>2 DEF FlagTells, WaitedFor
  <1>5. ASSUME NEW e \in Reports!Everyone, Reports!EndExecution(e)
        PROVE  FlagTells' /\ WaitedFor'
    <2>1. FlagTells'
      BY <1>0, <1>5 DEF Reports!EndExecution, FlagTells
    <2>2. WaitedFor'
      BY <1>0, <1>5 DEF Reports!EndExecution, Reports!NotifyCompletion, WaitedFor
    <2> QED BY <2>1, <2>2
  <1>6. ASSUME NEW n \in reports, Reports!Report(n)
        PROVE  FlagTells' /\ WaitedFor'
    BY <1>0, <1>6 DEF Reports!Report, FlagTells, WaitedFor
  <1>7. CASE Reports!Signal \/ Reports!WaitExecutions \/ Reports!WaitReports \/ Reports!StopServer \/
               Reports!Exit
    BY <1>0, <1>7 DEF Reports!Signal, Reports!WaitExecutions, Reports!WaitReports,
       Reports!StopServer, Reports!Exit,
                      Reports!Went, FlagTells, WaitedFor
  <1>8. CASE Reports!WorkerTakes \/ Reports!WorkerSends \/ Reports!WorkerStops \/ Reports!DrainTakes \/
               Reports!DrainSends
    BY <1>1, <1>8 DEF Reports!WorkerTakes, Reports!WorkerSends, Reports!WorkerStops,
       Reports!DrainTakes, Reports!DrainSends
  <1>9. CASE UNCHANGED Reports!vars
    BY <1>1, <1>9
  <1> QED BY <1>2, <1>3, <1>4, <1>5, <1>6, <1>7, <1>8, <1>9 DEF Reports!Next

\* The queue keeps to its room, and the rest to its type.
LEMMA AgentTypeStep ==
  ASSUME Reports!Bounds, AgentInv, [Reports!Next]_Reports!vars
  PROVE  Reports!TypeOK'
  <1> USE DEF Reports!TypeOK, Reports!Everyone
  <1>0. Reports!TypeOK /\ queue \in Seq(Nat) /\ QueueCap \in Nat /\ MaxSteps \in Nat
    BY DEF AgentInv, ReportInv, EventsAreNumbered, Reports!Bounds
  <1>1. ASSUME NEW e \in Executions, Reports!Execute(e)
        PROVE  Reports!TypeOK'
    BY <1>0, <1>1 DEF Reports!Execute
  <1>2. CASE Reports!BeginAuto
    BY <1>0, <1>2 DEF Reports!BeginAuto
  <1>3. ASSUME NEW e \in Reports!Everyone, Reports!PerformStep(e)
        PROVE  Reports!TypeOK'
    <2>1. /\ steps' = steps + 1 /\ steps' \in 0..MaxSteps
          /\ reports' = reports \cup {steps + 1}
          /\ UNCHANGED <<runs, executing, late, overtook, reported, notified, main, timedOut>>
      BY <1>0, <1>3 DEF Reports!PerformStep
    <2>2. reports' \cup reported' \subseteq 1..steps'
      BY <1>0, <2>1
    <2>3. /\ events' = events + 1 /\ UNCHANGED <<worker, drain>>
          /\ \/ /\ Len(queue) < QueueCap
                /\ queue' = Append(queue, events + 1) /\ lost' = lost
             \/ lost' = lost \cup {events + 1} /\ queue' = queue
      BY <1>3 DEF Reports!PerformStep, Reports!LogEvent
    <2>4. Len(queue') =< QueueCap /\ \A k \in DOMAIN queue' : queue'[k] \in 0..events'
      <3>1. CASE queue' = queue
        <4>1. events \in Nat /\ Len(queue) =< QueueCap /\ \A k \in DOMAIN queue : queue[k] \in 0..events
          BY <1>0
        <4> QED BY <2>3, <3>1, <4>1
      <3>2. CASE Len(queue) < QueueCap /\ queue' = Append(queue, events + 1)
        <4>1. /\ Len(queue') = Len(queue) + 1
              /\ \A k \in DOMAIN queue : queue'[k] = queue[k]
              /\ queue'[Len(queue) + 1] = events + 1
              /\ \A k \in DOMAIN queue' : k \in DOMAIN queue \/ k = Len(queue) + 1
          BY <1>0, <3>2, Appended
        <4>2. Len(queue') =< QueueCap
          BY <1>0, <3>2, <4>1
        <4>3. ASSUME NEW k \in DOMAIN queue'
              PROVE  queue'[k] \in 0..events'
          BY <1>0, <2>3, <4>1
        <4> QED BY <4>2, <4>3
      <3> QED BY <2>3, <3>1, <3>2
    <2>5. \A n \in {drain'} \cup {queue'[i] : i \in DOMAIN queue'} \cup lost' : n \in 0..events'
      BY <1>0, <2>3, <2>4
    <2>6. worker' \in -1..events' /\ events' \in Nat
      BY <1>0, <2>3
    <2> QED BY <1>0, <2>1, <2>2, <2>4, <2>5, <2>6
  <1>4. ASSUME NEW e \in Reports!Everyone, Reports!EndExecution(e)
        PROVE  Reports!TypeOK'
    BY <1>0, <1>4 DEF Reports!EndExecution, Reports!NotifyCompletion
  <1>5. ASSUME NEW n \in reports, Reports!Report(n)
        PROVE  Reports!TypeOK'
    BY <1>0, <1>5 DEF Reports!Report
  <1>6. CASE Reports!WorkerTakes \/ Reports!DrainTakes
    <2>1. /\ queue # <<>> /\ queue' = Tail(queue)
          /\ UNCHANGED <<Reports!runVars, events, lost, sent, Reports!reportVars, main, timedOut>>
          /\ worker' \in {worker, queue[1]} /\ drain' \in {drain, queue[1]}
      BY <1>0, <1>6, HeadTail DEF Reports!WorkerTakes, Reports!DrainTakes
    <2>2. /\ Len(queue') <= Len(queue) /\ 1 \in DOMAIN queue
          /\ \A k \in DOMAIN queue' : k + 1 \in DOMAIN queue /\ queue'[k] = queue[k + 1]
      BY <1>0, <2>1, HeadTail
    <2>3. Len(queue') \in Nat /\ Len(queue) \in Nat
      BY <1>0, <2>1, HeadTail
    <2>4. queue[1] \in 0..events
      BY <1>0, <2>2
    <2>5. \A n \in {drain'} \cup {queue'[i] : i \in DOMAIN queue'} \cup lost' : n \in 0..events'
      BY <1>0, <2>1, <2>2, <2>4
    <2> QED BY <1>0, <2>1, <2>2, <2>3, <2>4, <2>5
  <1>7. CASE Reports!WorkerSends \/ Reports!DrainSends \/ Reports!WorkerStops
    BY <1>0, <1>7 DEF Reports!WorkerSends, Reports!DrainSends, Reports!WorkerStops
  <1>8. CASE Reports!Signal \/ Reports!WaitExecutions \/ Reports!WaitReports \/ Reports!StopServer \/
               Reports!Exit
    BY <1>0, <1>8 DEF Reports!Signal, Reports!WaitExecutions, Reports!WaitReports,
       Reports!StopServer, Reports!Exit, Reports!Went
  <1>9. CASE UNCHANGED Reports!vars
    BY <1>0, <1>9
  <1> QED BY <1>1, <1>2, <1>3, <1>4, <1>5, <1>6, <1>7, <1>8, <1>9 DEF Reports!Next

\* The invariant holds at the start,
LEMMA AgentInit ==
  ASSUME Reports!Bounds, Reports!Init
  PROVE  AgentInv
  <1>1. queue = <<>> /\ sent = <<>> /\ DOMAIN queue = {} /\ DOMAIN sent = {}
    BY DEF Reports!Init
  <1>2. Reports!TypeOK
    <2>1. /\ runs \in [Reports!Everyone -> {"off", "accepted", "running", "ended"}]
          /\ executing \in BOOLEAN /\ timedOut \in BOOLEAN /\ overtook \in BOOLEAN
          /\ main \in {"up", "executions", "reports", "server", "stop", "exited"}
      BY DEF Reports!Init
    <2>2. steps \in 0..MaxSteps /\ events \in Nat /\ worker \in -1..events
      BY DEF Reports!Init, Reports!Bounds
    <2>3. late \subseteq Executions /\ notified \subseteq Reports!Everyone
      BY DEF Reports!Init
    <2>4. Len(queue) =< QueueCap
      <3>1. Len(queue) = 0
        BY <1>1
      <3> QED BY <3>1 DEF Reports!Bounds
    <2>5. \A n \in {drain} \cup {queue[i] : i \in DOMAIN queue} \cup lost : n \in 0..events
      BY <1>1 DEF Reports!Init
    <2>6. reports \cup reported \subseteq 1..steps
      BY DEF Reports!Init
    <2> QED BY <2>1, <2>2, <2>3, <2>4, <2>5, <2>6 DEF Reports!TypeOK
  <1>3. EventsAreNumbered /\ EventsAccounted /\ InOrder
    BY <1>1 DEF Reports!Init, EventsAreNumbered, EventsAccounted, InOrder
  <1>4. FlagTells /\ WaitedFor
    BY DEF Reports!Bounds, Reports!Init, FlagTells, WaitedFor, Reports!Everyone
  <1> QED BY <1>2, <1>3, <1>4 DEF AgentInv, ReportInv

\* and every step preserves it.
LEMMA AgentStep ==
  ASSUME Reports!Bounds, AgentInv, [Reports!Next]_Reports!vars
  PROVE  AgentInv'
  BY EventStep, RunStep, AgentTypeStep DEF AgentInv, ReportInv

\* What the runs check of the reports follows: one execution at a time,
LEMMA InvariantExcludes ==
  ASSUME AgentInv
  PROVE  Reports!OneExecution
  BY DEF AgentInv, ReportInv, FlagTells, Reports!OneExecution, Reports!Running

\* an end with everything told,
LEMMA InvariantEndsWell ==
  ASSUME AgentInv
  PROVE  Reports!EndsWell
  <1>1. SUFFICES ASSUME AgentInv, main = "exited"
                 PROVE  /\ reports = {}
                        /\ \A e \in Reports!Everyone : runs[e] # "off" => e \in notified \cup late
                        /\ \A n \in 1..events :
                              \/ n \in {sent[i] : i \in DOMAIN sent} \cup lost \cup {worker}
                              \/ timedOut
    BY DEF Reports!EndsWell
  <1>2. reports = {} /\ \A e \in Reports!Everyone : runs[e] # "off" => e \in notified \cup late
    BY <1>1 DEF AgentInv, ReportInv, WaitedFor
  <1>3. ASSUME NEW n \in 1..events, ~timedOut
        PROVE  n \in {sent[i] : i \in DOMAIN sent} \cup lost \cup {worker}
    <2>1. drain = 0 /\ queue = <<>>
      BY <1>1, <1>3 DEF AgentInv, ReportInv, EventsAccounted
    <2>2. DOMAIN queue = {}
      BY <2>1
    <2>3. n # 0
      BY <1>1, <1>3 DEF AgentInv, Reports!TypeOK
    <2> QED BY <1>1, <2>1, <2>2, <2>3 DEF AgentInv, ReportInv, EventsAccounted
  <1> QED BY <1>2, <1>3

\* and events in their order.
LEMMA InvariantOrders ==
  ASSUME AgentInv
  PROVE  Reports!EventsInOrder
  <1>1. SUFFICES ASSUME AgentInv, NEW i \in DOMAIN sent, NEW j \in DOMAIN sent,
                        i < j, sent[i] > sent[j],
                        main \notin {"stop", "exited"}
                 PROVE  FALSE
    BY DEF Reports!EventsInOrder
  <1>2. sent[i] < sent[j] /\ sent[i] \in Nat /\ sent[j] \in Nat
    BY <1>1 DEF AgentInv, ReportInv, InOrder, EventsAreNumbered
  <1> QED BY <1>1, <1>2

\* The invariant holds throughout.
LEMMA AgentInvariant ==
  ASSUME Reports!Bounds
  PROVE  Reports!Spec => []AgentInv
  <1>1. Reports!Init => AgentInv
    BY AgentInit
  <1>2. AgentInv /\ [Reports!Next]_Reports!vars => AgentInv'
    BY AgentStep
  <1> QED BY <1>1, <1>2, PTL DEF Reports!Spec

-----------------------------------------------------------------------------
(* The theorems.                                                           *)

\* POST /execute is refused while an execution runs: two run at a time only
\* when one was accepted before that of auto mode had begun.
THEOREM OneExecutionCorrect ==
  ASSUME Reports!Bounds
  PROVE  Reports!Spec => []Reports!OneExecution
  <1>1. AgentInv => Reports!OneExecution
    BY InvariantExcludes
  <1> QED BY <1>1, AgentInvariant, PTL

\* An agent that has come to its end has sent every result, has reported the
\* end of every execution it waited for, and misses no event but those the
\* queue had no room for, the one in the worker's hands and those that were
\* left when the time for draining ran out.
THEOREM EndsWellCorrect ==
  ASSUME Reports!Bounds
  PROVE  Reports!Spec => []Reports!EndsWell
  <1>1. AgentInv => Reports!EndsWell
    BY InvariantEndsWell
  <1> QED BY <1>1, AgentInvariant, PTL

\* As long as only the worker sends, events arrive in the order in which they
\* were logged, whatever the queue drops.
THEOREM EventsInOrderCorrect ==
  ASSUME Reports!Bounds
  PROVE  Reports!Spec => []Reports!EventsInOrder
  <1>1. AgentInv => Reports!EventsInOrder
    BY InvariantOrders
  <1> QED BY <1>1, AgentInvariant, PTL

-----------------------------------------------------------------------------
(* A connection through the proxy of a broker, for any frames.             *)

\* A broker proxy forwards a frame and inspects it before it reads the next; once
\* it reads no more, what is left of the client's is known to be inspected.
RelayInv ==
    /\ conn \in Scripts
    /\ fwd \in Nat /\ seen \in Nat /\ offered \in Nat
    /\ client \in {"open", "gone"} /\ server \in {"open", "crashed", "left"}
    /\ up \in {"running", "blocked", "done"} /\ (up = "blocked" => Wire!Is("redis"))
    /\ down \in {"running", "done"} /\ closed \in {"nothing", "client", "both"}
    /\ Wire!IsBroker =>
        /\ seen <= fwd
        /\ closed # "nothing" => closed = "both" /\ up = "done"
        /\ server = "left" => up = "done"
        /\ up = "done" => seen = fwd
        /\ up = "done" /\ client = "gone" /\ server # "crashed" => offered = fwd

\* A connection begins so,
LEMMA RelayInit ==
  ASSUME Wire!ScriptsTyped, Wire!Init
  PROVE  RelayInv
<1>1. Len(conn.reqs) \in Nat
    BY DEF Wire!Init, Wire!ScriptsTyped
<1> QED BY <1>1 DEF Wire!Init, RelayInv

\* and keeps to it, whatever either side and the proxy do.
LEMMA RelayStep ==
  ASSUME RelayInv, Wire!ScriptsTyped, [Wire!Next]_Wire!vars
  PROVE  RelayInv'
<1>0. Len(Wire!Reqs) \in Nat
    BY DEF RelayInv, Wire!ScriptsTyped, Wire!Reqs
<1>a. conn' = conn
    BY DEF Wire!Next, Wire!ClientToUpstream, Wire!UpstreamToClient, Wire!Relay, Wire!Leave,
       Wire!Serve, Wire!Push, Wire!Crash, Wire!ServerLeaves, Wire!ReadAndBlock,
       Wire!ReadAndForward, Wire!ForwardRequest, Wire!InspectRequest, Wire!CompleteMessage,
       Wire!UpEnds, Wire!TakePending, Wire!RelayBack,
       Wire!RelayFails, Wire!InspectResponse,
       Wire!DownEnds, Wire!CloseBoth, Wire!CloseClient, Wire!DeadlinePasses, Wire!vars
<1>b. (Wire!IsBroker' <=> Wire!IsBroker) /\ (Wire!Is("redis")' <=> Wire!Is("redis"))
    BY <1>a DEF Wire!IsBroker, Wire!Is
<1>c. Wire!IsBroker => ~Wire!Is("redis") /\ ~Wire!Is("mongo") /\ ~Wire!Is("postgres") /\
        ~Wire!Is("mysql")
    BY DEF Wire!IsBroker, Wire!Is, Wire!Brokers
<1> USE <1>0, <1>a, <1>b DEF Wire!reqVars, Wire!srvVars, Wire!backVars, Wire!peerVars, Wire!endVars,
      RelayInv
<1>1. CASE Wire!Leave
  <2>1. client' = "gone" /\ offered' \in (IF up # "done" THEN Wire!Taken..Len(Wire!Reqs)
          ELSE {Wire!Taken}) /\ UNCHANGED <<fwd, seen, server, Wire!endVars>>
      BY <1>1 DEF Wire!Leave
  <2>2. Wire!IsBroker => Wire!Taken = fwd
      BY DEF Wire!Taken
  <2>3. Wire!Taken \in Nat
      BY DEF Wire!Taken
  <2>4. offered' \in Nat
      BY <2>1, <2>3
  <2> QED BY <2>1, <2>2, <2>4
<1>2. CASE Wire!Serve
    BY <1>2 DEF Wire!Serve
<1>3. CASE Wire!Push
    BY <1>3 DEF Wire!Push
<1>4. CASE Wire!Crash
    BY <1>4 DEF Wire!Crash
<1>5. CASE Wire!ServerLeaves
    BY <1>5 DEF Wire!ServerLeaves
<1>6. CASE Wire!ReadAndBlock \/ Wire!ReadAndForward
    BY <1>c, <1>6 DEF Wire!ReadAndBlock, Wire!ReadAndForward
<1>7. CASE Wire!ForwardRequest
    BY <1>7 DEF Wire!ForwardRequest
<1>8. CASE Wire!InspectRequest
    BY <1>8 DEF Wire!InspectRequest
<1>9. CASE \E dir \in {"up", "down"} : Wire!CompleteMessage(dir)
    BY <1>9 DEF Wire!CompleteMessage
<1>10. CASE Wire!UpEnds
    BY <1>10 DEF Wire!UpEnds
<1>11. CASE Wire!TakePending
    BY <1>11 DEF Wire!TakePending
<1>12. CASE Wire!RelayBack
    BY <1>12 DEF Wire!RelayBack
<1>13. CASE Wire!RelayFails
    BY <1>13 DEF Wire!RelayFails
<1>14. CASE Wire!InspectResponse
    BY <1>14 DEF Wire!InspectResponse
<1>15. CASE Wire!DownEnds
    BY <1>15 DEF Wire!DownEnds
<1>16. CASE Wire!CloseBoth
    BY <1>c, <1>16 DEF Wire!CloseBoth, Wire!MayCloseBoth
<1>17. CASE Wire!CloseClient
    BY <1>c, <1>17 DEF Wire!CloseClient
<1>18. CASE Wire!DeadlinePasses
    BY <1>18 DEF Wire!DeadlinePasses, Wire!ReadDeadline
<1>19. CASE UNCHANGED Wire!vars
    BY <1>19 DEF Wire!vars
<1> QED BY <1>1, <1>2, <1>3, <1>4, <1>5, <1>6, <1>7, <1>8, <1>9, <1>10, <1>11, <1>12, <1>13,
       <1>14, <1>15, <1>16, <1>17, <1>18, <1>19 DEF Wire!Next, Wire!ClientToUpstream,
              Wire!UpstreamToClient, Wire!Relay

\* Nothing that was published before the client went is left out.
LEMMA RelayInvImplies ==
  ASSUME RelayInv
  PROVE  Wire!PublishesSurvive
BY DEF RelayInv, Wire!PublishesSurvive

-----------------------------------------------------------------------------
(* Induction over numbers, by least elements.                              *)

\* A set of numbers has a least element.
LEMMA Least == ASSUME NEW Them, Them \subseteq Nat, Them # {}
  PROVE \E m \in Them : \A k \in Them : m <= k
<1>1. PICK R : R = OpToRel(<, Nat)
  OBVIOUS
<1>2. IsWellFoundedOn(R, Nat)
  BY <1>1, NatLessThanWellFounded
<1>3. PICK m \in Them : \A k \in Them : <<k, m>> \notin R
  BY <1>2, WFMin
<1>4. \A k, j \in Nat : k < j => <<k, j>> \in R
  BY <1>1 DEF OpToRel
<1>5. \A k \in Them : ~(k < m)
  BY <1>3, <1>4
<1> QED BY <1>5

\* What holds of 0 and of each next one holds up to n.
LEMMA UpTo ==
  ASSUME NEW n \in Nat, NEW G, 0 \in G, \A k \in 1..n : k - 1 \in G => k \in G
  PROVE  0..n \subseteq G
<1>1. SUFFICES ASSUME (0..n) \ G # {}
               PROVE  FALSE
  OBVIOUS
<1> DEFINE Them == (0..n) \ G
<1>a. Them \subseteq Nat
  OBVIOUS
<1> HIDE DEF Them
<1>b. PICK m \in Them : \A k \in Them : m <= k
  BY <1>1, <1>a, Least DEF Them
<1>2. m \in (0..n) \ G /\ \A k \in (0..n) \ G : m <= k
  BY <1>b DEF Them
<1>3. m \in 1..n /\ m - 1 \in 0..n /\ ~(m <= m - 1)
  BY <1>2
<1> QED BY <1>2, <1>3

\* f begins with c and goes on by D.
Iterates(f, n, Them, c, D) ==
  f \in [0..n -> Them] /\ f[0] = c /\ \A k \in 1..n : f[k] = D[k][f[k - 1]]

\* A function whose values are made one from the other exists.
LEMMA Iteration ==
  ASSUME NEW n \in Nat, NEW Them, NEW c \in Them, NEW D \in [1..n -> [Them -> Them]]
  PROVE  \E f : Iterates(f, n, Them, c, D)
<1> DEFINE Good(m, f) == f \in [0..m -> Them] /\ f[0] = c /\ \A k \in 1..m : f[k] = D[k][f[k - 1]]
           G == {m \in 0..n : \E f : Good(m, f)}
<1>1. 0 \in G
  <2>1. PICK f : f = [i \in 0..0 |-> c]
    OBVIOUS
  <2>2. f \in [0..0 -> Them] /\ f[0] = c /\ \A k \in 1..0 : FALSE
    BY <2>1
  <2>3. Good(0, f)
    BY <2>2
  <2>4. 0 \in 0..n
    OBVIOUS
  <2> QED BY <2>3, <2>4
<1>2. ASSUME NEW m \in 1..n, m - 1 \in G
      PROVE  m \in G
  <2>1. PICK f : Good(m - 1, f)
    BY <1>2
  <2>2. PICK g : g = [i \in 0..m |-> IF i = m THEN D[m][f[m - 1]] ELSE f[i]]
    OBVIOUS
  <2>3. f[m - 1] \in Them /\ D[m] \in [Them -> Them] /\ D[m][f[m - 1]] \in Them
    BY <2>1
  <2>4. g \in [0..m -> Them] /\ g[0] = c
    BY <2>1, <2>2, <2>3
  <2>5. ASSUME NEW k \in 1..m
        PROVE  g[k] = D[k][g[k - 1]]
    <3>1. CASE k = m
      BY <2>1, <2>2, <3>1
    <3>2. CASE k # m
      <4>1. k \in 1..(m - 1) /\ k \in 0..m /\ k - 1 \in 0..m /\ k - 1 # m
        BY <3>2
      <4> QED BY <2>1, <2>2, <3>2, <4>1
    <3> QED BY <3>1, <3>2
  <2>6. Good(m, g)
    BY <2>4, <2>5
  <2> QED BY <2>6
<1> HIDE DEF G
<1>3. \A k \in 1..n : k - 1 \in G => k \in G
  BY <1>2
<1>4. 0..n \subseteq G
  BY <1>1, <1>3, UpTo
<1>5. n \in G
  BY <1>4
<1> QED BY <1>5 DEF G, Iterates

-----------------------------------------------------------------------------
(* A session of PostgreSQL or MySQL, for any dialogues.                    *)

\* The number of answers that message k calls for.
Asks(k) == IF Session!Msgs[k] \in Session!Answerable THEN 1 ELSE 0

\* Wanted, which sums over the messages, is any function that does,
LEMMA WantedIs ==
  ASSUME NEW n \in Nat, NEW m \in Nat, n <= m, NEW f \in [0..m -> Nat], f[0] = 0,
         \A k \in 1..m : f[k] = f[k - 1] + Asks(k)
  PROVE  Session!Wanted(n) = f[n]
<1> DEFINE Is(g) == g = [k \in 0..n |->
              IF k = 0 THEN 0 ELSE g[k - 1] + (IF Session!Msgs[k] \in Session!Answerable THEN 1 ELSE 0)]
           Sums == CHOOSE g : Is(g)
<1>1. Session!Wanted(n) = Sums[n]
    BY DEF Session!Wanted
<1>2. Is([k \in 0..n |-> f[k]])
  <2>1. PICK g : g = [k \in 0..n |-> f[k]]
      OBVIOUS
  <2>2. ASSUME NEW k \in 0..n
        PROVE  g[k] = IF k = 0 THEN 0 ELSE g[k - 1] + (IF Session!Msgs[k] \in Session!Answerable
                 THEN 1 ELSE 0)
    <3>1. CASE k = 0
        BY <2>1, <3>1
    <3>2. CASE k # 0
      <4>1. k \in 1..m /\ k - 1 \in 0..n
          BY <3>2
      <4> QED BY <2>1, <3>2, <4>1 DEF Asks
    <3> QED BY <3>1, <3>2
  <2> QED BY <2>1, <2>2
<1>3. Is(Sums)
    BY <1>2
<1> HIDE DEF Sums
<1>4. Sums[0] = 0 /\ \A k \in 1..n : Sums[k] = Sums[k - 1] + Asks(k)
    BY <1>3 DEF Asks
<1> DEFINE G == {k \in 0..n : Sums[k] = f[k]}
<1>5. 0 \in G
    BY <1>4
<1>6. ASSUME NEW k \in 1..n, k - 1 \in G
      PROVE  k \in G
    BY <1>4, <1>6
<1> HIDE DEF G
<1>7. \A k \in 1..n : k - 1 \in G => k \in G
    BY <1>6
<1>8. 0..n \subseteq G
    BY <1>5, <1>7, UpTo
<1> QED BY <1>1, <1>8 DEF G

\* Every message asks for its answer and no other.
LEMMA WantedGoes ==
  ASSUME NEW n \in Nat
  PROVE  /\ Session!Wanted(0) = 0 /\ Session!Wanted(n) \in Nat
         /\ Session!Wanted(n + 1) =
            Session!Wanted(n) + (IF Session!Msgs[n + 1] \in Session!Answerable THEN 1 ELSE 0)
<1>1. PICK m \in Nat : m = n + 1
    OBVIOUS
<1>2. PICK D : D = [k \in 1..m |-> [s \in Nat |-> s + Asks(k)]]
    OBVIOUS
<1>3. \A k \in 1..m : Asks(k) \in Nat
    BY DEF Asks
<1>4. D \in [1..m -> [Nat -> Nat]]
    BY <1>2, <1>3
<1>5. PICK f : Iterates(f, m, Nat, 0, D)
    BY <1>4, Iteration
<1>6. f \in [0..m -> Nat] /\ f[0] = 0 /\ \A k \in 1..m : f[k] = D[k][f[k - 1]]
    BY <1>5 DEF Iterates
<1>7. ASSUME NEW k \in 1..m
      PROVE  f[k] = f[k - 1] + Asks(k)
  <2>1. f[k - 1] \in Nat
      BY <1>6
  <2> QED BY <1>2, <1>6, <2>1
<1>8. Session!Wanted(0) = f[0] /\ Session!Wanted(n) = f[n] /\ Session!Wanted(m) = f[m]
    BY <1>1, <1>6, <1>7, WantedIs
<1>9. f[n] \in Nat /\ f[m] = f[n] + Asks(m)
    BY <1>1, <1>6, <1>7
<1> QED BY <1>1, <1>6, <1>8, <1>9 DEF Asks

\* The proxy has relayed an answer to every message that asked for one, but for
\* the one of which it reads the answer.
SetupInv ==
    /\ talk \in Dialogues /\ hello \in Seq({"ssl", "cancel", "startup"})
    /\ said \in Nat /\ carried \in Nat /\ answered \in Nat /\ returned \in Nat
    /\ carried <= said /\ said <= Len(Session!Msgs)
    /\ returned <= answered /\ answered <= Session!Wanted(carried)
    /\ proxy \in {"first", "server", "client", "relay", "failed"}
    /\ proxy = "first" => carried = 0
    /\ proxy \in {"server", "relay"} => returned = Session!Wanted(carried)
    /\ proxy = "client" => returned + 1 = Session!Wanted(carried)
    /\ proxy = "relay" => carried = Len(Session!Msgs)

\* A session begins so;
LEMMA SetupInit ==
  ASSUME Session!DialoguesTyped, Session!Init
  PROVE  SetupInv
<1>1. Session!Wanted(0) = 0
    BY WantedGoes
<1>2. Len(Session!Msgs) \in Nat
    BY DEF Session!Init, Session!DialoguesTyped, Session!Msgs
<1>3. hello \in Seq({"ssl", "cancel", "startup"})
    BY DEF Session!Init, Session!DialoguesTyped
<1> QED BY <1>1, <1>2, <1>3 DEF Session!Init, SetupInv

\* the proxy, when it reads a message of the server, knows whether the client answers;
LEMMA ReadServerLemma ==
  ASSUME Session!DialoguesTyped, SetupInv, Session!ReadServer
  PROVE  SetupInv'
<1>1. PICK m : m = Session!Msgs[carried + 1]
    OBVIOUS
<1>2. /\ talk \in Dialogues /\ Len(Session!Msgs) \in Nat /\ carried \in Nat /\
         carried + 1 \in DOMAIN Session!Msgs
      /\ carried + 1 <= said
    BY DEF SetupInv, Session!ReadServer, Session!DialoguesTyped, Session!Msgs
<1>3. /\ talk.proto \in {"postgres", "mysql"} /\ m \in Session!Messages(talk.proto)
      /\ m \in {"ready", "ok"} => carried + 1 = Len(Session!Msgs)
    BY <1>1, <1>2 DEF Session!DialoguesTyped, Session!Msgs
<1>4. Session!After(m) = IF m \in {"ready", "ok"} THEN "relay" ELSE IF m = "error" THEN "failed"
                 ELSE IF m \in Session!Answerable THEN "client" ELSE "server"
    BY <1>3 DEF Session!After, Session!ExpectsAnswer, Session!Messages, Session!Answerable
<1>5. m \in {"ready", "ok"} => m \notin Session!Answerable
    BY DEF Session!Answerable
<1>6. /\ Session!Wanted(carried) \in Nat
      /\ Session!Wanted(carried + 1) =
         Session!Wanted(carried) + (IF m \in Session!Answerable THEN 1 ELSE 0)
    BY <1>1, <1>2, WantedGoes
<1>7. /\ proxy = "server" /\ carried' = carried + 1 /\ proxy' \in {"failed", Session!After(m)}
      /\ UNCHANGED <<talk, hello, said, answered, returned>>
    BY <1>1 DEF Session!ReadServer
<1>8. Session!Msgs' = Session!Msgs /\ Session!Wanted(carried)' = Session!Wanted(carried + 1)
    BY <1>7 DEF Session!Wanted, Session!Msgs
<1> QED BY <1>2, <1>3, <1>4, <1>5, <1>6, <1>7, <1>8 DEF SetupInv

\* and every step keeps to it.
LEMMA SetupStep ==
  ASSUME Session!DialoguesTyped, SetupInv, [Session!Next]_Session!vars
  PROVE  SetupInv'
<1>0. Len(Session!Msgs) \in Nat /\ carried \in Nat
    BY DEF SetupInv, Session!DialoguesTyped, Session!Msgs
<1>1. Len(Session!Msgs) \in Nat /\ Session!Wanted(carried) \in Nat /\ Session!Wanted(0) = 0
    BY <1>0, WantedGoes
<1>2. CASE talk' = talk /\ carried' = carried
  <2>1. Session!Msgs' = Session!Msgs /\ Session!Wanted(carried)' = Session!Wanted(carried)
      BY <1>2 DEF Session!Wanted, Session!Msgs
  <2>2. CASE Session!Tell
      BY <1>1, <1>2, <2>1, <2>2 DEF Session!Tell, SetupInv
  <2>3. CASE Session!Reply
      BY <1>1, <1>2, <2>1, <2>3 DEF Session!Reply, SetupInv
  <2>4. CASE \E who \in {"client", "server"} : Session!Go(who)
      BY <1>1, <1>2, <2>1, <2>4 DEF Session!Go, SetupInv
  <2>5. CASE Session!ReadFirst
    <3>1. hello # <<>> /\ hello \in Seq({"ssl", "cancel", "startup"})
        BY <2>5 DEF Session!ReadFirst, SetupInv
    <3>2. Head(hello) \in {"ssl", "cancel", "startup"} /\
            Tail(hello) \in Seq({"ssl", "cancel", "startup"})
        BY <3>1
    <3>3. /\ proxy = "first" /\ hello' = Tail(hello)
          /\ UNCHANGED <<said, answered, returned>>
        BY <2>5 DEF Session!ReadFirst
    <3>4. proxy' \in {"first", "server", "failed"}
      <4>1. PICK h : h = Head(hello)
          OBVIOUS
      <4>2. CASE h = "ssl"
          BY <2>5, <4>1, <4>2 DEF Session!ReadFirst
      <4>3. CASE h = "cancel"
          BY <2>5, <4>1, <4>3 DEF Session!ReadFirst
      <4>4. CASE h = "startup"
          BY <2>5, <4>1, <4>4 DEF Session!ReadFirst
      <4> QED BY <3>2, <4>1, <4>2, <4>3, <4>4
    <3>5. hello' \in Seq({"ssl", "cancel", "startup"})
        BY <3>2, <3>3
    <3> QED BY <1>1, <1>2, <2>1, <3>3, <3>4, <3>5 DEF SetupInv
  <2>6. CASE Session!ReadClient
      BY <1>1, <1>2, <2>1, <2>6 DEF Session!ReadClient, SetupInv
  <2>7. CASE Session!ReadError
      BY <1>1, <1>2, <2>1, <2>7 DEF Session!ReadError, SetupInv
  <2>8. CASE UNCHANGED Session!vars
      BY <1>1, <1>2, <2>1, <2>8 DEF Session!vars, SetupInv
  <2>9. CASE Session!ReadServer
      BY <2>9, ReadServerLemma
  <2> QED BY <2>2, <2>3, <2>4, <2>5, <2>6, <2>7, <2>8, <2>9 DEF Session!Next, Session!Proxy
<1>3. CASE Session!ReadServer
    BY <1>3, ReadServerLemma
<1>4. (talk' = talk /\ carried' = carried) \/ Session!ReadServer
    BY DEF Session!Next, Session!Proxy, Session!Tell, Session!Reply, Session!Go,
       Session!ReadFirst, Session!ReadClient, Session!ReadError, Session!vars
<1> QED BY <1>2, <1>3, <1>4

\* So the proxy reads from the side whose turn it is.
LEMMA SetupInvImplies ==
  ASSUME SetupInv
  PROVE  Session!RelayInStep
BY DEF SetupInv, Session!RelayInStep

-----------------------------------------------------------------------------
(* The pairing of answers with what they answer.                           *)

\* What the pairing of answers rests on: the rest of a connection only ends it.
pairing == <<conn, fwd, seen, served, pushed, srv, answers, relayed, read, px, odd>>

Packet ==
    [kind : {"reply", "error", "push", "response", "batch", "more"}, req : Nat, text : Nat,
     final : BOOLEAN, n : Nat \X Nat]

Pushes == {conn.pushes[i] : i \in DOMAIN conn.pushes}

\* What is common to the three.
PairTyped ==
    /\ conn \in Scripts
    /\ fwd \in Nat /\ seen \in Nat /\ served \in Nat /\ pushed \in Nat
    /\ relayed \in Nat /\ read \in Nat
    /\ answers \in Seq(Packet \cup Pushes) /\ relayed <= Len(answers) /\ read <= relayed
    /\ served <= fwd

LogType == [text : Nat, by : Nat, answer : Nat,
            rows : SUBSET [text : Nat, ok : BOOLEAN]]

PxType == [queue : Seq(Nat), cur : Nat, log : Seq(LogType)]

\* Redis: the oldest command that is not answered yet.
Oldest == seen - Len(px.queue) + (IF px.cur # 0 THEN 0 ELSE 1)
IsReply(k) == answers[k].kind # "push"

RedisTyped ==
    /\ PairTyped /\ fwd <= seen /\ read = relayed
    /\ px \in PxType

\* What waits for an answer are the commands that were read last, in their order.
InQueue ==
    /\ Len(px.queue) <= seen
    /\ \A j \in 1..Len(px.queue) : px.queue[j] = seen - Len(px.queue) + j
    /\ px.cur # 0 => px.cur = seen - Len(px.queue)

\* The server answers in this order, and of its answers those that are read
\* belong to the commands before the oldest.
RepliesInOrder ==
    /\ Oldest <= served + 1
    /\ \A k \in 1..Len(answers) : IsReply(k) =>
        /\ answers[k].req \in 1..served /\ answers[k].text = answers[k].req
        /\ answers[k].final <=> conn.reqs[answers[k].req].kind = "command"
        /\ k <= read <=> answers[k].req < Oldest
    /\ \A k \in 1..Len(answers) : ~IsReply(k) => ~answers[k].final
    /\ \A k, l \in 1..Len(answers) : IsReply(k) /\ IsReply(l) /\ k < l =>
            answers[k].req < answers[l].req
    /\ \A i \in 1..served : \E k \in 1..Len(answers) : IsReply(k) /\ answers[k].req = i

RedisLogs ==
    /\ \A j \in 1..Len(px.log) :
        px.log[j].text = px.log[j].answer /\ px.log[j].rows = {} /\ px.log[j].by < Oldest
    /\ \A i, j \in 1..Len(px.log) : i < j => px.log[i].by < px.log[j].by
    /\ \A k \in 1..read : answers[k].final =>
            \E j \in 1..Len(px.log) : px.log[j].by = answers[k].req

RedisInv ==
    Wire!Is("redis") => RedisTyped /\ InQueue /\ (~odd => RepliesInOrder /\ RedisLogs)

\* A log belongs to a request.
LEMMA LogFields ==
  ASSUME NEW s \in Seq(LogType)
  PROVE  \A j \in 1..Len(s) : s[j].by \in Nat
<1>1. \A e \in LogType : e.by \in Nat
    BY DEF LogType
<1>2. \A j \in 1..Len(s) : s[j] \in LogType
    OBVIOUS
<1> QED BY <1>1, <1>2

\* What a change of one or two fields of the Redis proxy leaves: its queue,
LEMMA PxQueued ==
  ASSUME px \in PxType, NEW q \in Seq(Nat), px' = [px EXCEPT !.queue = q]
  PROVE  px' \in PxType /\ px'.queue = q /\ px'.cur = px.cur /\ px'.log = px.log
BY DEF PxType

\* its queue and the command at hand,
LEMMA PxTaken ==
  ASSUME px \in PxType, NEW q \in Seq(Nat), NEW c \in Nat, px' = [px EXCEPT !.cur = c, !.queue = q]
  PROVE  px' \in PxType /\ px'.queue = q /\ px'.cur = c /\ px'.log = px.log
BY DEF PxType

\* the command at hand and the logs.
LEMMA PxLogged ==
  ASSUME px \in PxType, NEW s \in Seq(LogType), NEW c \in Nat, px' = [px EXCEPT !.cur = c, !.log = s]
  PROVE  px' \in PxType /\ px'.log = s /\ px'.cur = c /\ px'.queue = px.queue
BY DEF PxType

\* What a step does to the pairing.
LEMMA PairingSteps ==
  ASSUME [Wire!Next]_Wire!vars
  PROVE  \/ UNCHANGED pairing
         \/ Wire!Serve \/ Wire!Push
         \/ Wire!ReadAndForward \/ Wire!ForwardRequest \/ Wire!InspectRequest
         \/ Wire!CompleteMessage("up") \/ Wire!CompleteMessage("down")
         \/ Wire!TakePending \/ Wire!RelayBack \/ Wire!RelayFails \/ Wire!InspectResponse
BY DEF Wire!Next, Wire!ClientToUpstream, Wire!UpstreamToClient, Wire!Relay, Wire!Leave,
   Wire!Crash, Wire!ServerLeaves, Wire!ReadAndBlock, Wire!UpEnds, Wire!DownEnds, Wire!CloseBoth,
   Wire!CloseClient, Wire!DeadlinePasses, Wire!vars, Wire!reqVars, Wire!srvVars, Wire!backVars,
   Wire!peerVars, Wire!endVars, pairing

\* It holds before the first command,
LEMMA RedisInit ==
  ASSUME Wire!ScriptsTyped, Wire!Init
  PROVE  RedisInv
<1>1. ASSUME Wire!Is("redis") PROVE px = [queue |-> <<>>, cur |-> 0, log |-> <<>>]
    BY <1>1 DEF Wire!Init, Wire!Fresh, Wire!RedisFresh, Wire!Is
<1>2. conn \in Scripts /\ fwd = 0 /\ seen = 0 /\ served = 0 /\ pushed = 0 /\ relayed = 0 /\ read = 0
      /\ answers = <<>> /\ odd = FALSE
    BY DEF Wire!Init
<1>3. PairTyped
    BY <1>2 DEF PairTyped
<1>4. ASSUME Wire!Is("redis")
      PROVE  RedisInv
  <2>1. px = [queue |-> <<>>, cur |-> 0, log |-> <<>>]
      BY <1>1, <1>4
  <2>2. px.queue = <<>> /\ px.cur = 0 /\ px.log = <<>>
      BY <2>1
  <2>3. <<>> \in Seq(Nat) /\ <<>> \in Seq(LogType) /\ Len(<<>>) = 0
      OBVIOUS
  <2>4. RedisTyped
    <3>1. px \in PxType
        BY <2>1, <2>3 DEF PxType
    <3>2. fwd <= seen /\ read = relayed
        BY <1>2
    <3> QED BY <1>3, <3>1, <3>2 DEF RedisTyped
  <2>5. InQueue
      BY <1>2, <2>2, <2>3 DEF InQueue
  <2>6. RepliesInOrder
      BY <1>2, <2>2, <2>3 DEF RepliesInOrder, Oldest
  <2>7. RedisLogs
      BY <1>2, <2>2, <2>3 DEF RedisLogs
  <2> QED BY <2>4, <2>5, <2>6, <2>7 DEF RedisInv
<1> QED BY <1>4 DEF RedisInv

\* What Redis answers to a request.
LEMMA RedisServes ==
  ASSUME Wire!Is("redis"), PairTyped, Wire!Serve
  PROVE  \/ /\ \E k \in {"reply", "error"} :
                answers' = Append(answers, [kind |-> k, req |-> served + 1, text |-> served + 1,
                                            final |-> conn.reqs[served + 1].kind = "command",
                                            n |-> <<0, 0>>])
            /\ odd' = (odd \/ FALSE)
         \/ /\ answers' = Append(answers, [kind |-> "push", req |-> served + 1, text |-> served + 1,
                                            final |-> conn.reqs[served + 1].kind = "command",
                                            n |-> <<0, 0>>])
            /\ odd' = (odd \/ TRUE)
<1>1. PICK a \in Wire!RedisAnswers(served + 1) : answers' = answers \o a.packets /\ odd' = (odd \/ a.odd)
    BY DEF Wire!Serve, Wire!Answers, Wire!Is
<1> DEFINE P(k) == [kind |-> k, req |-> served + 1, text |-> served + 1,
                    final |-> conn.reqs[served + 1].kind = "command", n |-> <<0, 0>>]
<1>2. \/ \E k \in {"reply", "error"} : a.packets = <<P(k)>> /\ a.odd = FALSE
      \/ a.packets = <<P("push")>> /\ a.odd = TRUE
    BY <1>1 DEF Wire!RedisAnswers, Wire!Answer, Wire!Reqs
<1>3. answers \in Seq(Packet \cup Pushes)
    BY DEF PairTyped
<1>4. \A k \in {"reply", "error", "push"} : P(k) \in Packet
    BY DEF Packet, PairTyped
<1>5. \A k \in {"reply", "error", "push"} : answers \o <<P(k)>> = Append(answers, P(k))
    BY <1>3, <1>4
<1> QED BY <1>1, <1>2, <1>5

\* A list that grew by one.
LEMMA Appends ==
  ASSUME NEW Elem, NEW s \in Seq(Elem), NEW x \in Elem, NEW t, t = Append(s, x)
  PROVE  /\ t \in Seq(Elem) /\ Len(s) \in Nat /\ Len(t) = Len(s) + 1 /\ t[Len(s) + 1] = x
         /\ \A j \in 1..Len(s) : t[j] = s[j]
OBVIOUS

\* The types that the steps need.
LEMMA RedisFacts ==
  ASSUME RedisTyped, InQueue
  PROVE  /\ fwd \in Nat /\ seen \in Nat /\ served \in Nat /\ pushed \in Nat
         /\ relayed \in Nat /\ read \in Nat /\ read = relayed /\ fwd <= seen /\ served <= fwd
         /\ answers \in Seq(Packet \cup Pushes) /\ Len(answers) \in Nat /\ read <= Len(answers)
         /\ px.queue \in Seq(Nat) /\ Len(px.queue) \in Nat /\ px.cur \in Nat
         /\ px.log \in Seq(LogType) /\ Len(px.log) \in Nat /\ Oldest \in Nat
         /\ \A j \in 1..Len(px.log) : px.log[j].by \in Nat
<1>1. px.queue \in Seq(Nat) /\ px.cur \in Nat /\ px.log \in Seq(LogType)
    BY DEF RedisTyped, PxType
<1>2. fwd \in Nat /\ seen \in Nat /\ served \in Nat /\ pushed \in Nat
         /\ relayed \in Nat /\ read \in Nat /\ read = relayed /\ fwd <= seen /\ served <= fwd
         /\ answers \in Seq(Packet \cup Pushes) /\ read <= Len(answers)
    BY DEF RedisTyped, PairTyped
<1>3. Oldest \in Nat
    BY <1>1, <1>2 DEF Oldest, InQueue
<1> QED BY <1>1, <1>2, <1>3, LogFields

\* The answer that is read is that to the command that has waited longest.
LEMMA RedisPairs ==
  ASSUME RedisTyped, InQueue, RepliesInOrder, read < Len(answers), IsReply(read + 1), px.cur # 0
  PROVE  answers[read + 1].req = px.cur /\ px.cur = Oldest
<1>1. px.cur = Oldest /\ Oldest \in Nat /\ Oldest >= 1
  <2>1. px.cur = seen - Len(px.queue) /\ px.cur \in Nat /\ px.cur # 0
      BY RedisFacts DEF InQueue
  <2>2. Oldest = seen - Len(px.queue)
      BY RedisFacts DEF Oldest
  <2> QED BY <2>1, <2>2
<1>2. read + 1 \in 1..Len(answers) /\ read \in Nat /\ served \in Nat /\ Len(answers) \in Nat
    BY RedisFacts
<1>3. answers[read + 1].req \in 1..served /\ ~(answers[read + 1].req < Oldest)
    BY <1>2 DEF RepliesInOrder
<1>4. Oldest \in 1..served
    BY <1>1, <1>2, <1>3
<1>5. PICK k \in 1..Len(answers) : IsReply(k) /\ answers[k].req = Oldest
    BY <1>4 DEF RepliesInOrder
<1>6. ~(k <= read)
    BY <1>1, <1>5 DEF RepliesInOrder
<1>7. ~(read + 1 < k)
    BY <1>1, <1>2, <1>3, <1>5 DEF RepliesInOrder
<1>8. k = read + 1
    BY <1>2, <1>6, <1>7
<1> QED BY <1>1, <1>5, <1>8

\* The server adds to its answers.
LEMMA RedisGrows ==
  ASSUME RedisTyped, InQueue, NEW p \in Packet \cup Pushes, answers' = Append(answers, p),
         UNCHANGED <<conn, fwd, seen, relayed, read, px>>, served' \in {served, served + 1},
         served' <= fwd, pushed' \in Nat
  PROVE  /\ RedisTyped' /\ InQueue' /\ Oldest' = Oldest
         /\ Len(answers) \in Nat /\ Len(answers') = Len(answers) + 1
         /\ answers'[Len(answers) + 1] = p
         /\ \A j \in 1..Len(answers) : answers'[j] = answers[j]
<1>1. answers \in Seq(Packet \cup Pushes)
    BY RedisFacts
<1>2. /\ answers' \in Seq(Packet \cup Pushes) /\ Len(answers) \in Nat
      /\ Len(answers') = Len(answers) + 1 /\ answers'[Len(answers) + 1] = p
      /\ \A j \in 1..Len(answers) : answers'[j] = answers[j]
    BY <1>1, Appends
<1>3. Pushes' = Pushes
    BY DEF Pushes
<1>4. PairTyped'
    BY <1>2, <1>3, RedisFacts DEF PairTyped, RedisTyped
<1>5. RedisTyped'
    BY <1>4 DEF RedisTyped
<1>6. InQueue' /\ Oldest' = Oldest
    BY DEF InQueue, Oldest
<1> QED BY <1>2, <1>5, <1>6

\* No log is added, and no answer read.
LEMMA RedisLogsStay ==
  ASSUME RedisLogs, px' = px, Oldest' = Oldest, read' = read,
         \A k \in 1..read : answers'[k] = answers[k]
  PROVE  RedisLogs'
BY DEF RedisLogs

\* An answer comes in its turn.
LEMMA RedisAnswered ==
  ASSUME RedisTyped, InQueue, RepliesInOrder, RedisLogs, NEW p \in Packet \cup Pushes,
         answers' = Append(answers, p), UNCHANGED <<conn, fwd, seen, relayed, read, px>>,
         \/ /\ p.kind # "push" /\ p.req = served + 1 /\ p.text = served + 1
            /\ p.final <=> conn.reqs[served + 1].kind = "command"
            /\ served' = served + 1
         \/ p.kind = "push" /\ ~p.final /\ served' = served,
         served' <= fwd, pushed' \in Nat
  PROVE  RepliesInOrder' /\ RedisLogs'
<1>0. PICK n \in Nat : n = Len(answers)
    BY RedisFacts
<1>1. /\ Oldest' = Oldest /\ n \in Nat /\ Len(answers') = n + 1 /\ answers'[n + 1] = p
      /\ \A j \in 1..n : answers'[j] = answers[j]
    BY <1>0, RedisGrows
<1>2. served \in Nat /\ Oldest \in Nat /\ read \in Nat /\ read <= n
    BY <1>0, RedisFacts
<1>3. \A k \in 1..(n + 1) : k = n + 1 \/ k \in 1..n
    BY <1>1
<1>4. \A k \in 1..n : IsReply(k)' <=> IsReply(k)
    BY <1>0, <1>1 DEF IsReply
<1>5. IsReply(n + 1)' <=> p.kind # "push"
    BY <1>0, <1>1 DEF IsReply
<1>6. Oldest <= served' + 1
    BY <1>2 DEF RepliesInOrder
<1>7. ASSUME NEW k \in 1..(n + 1), IsReply(k)'
      PROVE  /\ answers'[k].req \in 1..served' /\ answers'[k].text = answers'[k].req
             /\ answers'[k].final <=> conn.reqs[answers'[k].req].kind = "command"
             /\ k <= read <=> answers'[k].req < Oldest
  <2>1. CASE k = n + 1
      BY <1>0, <1>1, <1>2, <1>5, <1>7, <2>1 DEF RepliesInOrder
  <2>2. CASE k \in 1..n
      BY <1>0, <1>1, <1>2, <1>4, <1>7, <2>2 DEF RepliesInOrder
  <2> QED BY <1>3, <2>1, <2>2
<1>8. \A k \in 1..(n + 1) : ~IsReply(k)' => ~answers'[k].final
    BY <1>0, <1>1, <1>3, <1>4, <1>5 DEF RepliesInOrder
<1>9. ASSUME NEW k \in 1..(n + 1), NEW l \in 1..(n + 1), IsReply(k)', IsReply(l)', k < l
      PROVE  answers'[k].req < answers'[l].req
  <2>1. k \in 1..n /\ IsReply(k)
      BY <1>0, <1>1, <1>3, <1>4, <1>9
  <2>2. CASE l = n + 1
      BY <1>0, <1>1, <1>2, <1>5, <1>9, <2>1, <2>2 DEF RepliesInOrder
  <2>3. CASE l \in 1..n
      BY <1>0, <1>1, <1>4, <1>9, <2>1, <2>3 DEF RepliesInOrder
  <2> QED BY <1>3, <2>2, <2>3
<1>10. ASSUME NEW i \in 1..served'
       PROVE  \E k \in 1..(n + 1) : IsReply(k)' /\ answers'[k].req = i
  <2>1. CASE i \in 1..served
    <3>1. PICK k \in 1..n : IsReply(k) /\ answers[k].req = i
        BY <1>0, <2>1 DEF RepliesInOrder
    <3>2. k \in 1..(n + 1)
        BY <1>1
    <3> QED BY <1>0, <1>1, <1>4, <3>1, <3>2
  <2>2. CASE i = served + 1
      BY <1>0, <1>1, <1>2, <1>5, <2>2
  <2>3. i \in 1..served \/ i = served + 1
    <3>1. served' = served \/ served' = served + 1
        OBVIOUS
    <3> QED BY <1>2, <3>1
  <2> QED BY <2>1, <2>2, <2>3
<1>11. RepliesInOrder'
    BY <1>0, <1>1, <1>6, <1>7, <1>8, <1>9, <1>10 DEF RepliesInOrder
<1>12. \A k \in 1..read : answers'[k] = answers[k]
    BY <1>0, <1>1, <1>2
<1>13. RedisLogs'
    BY <1>1, <1>12, RedisLogsStay
<1> QED BY <1>11, <1>13

\* A command is read and queued, or the next one is taken from the queue.
LEMMA RedisQueues ==
  ASSUME RedisTyped, InQueue, UNCHANGED <<conn, served, pushed, answers, relayed, read>>,
         \/ /\ seen' = seen + 1 /\ fwd' \in {fwd, fwd + 1}
            /\ px' = [px EXCEPT !.queue = Append(px.queue, seen + 1)]
         \/ /\ seen' = seen /\ fwd' = fwd /\ px.cur = 0 /\ px.queue # <<>>
            /\ px' = [px EXCEPT !.cur = Head(px.queue), !.queue = Tail(px.queue)]
  PROVE  RedisTyped' /\ InQueue' /\ Oldest' = Oldest /\ px'.log = px.log
<1>0. px \in PxType
    BY DEF RedisTyped
<1>1. PICK m \in Nat : m = Len(px.queue)
    BY RedisFacts
<1>2. seen \in Nat /\ px.cur \in Nat /\ px.queue \in Seq(Nat) /\ m <= seen /\ fwd \in Nat
      /\ \A j \in 1..m : px.queue[j] = seen - m + j
    BY <1>1, RedisFacts DEF InQueue
<1>3. PairTyped' /\ fwd' <= seen'
  <2>1. Pushes' = Pushes
      BY DEF Pushes
  <2> QED BY <2>1, RedisFacts DEF PairTyped, RedisTyped
<1>4. CASE seen' = seen + 1 /\ px' = [px EXCEPT !.queue = Append(px.queue, seen + 1)]
  <2> DEFINE q == Append(px.queue, seen + 1)
  <2>1. q \in Seq(Nat) /\ Len(q) = m + 1 /\ q[m + 1] = seen + 1 /\ \A j \in 1..m : q[j] = px.queue[j]
      BY <1>1, <1>2
  <2>2. px' \in PxType /\ px'.queue = q /\ px'.cur = px.cur /\ px'.log = px.log
      BY <1>0, <1>4, <2>1, PxQueued
  <2> HIDE DEF q
  <2>3. \A j \in 1..(m + 1) : q[j] = seen + 1 - (m + 1) + j
    <3>1. TAKE j \in 1..(m + 1)
    <3>2. CASE j = m + 1
        BY <1>2, <2>1, <3>2
    <3>3. CASE j \in 1..m
        BY <1>2, <2>1, <3>3
    <3> QED BY <3>2, <3>3
  <2>4. Len(px'.queue) = m + 1 /\ seen' = seen + 1 /\ px'.cur = px.cur
        /\ (px.cur # 0 => px.cur = seen - m)
      BY <1>1, <1>4, <2>1, <2>2 DEF InQueue
  <2>5. InQueue'
      BY <1>2, <2>2, <2>3, <2>4 DEF InQueue
  <2>6. Oldest' = Oldest
      BY <1>1, <1>2, <2>4 DEF Oldest
  <2> QED BY <1>3, <2>2, <2>5, <2>6 DEF RedisTyped
<1>5. CASE /\ seen' = seen /\ px.cur = 0 /\ px.queue # <<>>
           /\ px' = [px EXCEPT !.cur = Head(px.queue), !.queue = Tail(px.queue)]
  <2> DEFINE q == Tail(px.queue)
  <2>1. m >= 1 /\ q \in Seq(Nat) /\ Len(q) = m - 1 /\ Head(px.queue) = px.queue[1]
        /\ \A j \in 1..(m - 1) : q[j] = px.queue[j + 1]
      BY <1>1, <1>2, <1>5
  <2>2. px.queue[1] = seen - m + 1 /\ px.queue[1] \in Nat /\ px.queue[1] # 0
    <3>1. 1 \in 1..m
        BY <2>1
    <3>2. px.queue[1] = seen - m + 1
        BY <1>2, <3>1
    <3> QED BY <1>2, <3>2
  <2>3. px' \in PxType /\ px'.queue = q /\ px'.cur = px.queue[1] /\ px'.log = px.log
      BY <1>0, <1>5, <2>1, <2>2, PxTaken
  <2> HIDE DEF q
  <2>4. \A j \in 1..(m - 1) : q[j] = seen - (m - 1) + j
    <3>1. TAKE j \in 1..(m - 1)
    <3>2. j + 1 \in 1..m
        BY <1>2, <2>1
    <3>3. q[j] = px.queue[j + 1] /\ px.queue[j + 1] = seen - m + (j + 1)
        BY <1>2, <2>1, <3>2
    <3> QED BY <1>2, <3>3
  <2>5. Len(px'.queue) = m - 1 /\ seen' = seen /\ px'.cur = seen - m + 1 /\ px'.cur # 0
      BY <1>5, <2>1, <2>2, <2>3
  <2>6. InQueue'
      BY <1>2, <2>1, <2>3, <2>4, <2>5 DEF InQueue
  <2>7. Oldest' = Oldest
      BY <1>1, <1>2, <1>5, <2>5 DEF Oldest
  <2> QED BY <1>3, <1>5, <2>3, <2>6, <2>7 DEF RedisTyped
<1> QED BY <1>4, <1>5

\* A packet of the server is relayed.
LEMMA RedisRelays ==
  ASSUME RedisTyped, InQueue, NEW p, p = answers[read + 1], read < Len(answers), px.cur # 0,
         Wire!ScriptsTyped, Wire!Is("redis"),
         read' = read + 1, relayed' = relayed + 1, px' = Wire!RedisPacket(px, p, conn.reqs),
         UNCHANGED <<conn, fwd, seen, served, pushed, answers>>
  PROVE  /\ RedisTyped' /\ InQueue'
         /\ RepliesInOrder /\ RedisLogs => RepliesInOrder' /\ RedisLogs'
<1>0. PICK n \in Nat : n = Len(answers)
    BY RedisFacts
<1>1. PICK r \in Nat : r = read
    BY RedisFacts
<1>2. r + 1 \in 1..n
    BY <1>0, <1>1
<1>3. PICK o \in Nat : o = Oldest
    BY RedisFacts
<1>4. PairTyped' /\ fwd' <= seen' /\ read' = relayed'
  <2>1. Pushes' = Pushes
      BY DEF Pushes
  <2> QED BY <2>1, RedisFacts DEF PairTyped, RedisTyped
<1>5. px \in PxType
    BY DEF RedisTyped
<1>6. CASE ~IsReply(read + 1)
  <2>1. px' = px
      BY <1>6 DEF Wire!RedisPacket, IsReply
  <2>2. RedisTyped' /\ InQueue' /\ Oldest' = Oldest
      BY <1>4, <1>5, <2>1 DEF RedisTyped, InQueue, Oldest
  <2>3. ASSUME RepliesInOrder, RedisLogs
        PROVE  RepliesInOrder' /\ RedisLogs'
    <3>1. ~answers[r + 1].final
        BY <1>0, <1>1, <1>2, <1>6, <2>3 DEF RepliesInOrder
    <3>2. \A k \in 1..n : IsReply(k) => (k <= r + 1 <=> k <= r)
        BY <1>1, <1>6
    <3>3. RepliesInOrder'
        BY <1>0, <1>1, <2>2, <2>3, <3>2 DEF RepliesInOrder, IsReply
    <3>4. \A k \in 1..(r + 1) : k = r + 1 \/ k \in 1..r
        BY <1>1
    <3>5. RedisLogs'
        BY <1>1, <2>1, <2>2, <2>3, <3>1, <3>4 DEF RedisLogs
    <3> QED BY <3>3, <3>5
  <2> QED BY <2>2, <2>3
<1>7. CASE IsReply(read + 1)
  <2> DEFINE e == [text |-> px.cur, by |-> p.req, answer |-> p.text, rows |-> {}]
             logged == conn.reqs[px.cur].kind # "internal"
             log == IF logged THEN Append(px.log, e) ELSE px.log
  <2>1. px' = [px EXCEPT !.cur = 0, !.log = log]
      BY <1>7 DEF Wire!RedisPacket, IsReply, Wire!RedisLogged, Wire!Entry
  <2>2. p \in Packet
    <3>1. p \in Packet \cup Pushes
        BY <1>0, <1>1, <1>2, RedisFacts
    <3>2. \A x \in Pushes : x.kind = "push"
      <4>1. conn \in Scripts /\ conn.proto = "redis"
          BY DEF RedisTyped, PairTyped, Wire!Is
      <4>2. \A i \in DOMAIN conn.pushes : conn.pushes[i].kind = "push"
          BY <4>1 DEF Wire!ScriptsTyped
      <4> QED BY <4>2 DEF Pushes
    <3> QED BY <1>7, <3>1, <3>2 DEF IsReply
  <2>3. e \in LogType
    <3>1. p.req \in Nat /\ p.text \in Nat /\ px.cur \in Nat
        BY <2>2, RedisFacts DEF Packet
    <3> QED BY <3>1 DEF LogType
  <2>4. e.text = px.cur /\ e.by = p.req /\ e.answer = p.text /\ e.rows = {}
      OBVIOUS
  <2> HIDE DEF e, logged
  <2>5. px.log \in Seq(LogType) /\ log \in Seq(LogType)
      BY <2>3, RedisFacts
  <2> HIDE DEF log
  <2>6. px' \in PxType /\ px'.log = log /\ px'.cur = 0 /\ px'.queue = px.queue
      BY <1>5, <2>1, <2>5, PxLogged
  <2>7. px.cur = Oldest /\ Oldest' = Oldest + 1 /\ InQueue'
      BY <2>6, RedisFacts DEF InQueue, Oldest
  <2>8. RedisTyped'
      BY <1>4, <2>6 DEF RedisTyped
  <2>9. ASSUME RepliesInOrder, RedisLogs
        PROVE  RepliesInOrder' /\ RedisLogs'
    <3>1. p.req = o /\ p.text = o /\ o \in 1..served
          /\ (p.final => conn.reqs[o].kind = "command")
        BY <1>0, <1>1, <1>2, <1>3, <1>7, <2>9, RedisPairs DEF RepliesInOrder
    <3>2. ASSUME NEW k \in 1..n, IsReply(k)
          PROVE  k <= r + 1 <=> answers[k].req < o + 1
      <4>1. answers[k].req \in Nat
          BY <1>0, <2>9, <3>2, RedisFacts DEF RepliesInOrder
      <4>2. CASE k = r + 1
          BY <1>1, <3>1, <4>2
      <4>3. CASE k < r + 1
          BY <1>0, <1>1, <1>3, <2>9, <3>2, <4>1, <4>3 DEF RepliesInOrder
      <4>4. CASE k > r + 1
        <5>1. o < answers[k].req
            BY <1>0, <1>1, <1>2, <1>7, <2>9, <3>1, <3>2, <4>4 DEF RepliesInOrder
        <5> QED BY <4>1, <4>4, <5>1
      <4> QED BY <4>2, <4>3, <4>4
    <3>3. o + 1 <= served + 1 /\ served \in Nat
        BY <3>1, RedisFacts
    <3>4. RepliesInOrder'
        BY <1>0, <1>1, <1>3, <2>7, <2>9, <3>2, <3>3 DEF RepliesInOrder, IsReply
    <3>5. \A k \in 1..(r + 1) : k = r + 1 \/ k \in 1..r
        BY <1>1
    <3>6. PICK m \in Nat : m = Len(px.log)
        BY RedisFacts
    <3>7. \A j \in 1..m : px.log[j].by \in Nat /\ px.log[j].by < o
        BY <1>3, <2>9, <3>6, RedisFacts DEF RedisLogs
    <3>8. CASE logged
      <4>1. Len(log) = m + 1 /\ log[m + 1] = e /\ \A j \in 1..m : log[j] = px.log[j]
          BY <2>3, <2>5, <3>6, <3>8, Appends DEF log
      <4>2. \A j \in 1..(m + 1) : j = m + 1 \/ j \in 1..m
          OBVIOUS
      <4>3. ASSUME NEW j \in 1..(m + 1)
            PROVE  log[j].text = log[j].answer /\ log[j].rows = {} /\ log[j].by < o + 1
        <5>1. CASE j = m + 1
            BY <1>3, <2>4, <2>7, <3>1, <4>1, <5>1
        <5>2. CASE j \in 1..m
          <6>1. log[j] = px.log[j] /\ px.log[j].by < o /\ px.log[j].by \in Nat
              BY <3>7, <4>1, <5>2
          <6>2. px.log[j].text = px.log[j].answer /\ px.log[j].rows = {}
              BY <2>9, <3>6, <5>2 DEF RedisLogs
          <6> QED BY <6>1, <6>2
        <5> QED BY <4>2, <5>1, <5>2
      <4>4. ASSUME NEW i \in 1..(m + 1), NEW j \in 1..(m + 1), i < j
            PROVE  log[i].by < log[j].by
        <5>1. i \in 1..m
            BY <4>4
        <5>2. CASE j = m + 1
            BY <2>4, <3>1, <3>7, <4>1, <5>1, <5>2
        <5>3. CASE j \in 1..m
            BY <2>9, <3>6, <4>1, <4>4, <5>1, <5>3 DEF RedisLogs
        <5> QED BY <4>2, <5>2, <5>3
      <4>5. ASSUME NEW k \in 1..(r + 1), answers[k].final
            PROVE  \E j \in 1..(m + 1) : log[j].by = answers[k].req
        <5>1. CASE k = r + 1
            BY <1>1, <2>4, <4>1, <5>1
        <5>2. CASE k \in 1..r
          <6>1. PICK j \in 1..m : px.log[j].by = answers[k].req
              BY <1>1, <2>9, <3>6, <4>5, <5>2 DEF RedisLogs
          <6> QED BY <4>1, <6>1
        <5> QED BY <3>5, <5>1, <5>2
      <4>6. RedisLogs'
          BY <1>1, <1>3, <2>6, <2>7, <4>1, <4>3, <4>4, <4>5 DEF RedisLogs
      <4> QED BY <3>4, <4>6
    <3>9. CASE ~logged
      <4>1. ~answers[r + 1].final
          BY <1>1, <1>3, <2>7, <3>1, <3>9 DEF logged
      <4>2. log = px.log
          BY <3>9 DEF log
      <4>3. \A j \in 1..m : px.log[j].by < o + 1
          BY <3>7
      <4>4. \A k \in 1..(r + 1) : answers[k].final =>
                \E j \in 1..m : px.log[j].by = answers[k].req
          BY <1>1, <2>9, <3>5, <3>6, <4>1 DEF RedisLogs
      <4>5. px'.log = px.log /\ read' = r + 1 /\ Oldest' = o + 1
          BY <1>1, <1>3, <2>6, <2>7, <4>2
      <4>6. RedisLogs'
        <5>1. /\ \A j \in 1..m : px.log[j].text = px.log[j].answer /\ px.log[j].rows = {}
              /\ \A i, j \in 1..m : i < j => px.log[i].by < px.log[j].by
            BY <2>9, <3>6 DEF RedisLogs
        <5> QED BY SMTT(30), <3>6, <4>3, <4>4, <4>5, <5>1 DEF RedisLogs
      <4> QED BY <3>4, <4>6
    <3> QED BY <3>8, <3>9
  <2> QED BY <2>7, <2>8, <2>9
<1> QED BY <1>6, <1>7

\* The script does not change.
LEMMA SameScript == ASSUME [Wire!Next]_Wire!vars PROVE conn' = conn
BY PairingSteps DEF pairing, Wire!Serve, Wire!Push, Wire!ReadAndForward, Wire!ForwardRequest,
   Wire!InspectRequest, Wire!CompleteMessage, Wire!TakePending, Wire!RelayBack,
   Wire!RelayFails, Wire!InspectResponse

\* Whatever the two sides and the goroutines do.
LEMMA RedisStep ==
  ASSUME RedisInv, Wire!ScriptsTyped, [Wire!Next]_Wire!vars
  PROVE  RedisInv'
<1>a. conn' = conn
    BY SameScript
<1>0. SUFFICES ASSUME Wire!Is("redis")
               PROVE  (RedisTyped /\ InQueue)' /\ (~odd' => RepliesInOrder' /\ RedisLogs')
    BY <1>a DEF RedisInv, Wire!Is
<1>b. ~Wire!Is("amqp") /\ ~Wire!IsBroker
    BY <1>0 DEF Wire!Is, Wire!IsBroker, Wire!Brokers
<1>c. RedisTyped /\ InQueue
    BY <1>0 DEF RedisInv
<1>d. ~odd => RepliesInOrder /\ RedisLogs
    BY <1>0 DEF RedisInv
<1>e. /\ fwd \in Nat /\ seen \in Nat /\ served \in Nat /\ pushed \in Nat /\ served <= fwd
      /\ read = relayed
    BY <1>c, RedisFacts
<1>1. CASE UNCHANGED pairing \/ Wire!RelayFails
  <2>1. UNCHANGED pairing
      BY <1>0, <1>1, <1>b DEF Wire!RelayFails, pairing, Wire!reqVars, Wire!srvVars
  <2>2. UNCHANGED <<conn, fwd, seen, served, pushed, answers, relayed, read, px, odd>>
      BY <2>1 DEF pairing
  <2>3. (RedisTyped /\ InQueue)'
      BY <1>c, <2>2 DEF RedisTyped, PairTyped, Pushes, InQueue
  <2>4. ASSUME ~odd' PROVE RepliesInOrder' /\ RedisLogs'
      BY <1>d, <2>2, <2>4 DEF RepliesInOrder, RedisLogs, Oldest, IsReply
  <2> QED BY <2>3, <2>4
<1>2. CASE Wire!Serve
  <2>1. served' = served + 1 /\ served < fwd
        /\ UNCHANGED <<conn, fwd, seen, pushed, relayed, read, px>>
      BY <1>2 DEF Wire!Serve, Wire!reqVars, Wire!backVars
  <2>2. PICK k \in {"reply", "error", "push"} :
            /\ answers' = Append(answers, [kind |-> k, req |-> served + 1, text |-> served + 1,
                                           final |-> conn.reqs[served + 1].kind = "command",
                                           n |-> <<0, 0>>])
            /\ odd' = (odd \/ k = "push")
      BY <1>0, <1>2, <1>c, RedisServes DEF RedisTyped
  <2>3. PICK p \in Packet : answers' = Append(answers, p) /\ p.kind = k /\ p.req = served + 1
            /\ p.text = served + 1 /\ (p.final <=> conn.reqs[served + 1].kind = "command")
    <3> DEFINE x == [kind |-> k, req |-> served + 1, text |-> served + 1,
                     final |-> conn.reqs[served + 1].kind = "command", n |-> <<0, 0>>]
    <3>1. <<0, 0>> \in Nat \X Nat /\ served + 1 \in Nat
        BY <1>e
    <3>2. x \in Packet
        BY <3>1 DEF Packet
    <3> QED BY <2>2, <3>2
  <2>4. (RedisTyped /\ InQueue)'
      BY <1>c, <1>e, <2>1, <2>3, RedisGrows
  <2>5. ASSUME ~odd' PROVE RepliesInOrder' /\ RedisLogs'
    <3>1. ~odd /\ k # "push"
        BY <2>2, <2>5
    <3> QED BY <1>c, <1>d, <1>e, <2>1, <2>3, <3>1, RedisAnswered
  <2> QED BY <2>4, <2>5
<1>3. CASE Wire!Push
  <2>1. pushed' = pushed + 1 /\ pushed < Len(conn.pushes)
        /\ answers' = Append(answers, conn.pushes[pushed + 1])
        /\ UNCHANGED <<conn, fwd, seen, served, relayed, read, px, odd>>
      BY <1>3 DEF Wire!Push, Wire!reqVars, Wire!backVars
  <2>2. conn \in Scripts /\ conn.proto = "redis"
      BY <1>0, <1>c DEF RedisTyped, PairTyped, Wire!Is
  <2>3. pushed + 1 \in DOMAIN conn.pushes
      BY <1>e, <2>1, <2>2 DEF Wire!ScriptsTyped
  <2>4. PICK p \in Pushes : p = conn.pushes[pushed + 1] /\ p.kind = "push" /\ ~p.final
    <3>1. conn.pushes[pushed + 1].kind = "push" /\ ~conn.pushes[pushed + 1].final
        BY <2>2, <2>3 DEF Wire!ScriptsTyped
    <3> QED BY <2>3, <3>1 DEF Pushes
  <2>5. (RedisTyped /\ InQueue)'
      BY <1>c, <1>e, <2>1, <2>4, RedisGrows
  <2>6. ASSUME ~odd' PROVE RepliesInOrder' /\ RedisLogs'
    <3>1. ~odd
        BY <2>1, <2>6
    <3> QED BY <1>c, <1>d, <1>e, <2>1, <2>4, <3>1, RedisAnswered
  <2> QED BY <2>5, <2>6
<1>4. CASE Wire!ReadAndForward \/ Wire!TakePending
  <2>1. /\ UNCHANGED <<conn, served, pushed, answers, relayed, read, odd>>
        /\ \/ /\ seen' = seen + 1 /\ fwd' \in {fwd, fwd + 1}
              /\ px' = [px EXCEPT !.queue = Append(px.queue, seen + 1)]
           \/ /\ seen' = seen /\ fwd' = fwd /\ px.cur = 0 /\ px.queue # <<>>
              /\ px' = [px EXCEPT !.cur = Head(px.queue), !.queue = Tail(px.queue)]
      BY <1>0, <1>4, <1>b DEF Wire!ReadAndForward, Wire!TakePending, Wire!srvVars, Wire!reqVars,
         Wire!backVars, Wire!OnRequest, Wire!RedisRequest, Wire!RedisTake, Wire!Is
  <2>2. RedisTyped' /\ InQueue' /\ Oldest' = Oldest /\ px'.log = px.log
      BY <1>c, <2>1, RedisQueues
  <2>3. ASSUME ~odd' PROVE RepliesInOrder' /\ RedisLogs'
      BY <1>d, <2>1, <2>2, <2>3 DEF RepliesInOrder, RedisLogs, IsReply
  <2> QED BY <2>2, <2>3
<1>5. CASE Wire!RelayBack
  <2>1. read' = read + 1 /\ relayed' = relayed + 1 /\ read < Len(answers) /\ px.cur # 0
        /\ px' = Wire!RedisPacket(px, answers[read + 1], conn.reqs)
        /\ UNCHANGED <<conn, fwd, seen, served, pushed, answers, odd>>
      BY <1>0, <1>5, <1>b, <1>e DEF Wire!RelayBack, Wire!AnswerReadable, Wire!srvVars, Wire!reqVars,
         Wire!OnPacket, Wire!Is, Wire!Reqs
  <2>2. PICK p : p = answers[read + 1]
      OBVIOUS
  <2>3. /\ RedisTyped' /\ InQueue'
        /\ RepliesInOrder /\ RedisLogs => RepliesInOrder' /\ RedisLogs'
      BY <1>0, <1>c, <2>1, <2>2, RedisRelays
  <2> QED BY <1>d, <2>1, <2>3
<1>6. CASE \/ Wire!ForwardRequest \/ Wire!InspectRequest \/ Wire!InspectResponse
           \/ Wire!CompleteMessage("up") \/ Wire!CompleteMessage("down")
    BY <1>6, <1>b DEF Wire!ForwardRequest, Wire!InspectRequest, Wire!InspectResponse,
       Wire!CompleteMessage, Wire!Due
<1> QED BY <1>1, <1>2, <1>3, <1>4, <1>5, <1>6, PairingSteps

\* A log that is the only one of its request.
LEMMA OneLog ==
  ASSUME NEW x, NEW j \in DOMAIN px.log, px.log[j].by = x,
         \A i \in DOMAIN px.log : px.log[i].by = x => i = j
  PROVE  Wire!Cardinality(Wire!Logs(x)) = 1
<1>1. Wire!Logs(x) = {j}
    BY DEF Wire!Logs
<1>2. Cardinality({j}) = 1
    BY FS_Singleton
<1>3. \A set : Wire!Cardinality(set) = Cardinality(set)
    BY DEF Wire!Cardinality, Cardinality, Wire!IsFiniteSet, IsFiniteSet
<1> QED BY <1>1, <1>2, <1>3

\* The logs tell the answers of their commands.
LEMMA RedisInvImplies ==
  ASSUME RedisInv, Wire!Is("redis")
  PROVE  Wire!Paired /\ Wire!Captured
<1>1. RedisTyped /\ InQueue /\ (~odd => RepliesInOrder /\ RedisLogs)
    BY DEF RedisInv
<1>2. DOMAIN px.log = 1..Len(px.log)
    BY <1>1, RedisFacts
<1>3. ASSUME ~odd
      PROVE  Wire!Paired
  <2>1. Wire!Is("redis") /\ ~Wire!Is("postgres")
      BY DEF Wire!Is
  <2> QED BY <1>1, <1>2, <1>3, <2>1
          DEF RedisLogs, Wire!Paired
<1>4. ASSUME ~odd, NEW x \in Wire!Completed
      PROVE  Wire!Cardinality(Wire!Logs(x)) = 1
  <2>1. PICK k \in 1..read : answers[k].final /\ x = answers[k].req
      BY <1>4 DEF Wire!Completed, Wire!Is
  <2>2. PICK j \in 1..Len(px.log) : px.log[j].by = x
      BY <1>1, <1>4, <2>1 DEF RedisLogs
  <2>3. \A i \in 1..Len(px.log) : px.log[i].by = x => i = j
    <3>1. TAKE i \in 1..Len(px.log)
    <3>2. px.log[i].by \in Nat /\ px.log[j].by \in Nat
        BY <1>1, RedisFacts
    <3>3. i < j => px.log[i].by < px.log[j].by
        BY <1>1, <1>4 DEF RedisLogs
    <3>4. j < i => px.log[j].by < px.log[i].by
        BY <1>1, <1>4 DEF RedisLogs
    <3> QED BY <2>2, <3>2, <3>3, <3>4
  <2> QED BY <1>2, <2>2, <2>3, OneLog
<1> QED BY <1>3, <1>4 DEF Wire!Captured, Wire!Paired

-----------------------------------------------------------------------------
\* Kafka: each request is answered once, under its own id.
KafkaPxType == [pending : SUBSET Nat, log : Seq(LogType)]

KafkaTyped ==
    /\ conn \in Scripts /\ fwd \in Nat /\ seen \in Nat /\ served \in Nat /\ pushed = 0
    /\ relayed \in Nat /\ read \in Nat /\ served <= fwd /\ seen <= fwd
    /\ answers \in Seq(Packet) /\ read <= relayed /\ relayed <= Len(answers)
    /\ px \in KafkaPxType

AnsweredOnce ==
    /\ \A k \in 1..Len(answers) :
        /\ answers[k].req \in 1..served /\ answers[k].text = answers[k].req
        /\ answers[k].final <=> conn.reqs[answers[k].req].kind = "fetch"
    /\ \A k, l \in 1..Len(answers) : k # l => answers[k].req # answers[l].req

\* What waits has been inspected and its answer has not; what is logged is what
\* was produced, and what was fetched and answered.
KafkaWaits ==
    /\ \A k \in 1..read : answers[k].req <= seen
    /\ px.pending = {i \in 1..seen : \A k \in 1..read : answers[k].req # i}

Owed ==
    {i \in 1..seen : conn.reqs[i].kind = "produce"}
    \cup {answers[k].req : k \in {k \in 1..read : answers[k].final}}

KafkaLogs ==
    /\ \A j \in 1..Len(px.log) :
        px.log[j].text = px.log[j].answer /\ px.log[j].rows = {} /\ px.log[j].by \in Owed
    /\ \A i, j \in 1..Len(px.log) : i # j => px.log[i].by # px.log[j].by
    /\ \A i \in Owed : \E j \in 1..Len(px.log) : px.log[j].by = i

KafkaInv ==
    Wire!Is("kafka") => KafkaTyped /\ AnsweredOnce /\ (~odd => KafkaWaits /\ KafkaLogs)

\* The types that the steps need.
LEMMA KafkaFacts ==
  ASSUME KafkaTyped
  PROVE  /\ fwd \in Nat /\ seen \in Nat /\ served \in Nat /\ relayed \in Nat /\ read \in Nat
         /\ answers \in Seq(Packet) /\ Len(answers) \in Nat /\ read <= Len(answers)
         /\ px.pending \subseteq Nat /\ px.log \in Seq(LogType) /\ Len(px.log) \in Nat
         /\ \A j \in 1..Len(px.log) : px.log[j].by \in Nat
<1>1. px.pending \subseteq Nat /\ px.log \in Seq(LogType)
    BY DEF KafkaTyped, KafkaPxType
<1> QED BY <1>1, LogFields DEF KafkaTyped

\* What a change of both fields of the Kafka proxy leaves.
LEMMA KafkaPx ==
  ASSUME px \in KafkaPxType, NEW t \in SUBSET Nat, NEW s \in Seq(LogType),
         px' = [px EXCEPT !.pending = t, !.log = s]
  PROVE  px' \in KafkaPxType /\ px'.pending = t /\ px'.log = s
BY DEF KafkaPxType

\* It holds before the first request,
LEMMA KafkaInit ==
  ASSUME Wire!ScriptsTyped, Wire!Init
  PROVE  KafkaInv
<1>1. SUFFICES ASSUME Wire!Is("kafka") PROVE KafkaTyped /\ AnsweredOnce /\ KafkaWaits /\ KafkaLogs
    BY DEF KafkaInv
<1>2. px = [pending |-> {}, log |-> <<>>]
    BY <1>1 DEF Wire!Init, Wire!Fresh, Wire!KafkaFresh, Wire!Is
<1>3. px.pending = {} /\ px.log = <<>> /\ <<>> \in Seq(LogType) /\ Len(<<>>) = 0 /\ px \in KafkaPxType
  <2>1. <<>> \in Seq(LogType) /\ Len(<<>>) = 0
      OBVIOUS
  <2> QED BY <1>2, <2>1 DEF KafkaPxType
<1>4. conn \in Scripts /\ fwd = 0 /\ seen = 0 /\ served = 0 /\ pushed = 0 /\ relayed = 0 /\ read = 0
      /\ answers = <<>>
    BY DEF Wire!Init
<1>5. KafkaTyped /\ AnsweredOnce
    BY <1>3, <1>4 DEF KafkaTyped, AnsweredOnce
<1>6. KafkaWaits
    BY <1>3, <1>4 DEF KafkaWaits
<1>7. Owed = {}
    BY <1>4 DEF Owed
<1>8. KafkaLogs
    BY <1>3, <1>7 DEF KafkaLogs
<1> QED BY <1>5, <1>6, <1>8

\* A log of one that was not due is added.
LEMMA KafkaLogAdded ==
  ASSUME KafkaTyped, KafkaLogs, NEW e \in LogType, e.text = e.answer, e.rows = {},
         px'.log = Append(px.log, e), e.by \notin Owed, Owed' = Owed \cup {e.by}
  PROVE  KafkaLogs'
<1>1. PICK m \in Nat : m = Len(px.log)
    BY KafkaFacts
<1>2. Len(px'.log) = m + 1 /\ px'.log[m + 1] = e /\ \A j \in 1..m : px'.log[j] = px.log[j]
    BY <1>1, KafkaFacts, Appends
<1>3. \A j \in 1..m : px.log[j].by \in Nat /\ px.log[j].by \in Owed
    BY <1>1, KafkaFacts DEF KafkaLogs
<1>4. \A j \in 1..(m + 1) : j = m + 1 \/ j \in 1..m
    OBVIOUS
<1>5. e.by \in Nat
    BY DEF LogType
<1>6. ASSUME NEW j \in 1..(m + 1)
      PROVE  /\ px'.log[j].text = px'.log[j].answer /\ px'.log[j].rows = {}
             /\ px'.log[j].by \in Owed'
  <2>1. CASE j = m + 1
      BY <1>2, <1>5, <2>1
  <2>2. CASE j \in 1..m
    <3>1. px'.log[j] = px.log[j] /\ px.log[j].by \in Nat /\ px.log[j].by \in Owed
        BY <1>2, <1>3, <2>2
    <3>2. px.log[j].text = px.log[j].answer /\ px.log[j].rows = {}
        BY <1>1, <2>2 DEF KafkaLogs
    <3> QED BY <3>1, <3>2
  <2> QED BY <1>4, <2>1, <2>2
<1>7. ASSUME NEW i \in 1..(m + 1), NEW j \in 1..(m + 1), i # j
      PROVE  px'.log[i].by # px'.log[j].by
  <2>1. CASE i \in 1..m /\ j \in 1..m
      BY <1>1, <1>2, <1>7, <2>1 DEF KafkaLogs
  <2>2. CASE i = m + 1
      BY <1>2, <1>3, <1>4, <1>7, <2>2
  <2>3. CASE j = m + 1
      BY <1>2, <1>3, <1>4, <1>7, <2>3
  <2> QED BY <1>4, <2>1, <2>2, <2>3
<1>8. ASSUME NEW i \in Owed'
      PROVE  \E j \in 1..(m + 1) : px'.log[j].by = i
  <2>1. CASE i = e.by
      BY <1>2, <2>1
  <2>2. CASE i \in Owed
    <3>1. PICK j \in 1..m : px.log[j].by = i
        BY <1>1, <2>2 DEF KafkaLogs
    <3> QED BY <1>2, <3>1
  <2> QED BY <1>8, <2>1, <2>2
<1> QED BY <1>2, <1>6, <1>7, <1>8 DEF KafkaLogs

\* No log is added.
LEMMA KafkaLogsStay ==
  ASSUME KafkaTyped, KafkaLogs, px'.log = px.log, Owed' = Owed
  PROVE  KafkaLogs'
BY DEF KafkaLogs

\* Whatever the two sides and the goroutines do.
LEMMA KafkaStep ==
  ASSUME KafkaInv, Wire!ScriptsTyped, [Wire!Next]_Wire!vars
  PROVE  KafkaInv'
<1>a. conn' = conn
    BY SameScript
<1>0. SUFFICES ASSUME Wire!Is("kafka")
               PROVE  KafkaTyped' /\ AnsweredOnce' /\ (~odd' => KafkaWaits' /\ KafkaLogs')
    BY <1>a DEF KafkaInv, Wire!Is
<1>b. /\ Wire!IsBroker /\ ~Wire!Is("amqp") /\ ~Wire!Is("redis") /\ ~Wire!Is("mongo")
      /\ ~Wire!Is("postgres") /\ ~Wire!Is("mysql")
    BY <1>0 DEF Wire!Is, Wire!IsBroker, Wire!Brokers
<1>c. KafkaTyped /\ AnsweredOnce
    BY <1>0 DEF KafkaInv
<1>d. ~odd => KafkaWaits /\ KafkaLogs
    BY <1>0 DEF KafkaInv
<1>e. /\ fwd \in Nat /\ seen \in Nat /\ served \in Nat /\ relayed \in Nat /\ read \in Nat
      /\ served <= fwd /\ seen <= fwd /\ pushed = 0
      /\ answers \in Seq(Packet) /\ read <= relayed /\ relayed <= Len(answers) /\ Len(answers) \in Nat
      /\ px \in KafkaPxType /\ conn \in Scripts
    BY <1>c DEF KafkaTyped
<1>1. CASE /\ UNCHANGED <<conn, seen, served, pushed, answers, read, px, odd>>
           /\ fwd' \in {fwd, fwd + 1} /\ relayed' \in Nat /\ relayed' <= Len(answers)
           /\ read <= relayed'
  <2>1. KafkaTyped' /\ AnsweredOnce'
      BY <1>1, <1>c, <1>e DEF KafkaTyped, AnsweredOnce
  <2>2. ASSUME ~odd' PROVE KafkaWaits' /\ KafkaLogs'
    <3>1. Owed' = Owed
        BY <1>1 DEF Owed
    <3> QED BY <1>1, <1>c, <1>d, <2>2, <3>1, KafkaLogsStay DEF KafkaWaits
  <2> QED BY <2>1, <2>2
<1>2. CASE Wire!Serve
  <2>1. served' = served + 1 /\ served < fwd
        /\ UNCHANGED <<conn, fwd, seen, pushed, relayed, read, px>>
      BY <1>2 DEF Wire!Serve, Wire!reqVars, Wire!backVars
  <2>2. PICK p \in Packet : answers' = Append(answers, p) /\ p.req = served + 1
            /\ p.text = served + 1 /\ (p.final <=> conn.reqs[served + 1].kind = "fetch")
    <3> DEFINE x == [kind |-> "response", req |-> served + 1, text |-> served + 1,
                     final |-> conn.reqs[served + 1].kind = "fetch", n |-> <<0, 0>>]
    <3>1. <<0, 0>> \in Nat \X Nat /\ served + 1 \in Nat
        BY <1>e
    <3>2. x \in Packet
        BY <3>1 DEF Packet
    <3>3. answers' = answers \o <<x>>
      <4>1. PICK a \in Wire!KafkaAnswers(served + 1) : answers' = answers \o a.packets
          BY <1>0, <1>2 DEF Wire!Serve, Wire!Answers, Wire!Is
      <4>2. a.packets = <<x>>
          BY DEF Wire!KafkaAnswers, Wire!Answer, Wire!Reqs
      <4> QED BY <4>1, <4>2
    <3>4. answers' = Append(answers, x)
        BY <1>e, <3>2, <3>3
    <3> QED BY <3>2, <3>4
  <2>3. PICK n \in Nat : n = Len(answers)
      BY <1>e
  <2>4. /\ answers' \in Seq(Packet) /\ Len(answers') = n + 1 /\ answers'[n + 1] = p
        /\ \A k \in 1..n : answers'[k] = answers[k]
      BY <1>e, <2>2, <2>3, Appends
  <2>5. KafkaTyped'
      BY <1>e, <2>1, <2>3, <2>4 DEF KafkaTyped
  <2>6. \A k \in 1..(n + 1) : k = n + 1 \/ k \in 1..n
      BY <2>3
  <2>7. \A k \in 1..n : answers[k].req \in 1..served /\ answers[k].text = answers[k].req
            /\ (answers[k].final <=> conn.reqs[answers[k].req].kind = "fetch")
      BY <1>c, <2>3 DEF AnsweredOnce
  <2>8. \A k \in 1..(n + 1) : answers'[k].req \in 1..served' /\ answers'[k].text = answers'[k].req
            /\ (answers'[k].final <=> conn.reqs[answers'[k].req].kind = "fetch")
    <3>1. TAKE k \in 1..(n + 1)
    <3>2. CASE k = n + 1
        BY <1>e, <2>1, <2>2, <2>4, <3>2
    <3>3. CASE k \in 1..n
        BY <1>e, <2>1, <2>4, <2>7, <3>3
    <3> QED BY <2>6, <3>2, <3>3
  <2>9. ASSUME NEW k \in 1..(n + 1), NEW l \in 1..(n + 1), k # l
        PROVE  answers'[k].req # answers'[l].req
    <3>1. CASE k = n + 1
        BY <1>e, <2>2, <2>4, <2>6, <2>7, <2>9, <3>1
    <3>2. CASE l = n + 1
        BY <1>e, <2>2, <2>4, <2>6, <2>7, <2>9, <3>2
    <3>3. CASE k \in 1..n /\ l \in 1..n
        BY <1>c, <2>3, <2>4, <2>9, <3>3 DEF AnsweredOnce
    <3> QED BY <2>6, <3>1, <3>2, <3>3
  <2>10. AnsweredOnce'
      BY <2>1, <2>4, <2>8, <2>9 DEF AnsweredOnce
  <2>11. ASSUME ~odd' PROVE KafkaWaits' /\ KafkaLogs'
    <3>1. ~odd
        BY <1>2, <2>11 DEF Wire!Serve
    <3>2. \A k \in 1..read : answers'[k] = answers[k]
        BY <1>e, <2>3, <2>4
    <3>3. Owed' = Owed
        BY <2>1, <3>2 DEF Owed
    <3>4. KafkaWaits'
        BY <1>d, <2>1, <3>1, <3>2 DEF KafkaWaits
    <3> QED BY <1>c, <1>d, <2>1, <3>1, <3>3, <3>4, KafkaLogsStay
  <2> QED BY <2>5, <2>10, <2>11
<1>3. CASE Wire!InspectRequest
  <2> DEFINE produced == conn.reqs[seen + 1].kind = "produce"
             e == [text |-> seen + 1, by |-> seen + 1, answer |-> seen + 1, rows |-> {}]
             log == IF produced THEN Append(px.log, e) ELSE px.log
             pending == px.pending \cup {seen + 1}
  <2>1. /\ seen < fwd /\ seen' = seen + 1 /\ px' = [px EXCEPT !.pending = pending, !.log = log]
        /\ UNCHANGED <<conn, fwd, served, pushed, answers, relayed, read, odd>>
      BY <1>0, <1>3 DEF Wire!InspectRequest, Wire!OnRequest, Wire!KafkaRequest, Wire!Reqs, Wire!Is,
         Wire!srvVars, Wire!backVars
  <2>2. e \in LogType /\ e.by = seen + 1 /\ e.text = e.answer /\ e.rows = {}
      BY <1>e DEF LogType
  <2> HIDE DEF produced, e
  <2>3. pending \in SUBSET Nat /\ log \in Seq(LogType)
      BY <1>c, <1>e, <2>2, KafkaFacts
  <2> HIDE DEF log, pending
  <2>4. px' \in KafkaPxType /\ px'.pending = pending /\ px'.log = log
      BY <1>e, <2>1, <2>3, KafkaPx
  <2>5. KafkaTyped' /\ AnsweredOnce'
      BY <1>c, <1>e, <2>1, <2>4 DEF KafkaTyped, AnsweredOnce
  <2>6. ASSUME ~odd' PROVE KafkaWaits' /\ KafkaLogs'
    <3>1. KafkaWaits /\ KafkaLogs
        BY <1>d, <2>1, <2>6
    <3>2. \A k \in 1..read : answers[k].req \in Nat /\ answers[k].req <= seen
        BY <1>c, <1>e, <3>1 DEF KafkaWaits, AnsweredOnce
    <3>3. 1..(seen + 1) = 1..seen \cup {seen + 1}
        BY <1>e
    <3>4. \A k \in 1..read : answers[k].req # seen + 1
        BY <1>e, <3>2
    <3>5. pending = {i \in 1..(seen + 1) : \A k \in 1..read : answers[k].req # i}
        BY <3>1, <3>3, <3>4 DEF pending, KafkaWaits
    <3>6. KafkaWaits'
        BY <1>e, <2>1, <2>4, <3>2, <3>5 DEF KafkaWaits
    <3>7. CASE produced
      <4>1. Owed' = Owed \cup {seen + 1}
          BY <2>1, <3>3, <3>7 DEF Owed, produced
      <4>2. seen + 1 \notin Owed
          BY <1>e, <3>4 DEF Owed
      <4>3. px'.log = Append(px.log, e)
          BY <2>4, <3>7 DEF log
      <4> QED BY <1>c, <2>2, <3>1, <3>6, <4>1, <4>2, <4>3, KafkaLogAdded
    <3>8. CASE ~produced
      <4>1. Owed' = Owed
          BY <2>1, <3>3, <3>8 DEF Owed, produced
      <4>2. px'.log = px.log
          BY <2>4, <3>8 DEF log
      <4> QED BY <1>c, <3>1, <3>6, <4>1, <4>2, KafkaLogsStay
    <3> QED BY <3>7, <3>8
  <2> QED BY <2>5, <2>6
<1>4. CASE Wire!InspectResponse
  <2>0. PICK r \in Nat : r = read
      BY <1>e
  <2>a. PICK p \in Packet : p = answers[r + 1]
    <3>1. r + 1 \in 1..Len(answers)
        BY <1>4, <1>e, <2>0 DEF Wire!InspectResponse
    <3> QED BY <1>e, <3>1
  <2> DEFINE fetched == p.req \in px.pending /\ conn.reqs[p.req].kind = "fetch"
             e == [text |-> p.req, by |-> p.req, answer |-> p.text, rows |-> {}]
             log == IF fetched THEN Append(px.log, e) ELSE px.log
             pending == px.pending \ {p.req}
  <2>1. /\ r < relayed /\ read' = r + 1 /\ px' = [px EXCEPT !.pending = pending, !.log = log]
        /\ UNCHANGED <<conn, fwd, seen, served, pushed, answers, relayed>>
        /\ odd' = (odd \/ p.req > seen)
      BY <1>0, <1>4, <2>0, <2>a DEF Wire!InspectResponse, Wire!OnPacket, Wire!KafkaPacket, Wire!Reqs,
         Wire!Is, Wire!srvVars, Wire!reqVars
  <2>b. p.req \in 1..served /\ p.text = p.req /\ (p.final <=> conn.reqs[p.req].kind = "fetch")
        /\ \A k \in 1..r : answers[k].req # p.req
    <3>1. r + 1 \in 1..Len(answers) /\ \A k \in 1..r : k \in 1..Len(answers) /\ k # r + 1
        BY <1>e, <2>0, <2>1
    <3> QED BY <1>c, <2>a, <3>1 DEF AnsweredOnce
  <2>2. e \in LogType /\ e.by = p.req /\ e.text = e.answer /\ e.rows = {}
      BY <1>e, <2>b DEF LogType
  <2> HIDE DEF fetched, e
  <2>3. pending \in SUBSET Nat /\ log \in Seq(LogType)
      BY <1>c, <1>e, <2>2, KafkaFacts
  <2> HIDE DEF log, pending
  <2>4. px' \in KafkaPxType /\ px'.pending = pending /\ px'.log = log
      BY <1>e, <2>1, <2>3, KafkaPx
  <2>5. KafkaTyped' /\ AnsweredOnce'
      BY <1>c, <1>e, <2>0, <2>1, <2>4 DEF KafkaTyped, AnsweredOnce
  <2>6. ASSUME ~odd' PROVE KafkaWaits' /\ KafkaLogs'
    <3>1. KafkaWaits /\ KafkaLogs /\ ~(p.req > seen)
        BY <1>d, <2>1, <2>6
    <3>2. p.req \in 1..seen /\ p.req \in px.pending
        BY <1>e, <2>0, <2>b, <3>1 DEF KafkaWaits
    <3>3. 1..(r + 1) = 1..r \cup {r + 1}
        BY <2>0
    <3>4. pending = {i \in 1..seen : \A k \in 1..(r + 1) : answers[k].req # i}
        BY <2>0, <2>a, <3>1, <3>3 DEF pending, KafkaWaits
    <3>5. \A k \in 1..(r + 1) : answers[k].req <= seen
        BY <1>e, <2>0, <2>a, <3>1, <3>2, <3>3 DEF KafkaWaits
    <3>6. KafkaWaits'
        BY <2>1, <2>4, <3>4, <3>5 DEF KafkaWaits
    <3>7. CASE p.final
      <4>1. Owed' = Owed \cup {p.req}
          BY <2>0, <2>1, <2>a, <3>3, <3>7 DEF Owed
      <4>2. p.req \notin Owed
          BY <2>0, <2>b, <3>7 DEF Owed
      <4>3. px'.log = Append(px.log, e)
          BY <2>4, <2>b, <3>2, <3>7 DEF log, fetched
      <4> QED BY <1>c, <2>2, <3>1, <3>6, <4>1, <4>2, <4>3, KafkaLogAdded
    <3>8. CASE ~p.final
      <4>1. Owed' = Owed
          BY <2>0, <2>1, <2>a, <3>3, <3>8 DEF Owed
      <4>2. px'.log = px.log
          BY <2>4, <2>b, <3>8 DEF log, fetched
      <4> QED BY <1>c, <3>1, <3>6, <4>1, <4>2, KafkaLogsStay
    <3> QED BY <3>7, <3>8
  <2> QED BY <2>5, <2>6
<1>5. CASE UNCHANGED pairing \/ Wire!RelayFails
    BY <1>1, <1>5, <1>b, <1>e DEF pairing, Wire!RelayFails, Wire!reqVars, Wire!srvVars
<1>6. CASE Wire!RelayBack
    BY <1>1, <1>6, <1>b, <1>e DEF Wire!RelayBack, Wire!AnswerReadable, Wire!reqVars, Wire!srvVars
<1>7. CASE Wire!ForwardRequest
    BY <1>1, <1>7, <1>b, <1>e DEF Wire!ForwardRequest, Wire!srvVars, Wire!backVars
<1>8. CASE Wire!Push
  <2>1. conn.pushes = <<>>
      BY <1>0, <1>e DEF Wire!ScriptsTyped, Wire!Is
  <2> QED BY <1>8, <1>e, <2>1 DEF Wire!Push
<1>9. CASE \/ Wire!ReadAndForward \/ Wire!TakePending
           \/ Wire!CompleteMessage("up") \/ Wire!CompleteMessage("down")
    BY <1>9, <1>b DEF Wire!ReadAndForward, Wire!TakePending, Wire!CompleteMessage, Wire!Due
<1> QED BY <1>2, <1>3, <1>4, <1>5, <1>6, <1>7, <1>8, <1>9, PairingSteps

\* So a log has the text of its own answer, and none is missing.
LEMMA KafkaInvImplies ==
  ASSUME KafkaInv, Wire!Is("kafka")
  PROVE  Wire!Paired /\ Wire!Captured
<1>1. KafkaTyped /\ AnsweredOnce /\ (~odd => KafkaWaits /\ KafkaLogs)
    BY DEF KafkaInv
<1>2. DOMAIN px.log = 1..Len(px.log)
    BY <1>1, KafkaFacts
<1>3. ASSUME ~odd
      PROVE  Wire!Paired
  <2>1. Wire!Is("kafka") /\ ~Wire!Is("postgres")
      BY DEF Wire!Is
  <2> QED BY <1>1, <1>2, <1>3, <2>1
          DEF KafkaLogs, Wire!Paired
<1>4. ASSUME ~odd, NEW x \in Wire!Completed
      PROVE  Wire!Cardinality(Wire!Logs(x)) = 1
  <2>1. x \in Owed
      BY <1>4 DEF Wire!Completed, Wire!Is, Wire!Reqs, Owed
  <2>2. PICK j \in 1..Len(px.log) : px.log[j].by = x
      BY <1>1, <1>4, <2>1 DEF KafkaLogs
  <2>3. \A i \in 1..Len(px.log) : px.log[i].by = x => i = j
      BY <1>1, <1>4, <2>2 DEF KafkaLogs
  <2> QED BY <1>2, <2>2, <2>3, OneLog
<1> QED BY <1>3, <1>4 DEF Wire!Captured, Wire!Paired

-----------------------------------------------------------------------------
\* MongoDB: a find and its batches are one query.
Kind(i) == conn.reqs[i].kind
CursorOf(i) == IF Kind(i) = "getMore" THEN conn.reqs[i].name ELSE i
Finds(c) == c \in DOMAIN conn.reqs /\ Kind(c) = "find"

\* The k-th of the answers is one of the cursor, and what the last of these left.
OfCursor(s, k, c) ==
    s[k].kind # "more" /\ Kind(s[k].req) \in {"find", "getMore"} /\ CursorOf(s[k].req) = c
Opened(s, n, c) ==
    \E k \in 1..n : /\ OfCursor(s, k, c) /\ s[k].n[1] # 0
                    /\ \A l \in 1..n : OfCursor(s, l, c) => l <= k

\* The k-th of the answers continues a find.
Continues(s, k) ==
    /\ Kind(s[k].req) = "getMore" /\ Finds(CursorOf(s[k].req))
    /\ Opened(s, k - 1, CursorOf(s[k].req))

AnswersItsRequest(s, k) ==
    LET p == s[k]
        i == s[k].req
        c == CursorOf(s[k].req)
    IN  /\ p.kind = "more" => Kind(i) = "internal"
        /\ p.text = IF Continues(s, k) THEN c ELSE i
        /\ p.n[1] \in {0, c} /\ (p.n[1] # 0 => p.kind = "batch")
        /\ Kind(i) = "find" => ~Opened(s, k - 1, i)
        /\ Kind(i) = "getMore" /\ Finds(c) /\ p.n[1] # 0 => Continues(s, k)
        /\ p.final <=> Kind(i) # "internal" /\ ~(p.n[1] # 0 /\ (Kind(i) = "find" \/ Continues(s, k)))

CursorType == [text : Nat, rows : SUBSET [text : Nat, ok : BOOLEAN]]
MongoPxType == [pending : SUBSET Nat, cursors : [Names -> CursorType], log : Seq(LogType)]

MongoTyped ==
    /\ conn \in Scripts /\ fwd \in Nat /\ seen \in Nat /\ served \in Nat /\ pushed = 0
    /\ relayed \in Nat /\ read \in Nat /\ offered \in Nat
    /\ served <= fwd /\ fwd <= seen /\ seen <= offered /\ offered <= Len(conn.reqs)
    /\ answers \in Seq(Packet) /\ read <= Len(answers)
    /\ px \in MongoPxType

\* What s holds after the answers to the first m requests.
AnswersTell(s, m, live) ==
    /\ \A k \in 1..Len(s) : s[k].req \in 1..m /\ AnswersItsRequest(s, k)
    /\ \A k, l \in 1..Len(s) :
        k # l /\ s[k].kind # "more" /\ s[l].kind # "more" => s[k].req # s[l].req
    /\ \A c \in DOMAIN conn.reqs : Finds(c) =>
        /\ c \in live <=> Opened(s, Len(s), c)
        /\ c \in live => c <= m

MongoAnswersTell == AnswersTell(answers, served, srv.live)

MongoWaits ==
    px.pending = {i \in 1..seen : Kind(i) # "internal" /\ \A k \in 1..read : answers[k].req # i}

\* What is kept after the first n answers: a cursor for every find that goes on.
CursorsTell(cursors, s, n) ==
    \A c \in Names :
        IF Finds(c) /\ Opened(s, n, c)
        THEN cursors[c].text = c /\ cursors[c].rows \subseteq {[text |-> c, ok |-> TRUE]}
        ELSE cursors[c] = [text |-> 0, rows |-> {}]

CursorsKnown == CursorsTell(px.cursors, answers, read)

Final == {answers[k].req : k \in {k \in 1..read : answers[k].final}}

MongoLogs ==
    /\ \A j \in 1..Len(px.log) :
        /\ px.log[j].text = px.log[j].answer /\ px.log[j].by \in Final
        /\ px.log[j].rows \subseteq {[text |-> px.log[j].answer, ok |-> TRUE]}
    /\ \A i, j \in 1..Len(px.log) : i # j => px.log[i].by # px.log[j].by
    /\ \A i \in Final : \E j \in 1..Len(px.log) : px.log[j].by = i

MongoInv ==
    Wire!Is("mongo") =>
        MongoTyped /\ MongoAnswersTell /\ MongoWaits /\ CursorsKnown /\ MongoLogs

\* What the answers up to k say does not depend on later ones.
LEMMA EarlierAnswers ==
  ASSUME NEW s, NEW t, NEW n \in Nat, \A k \in 1..n : t[k] = s[k]
  PROVE  /\ \A m \in 0..n : \A c : Opened(t, m, c) <=> Opened(s, m, c)
         /\ \A k \in 1..n : AnswersItsRequest(t, k) <=> AnswersItsRequest(s, k)
<1>1. \A k \in 1..n : \A c : OfCursor(t, k, c) <=> OfCursor(s, k, c)
    BY DEF OfCursor
<1>2. ASSUME NEW m \in 0..n, NEW c
      PROVE  Opened(t, m, c) <=> Opened(s, m, c)
  <2>1. \A k \in 1..m : k \in 1..n
      OBVIOUS
  <2> QED BY <1>1, <2>1 DEF Opened
<1>3. ASSUME NEW k \in 1..n
      PROVE  AnswersItsRequest(t, k) <=> AnswersItsRequest(s, k)
  <2>1. t[k] = s[k] /\ k - 1 \in 0..n
      OBVIOUS
  <2>2. Continues(t, k) <=> Continues(s, k)
      BY <1>2, <2>1 DEF Continues
  <2> QED BY <1>2, <2>1, <2>2 DEF AnswersItsRequest
<1> QED BY <1>2, <1>3

\* One more answer.
LEMMA OpenedNext ==
  ASSUME NEW s, NEW n \in Nat, NEW c
  PROVE  Opened(s, n + 1, c) <=> (IF OfCursor(s, n + 1, c) THEN s[n + 1].n[1] # 0 ELSE Opened(s, n, c))
<1>1. \A k \in 1..(n + 1) : k = n + 1 \/ k \in 1..n
    OBVIOUS
<1>2. CASE OfCursor(s, n + 1, c)
  <2>1. \A k \in 1..(n + 1) : (\A l \in 1..(n + 1) : OfCursor(s, l, c) => l <= k) => k = n + 1
      BY <1>2
  <2>2. \A l \in 1..(n + 1) : l <= n + 1
      OBVIOUS
  <2> QED BY <1>2, <2>1, <2>2 DEF Opened
<1>3. CASE ~OfCursor(s, n + 1, c)
  <2>1. Opened(s, n + 1, c) => Opened(s, n, c)
      BY <1>1, <1>3 DEF Opened
  <2>2. \A k \in 1..n : k \in 1..(n + 1)
      OBVIOUS
  <2>3. Opened(s, n, c) => Opened(s, n + 1, c)
      BY <1>1, <1>3, <2>2 DEF Opened
  <2> QED BY <1>3, <2>1, <2>3
<1> QED BY <1>2, <1>3

\* The types that the steps need.
LEMMA MongoPx ==
  ASSUME px \in MongoPxType
  PROVE  /\ px.pending \subseteq Nat /\ px.cursors \in [Names -> CursorType] /\ px.log \in Seq(LogType)
         /\ Len(px.log) \in Nat /\ \A j \in 1..Len(px.log) : px.log[j].by \in Nat
<1>1. px.pending \subseteq Nat /\ px.cursors \in [Names -> CursorType] /\ px.log \in Seq(LogType)
    BY DEF MongoPxType
<1> QED BY <1>1, LogFields

\* What is assumed of the requests.
LEMMA MongoScript ==
  ASSUME Wire!ScriptsTyped, conn \in Scripts, conn.proto = "mongo"
  PROVE  /\ DOMAIN conn.reqs = 1..Len(conn.reqs) /\ Len(conn.reqs) \in Nat
         /\ DOMAIN conn.reqs \subseteq Nat \ {0} /\ DOMAIN conn.reqs \subseteq Names
         /\ \A i \in DOMAIN conn.reqs :
              /\ conn.reqs[i].kind \in {"find", "aggregate", "getMore", "internal", "command"}
              /\ conn.reqs[i].kind = "getMore" => conn.reqs[i].name \in DOMAIN conn.reqs
<1>1. /\ conn.reqs \in Seq({conn.reqs[i] : i \in DOMAIN conn.reqs})
      /\ DOMAIN conn.reqs \subseteq Names
      /\ \A i \in DOMAIN conn.reqs :
              /\ conn.reqs[i].kind \in {"find", "aggregate", "getMore", "internal", "command"}
              /\ conn.reqs[i].kind = "getMore" => conn.reqs[i].name \in DOMAIN conn.reqs
    BY DEF Wire!ScriptsTyped
<1>2. DOMAIN conn.reqs = 1..Len(conn.reqs) /\ Len(conn.reqs) \in Nat
    BY <1>1
<1> QED BY <1>1, <1>2

\* It holds before the first request.
LEMMA MongoInit ==
  ASSUME Wire!ScriptsTyped, Wire!Init
  PROVE  MongoInv
<1>1. SUFFICES ASSUME Wire!Is("mongo")
               PROVE  MongoTyped /\ MongoAnswersTell /\ MongoWaits /\ CursorsKnown /\ MongoLogs
    BY DEF MongoInv
<1> DEFINE no == [text |-> 0, rows |-> {}]
<1>2. px = [pending |-> {}, cursors |-> [c \in Names |-> no], log |-> <<>>]
    BY <1>1 DEF Wire!Init, Wire!Fresh, Wire!MongoFresh, Wire!NoCursor, Wire!Is
<1>3. no \in CursorType
    BY DEF CursorType
<1> HIDE DEF no
<1>4. px.pending = {} /\ px.log = <<>> /\ Len(<<>>) = 0 /\ px \in MongoPxType
      /\ \A c \in Names : px.cursors[c] = no
  <2>1. <<>> \in Seq(LogType) /\ Len(<<>>) = 0
      OBVIOUS
  <2> QED BY <1>2, <1>3, <2>1 DEF MongoPxType
<1>5. conn \in Scripts /\ fwd = 0 /\ seen = 0 /\ served = 0 /\ pushed = 0 /\ relayed = 0 /\ read = 0
      /\ answers = <<>> /\ srv.live = {} /\ offered = Len(conn.reqs) /\ Len(conn.reqs) \in Nat
    BY DEF Wire!Init, Wire!ScriptsTyped
<1>6. MongoTyped
    BY <1>4, <1>5 DEF MongoTyped
<1>7. \A s, c : ~Opened(s, 0, c)
    BY DEF Opened
<1>8. MongoAnswersTell
    BY <1>4, <1>5, <1>7 DEF MongoAnswersTell, AnswersTell
<1>9. MongoWaits
    BY <1>4, <1>5 DEF MongoWaits
<1>10. CursorsKnown
    BY <1>4, <1>5, <1>7 DEF CursorsKnown, CursorsTell, no
<1>11. MongoLogs
    BY <1>4, <1>5 DEF MongoLogs, Final
<1> QED BY <1>6, <1>8, <1>9, <1>10, <1>11

\* The answer to request i when these cursors are open before it and after it.
IsAnswer(i, p, live, after) ==
    /\ p.req = i /\ p.kind # "more"
    /\ p.text = IF Kind(i) = "getMore" /\ CursorOf(i) \in live /\ Kind(CursorOf(i)) = "find"
                THEN CursorOf(i) ELSE i
    /\ p.n[1] \in {0, CursorOf(i)} /\ (p.n[1] # 0 => p.kind = "batch")
    /\ Kind(i) = "getMore" /\ p.n[1] # 0 => CursorOf(i) \in live
    /\ p.final <=> ~(p.n[1] # 0 /\ Kind(CursorOf(i)) = "find")
    /\ after = IF Kind(i) = "command" THEN live
               ELSE IF p.n[1] # 0 THEN live \cup {CursorOf(i)}
               ELSE live \ {CursorOf(i)}

\* What MongoDB answers to a request that the proxy does not take for internal,
LEMMA MongoServes ==
  ASSUME Wire!Is("mongo"), Wire!ScriptsTyped, MongoTyped, Wire!Serve, NEW i, i = served + 1,
         Kind(i) # "internal"
  PROVE  \E p \in Packet : answers' = Append(answers, p) /\ IsAnswer(i, p, srv.live, srv'.live)
<1>1. PICK a \in Wire!MongoAnswers(i) : answers' = answers \o a.packets /\ srv'.live = a.live
    BY DEF Wire!Serve, Wire!Answers, Wire!Is
<1>2. i \in 1..Len(conn.reqs) /\ i \in Nat /\ i >= 1 /\ conn \in Scripts /\ conn.proto = "mongo"
    BY DEF Wire!Serve, MongoTyped, Wire!Is
<1>3. DOMAIN conn.reqs = 1..Len(conn.reqs) /\ DOMAIN conn.reqs \subseteq Nat \ {0}
    BY <1>2, MongoScript
<1>4. Kind(i) \in {"find", "aggregate", "getMore", "command"} /\ CursorOf(i) \in DOMAIN conn.reqs
    BY <1>2, <1>3, MongoScript DEF Kind, CursorOf
<1>5. CursorOf(i) \in Nat /\ CursorOf(i) # 0
    BY <1>3, <1>4
<1> DEFINE c == CursorOf(i)
           found == Kind(c) = "find"
           text == IF Kind(i) = "getMore" /\ c \in srv.live /\ Kind(c) = "find" THEN c ELSE i
           P(kind, final, next) ==
               [kind |-> kind, req |-> i, text |-> text, final |-> final, n |-> <<next, 0>>]
<1>6. Wire!TextOf(i) = text
    BY <1>4 DEF Wire!TextOf, Wire!Reqs, Wire!Is, Kind, CursorOf
<1>7. text \in Nat
    BY <1>2, <1>5
<1> HIDE DEF text
<1>8. ASSUME NEW kind \in {"batch", "error", "reply"}, NEW final \in BOOLEAN, NEW next \in {0, c},
             a.packets = <<P(kind, final, next)>>
      PROVE  \E p \in Packet : answers' = Append(answers, p) /\ p.req = i /\ p.kind = kind
                /\ p.text = text /\ p.final = final /\ p.n[1] = next
  <2>1. <<next, 0>> \in Nat \X Nat /\ kind \in {"reply", "error", "push", "response", "batch", "more"}
      BY <1>5
  <2>2. P(kind, final, next) \in Packet
      BY <1>2, <1>7, <2>1 DEF Packet
  <2>3. answers' = Append(answers, P(kind, final, next))
      BY <1>1, <1>8, <2>2 DEF MongoTyped
  <2> QED BY <2>2, <2>3
<1>9. CASE Kind(i) = "command"
  <2>1. a.packets = <<P("reply", TRUE, 0)>> /\ a.live = srv.live
      BY <1>1, <1>6, <1>9 DEF Wire!MongoAnswers, Wire!Answer, Wire!Reqs, Kind
  <2>2. PICK p \in Packet : answers' = Append(answers, p) /\ p.req = i /\ p.kind = "reply"
                /\ p.text = text /\ p.final = TRUE /\ p.n[1] = 0
      BY <1>8, <2>1
  <2> QED BY <1>1, <1>9, <2>1, <2>2 DEF text, IsAnswer
<1>10. CASE Kind(i) # "command"
  <2>1. \/ /\ a.packets = <<P("batch", ~found, c)>> /\ a.live = srv.live \cup {c}
           /\ Kind(i) = "getMore" => c \in srv.live
        \/ \E kind \in {"batch", "error"} :
              a.packets = <<P(kind, TRUE, 0)>> /\ a.live = srv.live \ {c}
    <3> DEFINE open == Wire!Answer(<<P("batch", ~found, c)>>, FALSE, FALSE, srv.live \cup {c})
               last == Wire!Answer(<<P("batch", TRUE, 0)>>, FALSE, FALSE, srv.live \ {c})
               fail == Wire!Answer(<<P("error", TRUE, 0)>>, FALSE, FALSE, srv.live \ {c})
    <3>1. (a = open /\ (Kind(i) = "getMore" => c \in srv.live)) \/ a = last \/ a = fail
      <4>1. CASE Kind(i) = "getMore"
          BY <1>1, <1>6, <4>1 DEF Wire!MongoAnswers, Wire!Reqs, Kind, CursorOf
      <4>2. CASE Kind(i) = "find"
          BY <1>1, <1>6, <4>2 DEF Wire!MongoAnswers, Wire!Reqs, Kind, CursorOf
      <4>3. CASE Kind(i) = "aggregate"
          BY <1>1, <1>6, <4>3 DEF Wire!MongoAnswers, Wire!Reqs, Kind, CursorOf
      <4> QED BY <1>4, <1>10, <4>1, <4>2, <4>3
    <3>2. /\ open.packets = <<P("batch", ~found, c)>> /\ open.live = srv.live \cup {c}
          /\ last.packets = <<P("batch", TRUE, 0)>> /\ last.live = srv.live \ {c}
          /\ fail.packets = <<P("error", TRUE, 0)>> /\ fail.live = srv.live \ {c}
        BY DEF Wire!Answer
    <3> HIDE DEF open, last, fail
    <3> QED BY <3>1, <3>2
  <2>2. CASE /\ a.packets = <<P("batch", ~found, c)>> /\ a.live = srv.live \cup {c}
             /\ Kind(i) = "getMore" => c \in srv.live
    <3>1. PICK p \in Packet : answers' = Append(answers, p) /\ p.req = i /\ p.kind = "batch"
                /\ p.text = text /\ p.final = ~found /\ p.n[1] = c
        BY <1>8, <2>2
    <3> QED BY <1>1, <1>5, <1>10, <2>2, <3>1 DEF text, IsAnswer
  <2>3. ASSUME NEW kind \in {"batch", "error"}, a.packets = <<P(kind, TRUE, 0)>>,
               a.live = srv.live \ {c}
        PROVE  \E p \in Packet : answers' = Append(answers, p) /\ p.req = i /\ p.kind = kind
                /\ p.text = text /\ p.final = TRUE /\ p.n[1] = 0
    <3>1. kind \in {"batch", "error", "reply"} /\ TRUE \in BOOLEAN /\ 0 \in {0, c}
        OBVIOUS
    <3> QED BY <1>8, <2>3, <3>1
  <2>4. CASE \E kind \in {"batch", "error"} :
              a.packets = <<P(kind, TRUE, 0)>> /\ a.live = srv.live \ {c}
    <3>1. PICK p \in Packet : answers' = Append(answers, p) /\ p.req = i /\ p.kind # "more"
                /\ p.text = text /\ p.final = TRUE /\ p.n[1] = 0
        BY <2>3, <2>4
    <3>2. a.live = srv.live \ {c}
        BY <2>4
    <3> QED BY <1>1, <1>10, <3>1, <3>2 DEF text, IsAnswer
  <2> QED BY <2>1, <2>2, <2>4
<1> QED BY <1>9, <1>10

\* and to one that it does: a second message follows the first.
LEMMA MongoServesInternal ==
  ASSUME Wire!Is("mongo"), MongoTyped, Wire!Serve, NEW i, i = served + 1, Kind(i) = "internal"
  PROVE  \E p \in Packet, q \in Packet :
            /\ answers' = Append(Append(answers, p), q) /\ srv'.live = srv.live
            /\ p.kind = "reply" /\ p.req = i /\ p.text = i /\ ~p.final /\ p.n[1] = 0
            /\ q.kind = "more" /\ q.req = i /\ q.text = i /\ ~q.final /\ q.n[1] = 0
<1>1. PICK a \in Wire!MongoAnswers(i) : answers' = answers \o a.packets /\ srv'.live = a.live
    BY DEF Wire!Serve, Wire!Answers, Wire!Is
<1>2. i \in Nat /\ answers \in Seq(Packet)
    BY DEF MongoTyped
<1> DEFINE P(kind) ==
               [kind |-> kind, req |-> i, text |-> i, final |-> FALSE, n |-> <<0, 0>>]
<1>3. Wire!TextOf(i) = i
    BY DEF Wire!TextOf, Wire!Reqs, Wire!Is, Kind
<1>4. a.packets = <<P("reply"), P("more")>> /\ a.live = srv.live
    BY <1>1, <1>3 DEF Wire!MongoAnswers, Wire!Answer, Wire!Reqs, Kind
<1>5. P("reply") \in Packet /\ P("more") \in Packet
  <2>1. <<0, 0>> \in Nat \X Nat
      OBVIOUS
  <2> QED BY <1>2, <2>1 DEF Packet
<1> DEFINE p == P("reply")
           q == P("more")
<1>6. /\ p.kind = "reply" /\ p.req = i /\ p.text = i /\ ~p.final /\ p.n[1] = 0
      /\ q.kind = "more" /\ q.req = i /\ q.text = i /\ ~q.final /\ q.n[1] = 0
    OBVIOUS
<1>7. answers' = answers \o <<p, q>> /\ p \in Packet /\ q \in Packet
    BY <1>1, <1>4, <1>5
<1> HIDE DEF p, q
<1>8. answers' = Append(Append(answers, p), q)
    BY <1>2, <1>7
<1> QED BY <1>1, <1>4, <1>6, <1>7, <1>8

\* Both keep to what is known of the answers: a further one to the next request,
LEMMA AnswerAdded ==
  ASSUME NEW s \in Seq(Packet), NEW m \in Nat, NEW live, AnswersTell(s, m, live),
         NEW p \in Packet, NEW t, t = Append(s, p), NEW after, NEW i, i = m + 1,
         p.req = i, p.kind # "more",
         p.text = IF Kind(i) = "getMore" /\ CursorOf(i) \in live /\ Kind(CursorOf(i)) = "find"
                  THEN CursorOf(i) ELSE i,
         CursorOf(i) \in DOMAIN conn.reqs, p.n[1] \in {0, CursorOf(i)},
         p.n[1] # 0 => p.kind = "batch",
         Kind(i) = "getMore" /\ p.n[1] # 0 => CursorOf(i) \in live,
         p.final <=> Kind(i) # "internal" /\ ~(p.n[1] # 0 /\ Kind(CursorOf(i)) = "find"),
         DOMAIN conn.reqs \subseteq Nat, \A c : Finds(c) => (c \in after <=>
                   IF Kind(i) \in {"find", "getMore"} /\ CursorOf(i) = c THEN p.n[1] # 0 ELSE c \in live)
  PROVE  AnswersTell(t, m + 1, after)
<1>1. PICK n \in Nat : n = Len(s)
    OBVIOUS
<1>2. t \in Seq(Packet) /\ Len(t) = n + 1 /\ t[n + 1] = p /\ \A k \in 1..n : t[k] = s[k]
    BY <1>1, Appends
<1>3. /\ \A l \in 0..n : \A c : Opened(t, l, c) <=> Opened(s, l, c)
      /\ \A k \in 1..n : AnswersItsRequest(t, k) <=> AnswersItsRequest(s, k)
    BY <1>2, EarlierAnswers
<1>4. \A c : Opened(t, n, c) <=> Opened(s, n, c)
    BY <1>3
<1>5. /\ \A k \in 1..n : s[k].req \in 1..m /\ AnswersItsRequest(s, k)
      /\ \A c \in DOMAIN conn.reqs : Finds(c) => (c \in live <=> Opened(s, n, c)) /\ (c \in live => c <= m)
    BY <1>1 DEF AnswersTell
<1>6. \A k \in 1..(n + 1) : k = n + 1 \/ k \in 1..n
    OBVIOUS
<1>7. AnswersItsRequest(t, n + 1)
  <2>1. Continues(t, n + 1) <=> Kind(i) = "getMore" /\ Finds(CursorOf(i)) /\ CursorOf(i) \in live
    <3>1. n + 1 - 1 = n
        OBVIOUS
    <3>2. Continues(t, n + 1) <=> Kind(i) = "getMore" /\ Finds(CursorOf(i)) /\ Opened(t, n, CursorOf(i))
        BY <1>2, <3>1 DEF Continues
    <3> QED BY <1>4, <1>5, <3>2
  <2>2. Finds(CursorOf(i)) <=> Kind(CursorOf(i)) = "find"
      BY DEF Finds
  <2>3. Kind(i) # "getMore" => CursorOf(i) = i
      BY DEF CursorOf
  <2>4. Kind(i) = "find" => ~Opened(t, n, i)
    <3>1. ASSUME Kind(i) = "find" PROVE Finds(i) /\ i \in DOMAIN conn.reqs
        BY <2>3, <3>1 DEF Finds
    <3>2. ~(i <= m)
        OBVIOUS
    <3> QED BY <1>4, <1>5, <3>1, <3>2
  <2>5. n + 1 - 1 = n
      OBVIOUS
  <2> QED BY <1>2, <2>1, <2>2, <2>3, <2>4, <2>5 DEF AnswersItsRequest
<1>8. ASSUME NEW k \in 1..(n + 1)
      PROVE  t[k].req \in 1..(m + 1) /\ AnswersItsRequest(t, k)
  <2>1. CASE k = n + 1
      BY <1>2, <1>7, <2>1
  <2>2. CASE k \in 1..n
    <3>1. t[k] = s[k] /\ s[k].req \in 1..m /\ AnswersItsRequest(t, k)
        BY <1>2, <1>3, <1>5, <2>2
    <3> QED BY <3>1
  <2> QED BY <1>6, <2>1, <2>2
<1>9. ASSUME NEW k \in 1..(n + 1), NEW l \in 1..(n + 1), k # l,
             t[k].kind # "more", t[l].kind # "more"
      PROVE  t[k].req # t[l].req
  <2>1. \A j \in 1..n : t[j].req # m + 1
      BY <1>2, <1>5
  <2>2. CASE k \in 1..n /\ l \in 1..n
      BY <1>1, <1>2, <1>9, <2>2 DEF AnswersTell
  <2>3. CASE k = n + 1
      BY <1>2, <1>6, <1>9, <2>1, <2>3
  <2>4. CASE l = n + 1
      BY <1>2, <1>6, <1>9, <2>1, <2>4
  <2> QED BY <1>6, <2>2, <2>3, <2>4
<1>10. ASSUME NEW c \in DOMAIN conn.reqs, Finds(c)
       PROVE  (c \in after <=> Opened(t, n + 1, c)) /\ (c \in after => c <= m + 1)
  <2>1. OfCursor(t, n + 1, c) <=> Kind(i) \in {"find", "getMore"} /\ CursorOf(i) = c
      BY <1>2 DEF OfCursor
  <2>2. Opened(t, n + 1, c) <=> IF OfCursor(t, n + 1, c) THEN p.n[1] # 0 ELSE Opened(t, n, c)
      BY <1>2, OpenedNext
  <2>3. c \in live <=> Opened(t, n, c)
      BY <1>4, <1>5, <1>10
  <2>4. c \in after <=> Opened(t, n + 1, c)
      BY <1>10, <2>1, <2>2, <2>3
  <2>5. ASSUME c \in after PROVE c <= m + 1
    <3>1. c \in live \/ (Kind(i) \in {"find", "getMore"} /\ CursorOf(i) = c /\ p.n[1] # 0)
        BY <1>10, <2>5
    <3>2. c \in live \/ (Kind(i) = "find" /\ c = m + 1)
        BY <3>1 DEF CursorOf
    <3>3. c \in live => c <= m
        BY <1>5, <1>10
    <3> QED BY <3>2, <3>3
  <2> QED BY <2>4, <2>5
<1> QED BY <1>2, <1>8, <1>9, <1>10 DEF AnswersTell

\* and what comes after the reply to an internal one.
LEMMA MoreAdded ==
  ASSUME NEW s \in Seq(Packet), NEW m \in Nat, NEW live, AnswersTell(s, m, live),
         NEW p \in Packet, NEW t, t = Append(s, p), p.kind = "more", p.req = m, m # 0,
         Kind(m) = "internal", p.text = m, ~p.final, p.n[1] = 0
  PROVE  AnswersTell(t, m, live)
<1>1. PICK n \in Nat : n = Len(s)
    OBVIOUS
<1>2. t \in Seq(Packet) /\ Len(t) = n + 1 /\ t[n + 1] = p /\ \A k \in 1..n : t[k] = s[k]
    BY <1>1, Appends
<1>3. /\ \A l \in 0..n : \A c : Opened(t, l, c) <=> Opened(s, l, c)
      /\ \A k \in 1..n : AnswersItsRequest(t, k) <=> AnswersItsRequest(s, k)
    BY <1>2, EarlierAnswers
<1>4. \A k \in 1..n : s[k].req \in 1..m /\ AnswersItsRequest(s, k)
    BY <1>1 DEF AnswersTell
<1>5. \A k \in 1..(n + 1) : k = n + 1 \/ k \in 1..n
    OBVIOUS
<1>6. AnswersItsRequest(t, n + 1)
  <2>1. ~Continues(t, n + 1)
      BY <1>2 DEF Continues
  <2> QED BY <1>2, <2>1 DEF AnswersItsRequest
<1>7. ASSUME NEW k \in 1..(n + 1)
      PROVE  t[k].req \in 1..m /\ AnswersItsRequest(t, k)
  <2>1. CASE k = n + 1
      BY <1>2, <1>6, <2>1
  <2>2. CASE k \in 1..n
      BY <1>2, <1>3, <1>4, <2>2
  <2> QED BY <1>5, <2>1, <2>2
<1>8. ASSUME NEW k \in 1..(n + 1), NEW l \in 1..(n + 1), k # l,
             t[k].kind # "more", t[l].kind # "more"
      PROVE  t[k].req # t[l].req
  <2>1. k \in 1..n /\ l \in 1..n
      BY <1>2, <1>5, <1>8
  <2> QED BY <1>1, <1>2, <1>8, <2>1 DEF AnswersTell
<1>9. \A c : Opened(t, n + 1, c) <=> Opened(s, n, c)
  <2>1. TAKE c
  <2>2. ~OfCursor(t, n + 1, c)
      BY <1>2 DEF OfCursor
  <2>3. Opened(t, n, c) <=> Opened(s, n, c)
      BY <1>3
  <2> QED BY <2>2, <2>3, OpenedNext
<1>10. \A c \in DOMAIN conn.reqs : Finds(c) =>
            (c \in live <=> Opened(t, n + 1, c)) /\ (c \in live => c <= m)
    BY <1>1, <1>9 DEF AnswersTell
<1> QED BY <1>2, <1>7, <1>8, <1>10 DEF AnswersTell

\* The requests do not change, nor what is said of answers to them.
LEMMA AnswersStay ==
  ASSUME conn' = conn
  PROVE  /\ \A i : Kind(i)' = Kind(i) /\ CursorOf(i)' = CursorOf(i) /\ (Finds(i)' <=> Finds(i))
         /\ \A s, n, c : Opened(s, n, c)' <=> Opened(s, n, c)
         /\ \A s, k : AnswersItsRequest(s, k)' <=> AnswersItsRequest(s, k)
         /\ \A s, m, live : AnswersTell(s, m, live)' <=> AnswersTell(s, m, live)
<1>1. \A i : Kind(i)' = Kind(i)
    BY DEF Kind
<1>2. \A i : CursorOf(i)' = CursorOf(i)
    BY <1>1 DEF CursorOf
<1>3. \A i : Finds(i)' <=> Finds(i)
    BY <1>1 DEF Finds
<1>4. \A s, k, c : OfCursor(s, k, c)' <=> OfCursor(s, k, c)
    BY <1>1, <1>2 DEF OfCursor
<1>5. \A s, n, c : Opened(s, n, c)' <=> Opened(s, n, c)
    BY <1>4 DEF Opened
<1>6. \A s, k : Continues(s, k)' <=> Continues(s, k)
    BY <1>1, <1>2, <1>3, <1>5 DEF Continues
<1>7. \A s, k : AnswersItsRequest(s, k)' <=> AnswersItsRequest(s, k)
    BY <1>1, <1>2, <1>3, <1>5, <1>6 DEF AnswersItsRequest
<1>8. \A s, m, live : AnswersTell(s, m, live)' <=> AnswersTell(s, m, live)
    BY <1>3, <1>5, <1>7 DEF AnswersTell
<1> QED BY <1>1, <1>2, <1>3, <1>5, <1>7, <1>8

\* The server answers.
LEMMA MongoServed ==
  ASSUME Wire!Is("mongo"), Wire!ScriptsTyped, MongoTyped, MongoAnswersTell, Wire!Serve
  PROVE  /\ MongoAnswersTell' /\ answers' \in Seq(Packet) /\ Len(answers') >= Len(answers)
         /\ \A k \in 1..Len(answers) : answers'[k] = answers[k]
<1>0. PICK i \in Nat : i = served + 1
    BY DEF MongoTyped
<1>1. /\ conn' = conn /\ served' = i /\ served \in Nat /\ conn \in Scripts /\ conn.proto = "mongo"
      /\ i \in 1..Len(conn.reqs) /\ answers \in Seq(Packet)
    BY <1>0 DEF Wire!Serve, MongoTyped, Wire!Is
<1>2. i \in DOMAIN conn.reqs /\ DOMAIN conn.reqs \subseteq Nat
    BY <1>1, MongoScript
<1>3. PICK n \in Nat : n = Len(answers)
    BY <1>1
<1>5. PICK t, live, after : t = answers' /\ live = srv.live /\ after = srv'.live
    OBVIOUS
<1>6. AnswersTell(answers, served, live)
    BY <1>5 DEF MongoAnswersTell
<1>7. CursorOf(i) \in DOMAIN conn.reqs
    BY <1>1, <1>2, MongoScript DEF CursorOf, Kind
<1>10. AnswersTell(t, i, after) => MongoAnswersTell'
  <2>1. AnswersTell(t, i, after)' => MongoAnswersTell'
      BY <1>1, <1>5 DEF MongoAnswersTell
  <2> QED BY <1>1, <2>1, AnswersStay
<1>8. CASE Kind(i) # "internal"
  <2>1. PICK p \in Packet : t = Append(answers, p) /\ IsAnswer(i, p, live, after)
    <3>1. \E p \in Packet : answers' = Append(answers, p) /\ IsAnswer(i, p, srv.live, srv'.live)
        BY <1>0, <1>8, MongoServes
    <3> QED BY <1>5, <3>1
  <2>2. ASSUME NEW c, Finds(c)
        PROVE  c \in after <=>
                   IF Kind(i) \in {"find", "getMore"} /\ CursorOf(i) = c THEN p.n[1] # 0 ELSE c \in live
    <3>1. CASE Kind(i) \in {"find", "getMore"}
        BY <2>1, <3>1 DEF IsAnswer
    <3>2. CASE Kind(i) \notin {"find", "getMore"}
      <4>1. CursorOf(i) # c
          BY <2>2, <3>2 DEF CursorOf, Finds
      <4> QED BY <2>1, <3>2, <4>1 DEF IsAnswer
    <3> QED BY <3>1, <3>2
  <2>3. AnswersTell(t, i, after)
    <3>1. p.final <=> Kind(i) # "internal" /\ ~(p.n[1] # 0 /\ Kind(CursorOf(i)) = "find")
        BY <1>8, <2>1 DEF IsAnswer
    <3>2. AnswersTell(t, served + 1, after)
        BY <1>0, <1>1, <1>2, <1>6, <1>7, <2>1, <2>2, <3>1, AnswerAdded DEF IsAnswer
    <3> QED BY <1>0, <3>2
  <2>4. t \in Seq(Packet) /\ Len(t) = n + 1 /\ \A k \in 1..n : t[k] = answers[k]
      BY <1>1, <1>3, <2>1, Appends
  <2> QED BY <1>3, <1>5, <1>10, <2>3, <2>4
<1>9. CASE Kind(i) = "internal"
  <2>1. PICK p \in Packet, q \in Packet :
            /\ t = Append(Append(answers, p), q) /\ after = live
            /\ p.kind = "reply" /\ p.req = i /\ p.text = i /\ ~p.final /\ p.n[1] = 0
            /\ q.kind = "more" /\ q.req = i /\ q.text = i /\ ~q.final /\ q.n[1] = 0
      BY <1>0, <1>5, <1>9, MongoServesInternal
  <2>2. PICK s : s = Append(answers, p)
      OBVIOUS
  <2>3. s \in Seq(Packet) /\ Len(s) = n + 1 /\ \A k \in 1..n : s[k] = answers[k]
      BY <1>1, <1>3, <2>2, Appends
  <2>4. AnswersTell(s, i, live)
    <3>1. \A c : Finds(c) => (c \in live <=>
                   IF Kind(i) \in {"find", "getMore"} /\ CursorOf(i) = c THEN p.n[1] # 0 ELSE c \in live)
        BY <1>9
    <3> QED BY <1>0, <1>1, <1>2, <1>6, <1>7, <1>9, <2>1, <2>2, <3>1, AnswerAdded DEF IsAnswer
  <2>5. AnswersTell(t, i, after)
    <3>1. i # 0
        BY <1>0, <1>1
    <3> QED BY <1>9, <2>1, <2>2, <2>3, <2>4, <3>1, MoreAdded
  <2>6. t \in Seq(Packet) /\ Len(t) = n + 2 /\ \A k \in 1..(n + 1) : t[k] = s[k]
      BY <2>1, <2>2, <2>3, Appends
  <2>7. \A k \in 1..n : t[k] = answers[k]
      BY <2>3, <2>6
  <2> QED BY <1>3, <1>5, <1>10, <2>5, <2>6, <2>7
<1> QED BY <1>8, <1>9

\* What reading an answer makes of the cursors and logs.
MongoQueried(p, r) ==
    LET next == p.n[1]
        acc == px.cursors[r.name]
        opens == r.kind = "find" /\ next # 0 /\ p.kind = "batch"
        continues == r.kind = "getMore" /\ acc # Wire!NoCursor
        rows == IF p.kind = "batch" THEN {Wire!Row(p, TRUE)} ELSE {}
        all == IF p.kind = "batch" THEN acc.rows \cup {Wire!Row(p, TRUE)} ELSE acc.rows
    IN  /\ px'.pending = px.pending \ {p.req}
        /\ px' = [pending |-> px'.pending, cursors |-> px'.cursors, log |-> px'.log]
        /\ opens =>
              /\ px'.cursors = [px.cursors EXCEPT ![next] = [text |-> p.req, rows |-> rows]]
              /\ px'.log = px.log
        /\ continues /\ next = 0 =>
              /\ px'.cursors = [px.cursors EXCEPT ![r.name] = Wire!NoCursor]
              /\ px'.log = Append(px.log, Wire!Entry(acc.text, p, all))
        /\ continues /\ next # 0 =>
              /\ px'.cursors = [[px.cursors EXCEPT ![r.name] = Wire!NoCursor]
                                  EXCEPT ![next] = [acc EXCEPT !.rows = all]]
              /\ px'.log = px.log
        /\ ~opens /\ ~continues =>
              /\ px'.cursors = px.cursors
              /\ px'.log = Append(px.log, Wire!Entry(p.req, p, rows))

\* Both a find that goes on and the end of one go through it.
LEMMA MongoQuery ==
  ASSUME px \in MongoPxType, NEW p, NEW r, p.kind # "more", p.req \in px.pending,
         px' = Wire!MongoPacket(px, p, r)
  PROVE  MongoQueried(p, r)
<1> DEFINE m == [px EXCEPT !.pending = @ \ {p.req}]
<1>1. px' = Wire!MongoLogQuery(m, p, r, p.req)
    BY DEF Wire!MongoPacket
<1>2. m.pending = px.pending \ {p.req} /\ m.cursors = px.cursors /\ m.log = px.log
      /\ m \in [pending : SUBSET Nat, cursors : [Names -> CursorType], log : Seq(LogType)]
    BY MongoPx DEF MongoPxType
<1> HIDE DEF m
<1> DEFINE next == p.n[1]
           acc == px.cursors[r.name]
           opens == r.kind = "find" /\ next # 0 /\ p.kind = "batch"
           continues == r.kind = "getMore" /\ acc # Wire!NoCursor
           rows == IF p.kind = "batch" THEN {Wire!Row(p, TRUE)} ELSE {}
           all == IF p.kind = "batch" THEN acc.rows \cup {Wire!Row(p, TRUE)} ELSE acc.rows
           with == [acc EXCEPT !.rows = IF p.kind = "batch" THEN @ \cup {Wire!Row(p, TRUE)} ELSE @]
<1>3. with = [acc EXCEPT !.rows = all]
    OBVIOUS
<1>4. CASE opens
  <2>1. px' = [m EXCEPT !.cursors[next] = [text |-> p.req, rows |-> {Wire!Row(p, TRUE)}]]
      BY <1>1, <1>4 DEF Wire!MongoLogQuery
  <2> QED BY <1>2, <1>4, <2>1 DEF MongoQueried
<1>5. CASE continues /\ next = 0
  <2>1. px' = [m EXCEPT !.cursors[r.name] = Wire!NoCursor,
                        !.log = Append(m.log, Wire!Entry(acc.text, p, with.rows))]
      BY <1>1, <1>2, <1>5 DEF Wire!MongoLogQuery
  <2>2. with.rows = all
      BY <1>2
  <2> DEFINE cs == [m.cursors EXCEPT ![r.name] = Wire!NoCursor]
             s == Append(m.log, Wire!Entry(acc.text, p, with.rows))
  <2>3. px' = [m EXCEPT !.cursors = cs, !.log = s]
      BY <2>1
  <2> HIDE DEF cs, s
  <2>4. px'.pending = m.pending /\ px'.cursors = cs /\ px'.log = s
        /\ px' = [pending |-> px'.pending, cursors |-> px'.cursors, log |-> px'.log]
      BY <1>2, <2>3
  <2> QED BY <1>2, <1>5, <2>2, <2>4 DEF cs, s, MongoQueried
<1>6. CASE continues /\ next # 0
  <2>1. px' = [m EXCEPT !.cursors = [m.cursors EXCEPT ![r.name] = Wire!NoCursor, ![next] = with]]
      BY <1>1, <1>2, <1>6 DEF Wire!MongoLogQuery
  <2> QED BY <1>2, <1>3, <1>6, <2>1 DEF MongoQueried
<1>7. CASE ~opens /\ ~continues
  <2>1. px' = [m EXCEPT !.log = Append(m.log, Wire!Entry(p.req, p, rows))]
      BY <1>1, <1>2, <1>7 DEF Wire!MongoLogQuery
  <2> QED BY <1>2, <1>7, <2>1 DEF MongoQueried
<1> QED BY <1>4, <1>5, <1>6, <1>7

\* A log of one that was not answered finally is added.
LEMMA MongoLogAdded ==
  ASSUME px \in MongoPxType, MongoLogs, NEW e \in LogType, e.text = e.answer,
         e.rows \subseteq {[text |-> e.answer, ok |-> TRUE]},
         px'.log = Append(px.log, e), e.by \notin Final, Final' = Final \cup {e.by}
  PROVE  MongoLogs'
<1>1. PICK m \in Nat : m = Len(px.log)
    BY MongoPx
<1>2. Len(px'.log) = m + 1 /\ px'.log[m + 1] = e /\ \A j \in 1..m : px'.log[j] = px.log[j]
    BY <1>1, MongoPx, Appends
<1>3. \A j \in 1..m : px.log[j].by \in Nat /\ px.log[j].by \in Final
    BY <1>1, MongoPx DEF MongoLogs
<1>4. \A j \in 1..(m + 1) : j = m + 1 \/ j \in 1..m
    OBVIOUS
<1>5. e.by \in Nat
    BY DEF LogType
<1>6. ASSUME NEW j \in 1..(m + 1)
      PROVE  /\ px'.log[j].text = px'.log[j].answer /\ px'.log[j].by \in Final'
             /\ px'.log[j].rows \subseteq {[text |-> px'.log[j].answer, ok |-> TRUE]}
  <2>1. CASE j = m + 1
      BY <1>2, <1>5, <2>1
  <2>2. CASE j \in 1..m
    <3>1. px'.log[j] = px.log[j] /\ px.log[j].by \in Nat /\ px.log[j].by \in Final
        BY <1>2, <1>3, <2>2
    <3>2. /\ px.log[j].text = px.log[j].answer
          /\ px.log[j].rows \subseteq {[text |-> px.log[j].answer, ok |-> TRUE]}
        BY <1>1, <2>2 DEF MongoLogs
    <3> QED BY <3>1, <3>2
  <2> QED BY <1>4, <2>1, <2>2
<1>7. ASSUME NEW i \in 1..(m + 1), NEW j \in 1..(m + 1), i # j
      PROVE  px'.log[i].by # px'.log[j].by
  <2>1. CASE i \in 1..m /\ j \in 1..m
      BY <1>1, <1>2, <1>7, <2>1 DEF MongoLogs
  <2>2. CASE i = m + 1
      BY <1>2, <1>3, <1>4, <1>7, <2>2
  <2>3. CASE j = m + 1
      BY <1>2, <1>3, <1>4, <1>7, <2>3
  <2> QED BY <1>4, <2>1, <2>2, <2>3
<1>8. ASSUME NEW i \in Final'
      PROVE  \E j \in 1..(m + 1) : px'.log[j].by = i
  <2>1. CASE i = e.by
      BY <1>2, <2>1
  <2>2. CASE i \in Final
    <3>1. PICK j \in 1..m : px.log[j].by = i
        BY <1>1, <2>2 DEF MongoLogs
    <3> QED BY <1>2, <3>1
  <2> QED BY <1>8, <2>1, <2>2
<1> QED BY <1>2, <1>6, <1>7, <1>8 DEF MongoLogs

\* No log is added.
LEMMA MongoLogsStay ==
  ASSUME MongoLogs, px'.log = px.log, Final' = Final
  PROVE  MongoLogs'
BY DEF MongoLogs

\* One more answer is final, or none.
LEMMA FinalNext ==
  ASSUME NEW r \in Nat, read = r, read' = r + 1, answers' = answers
  PROVE  Final' = IF answers[r + 1].final THEN Final \cup {answers[r + 1].req} ELSE Final
<1>1. 1..(r + 1) = 1..r \cup {r + 1}
    OBVIOUS
<1> QED BY <1>1 DEF Final

\* What the proxy makes of the answer it reads, and of its cursors, is what the
\* server means by it.
LEMMA MongoRead ==
  ASSUME Wire!ScriptsTyped, conn.proto = "mongo", MongoTyped, MongoAnswersTell, MongoWaits,
         CursorsKnown, MongoLogs, NEW r \in Nat, read = r, r < Len(answers), read' = r + 1,
         NEW p \in Packet, p = answers[r + 1], px' = Wire!MongoPacket(px, p, conn.reqs[p.req]),
         UNCHANGED <<conn, answers>>, p.kind # "more", p.req \in px.pending
  PROVE  px' \in MongoPxType /\ CursorsTell(px'.cursors, answers, r + 1) /\ MongoLogs'
         /\ px'.pending = px.pending \ {p.req}
<1> DEFINE i == p.req
           c == CursorOf(i)
           next == p.n[1]
           acc == px.cursors[conn.reqs[i].name]
           row == [text |-> p.text, ok |-> TRUE]
           rows == IF p.kind = "batch" THEN {row} ELSE {}
           all == IF p.kind = "batch" THEN acc.rows \cup {row} ELSE acc.rows
           no == [text |-> 0, rows |-> {}]
           opens == Kind(i) = "find" /\ next # 0 /\ p.kind = "batch"
           continues == Kind(i) = "getMore" /\ acc # no
           Log(text, rs) == [text |-> text, by |-> i, answer |-> p.text, rows |-> rs]
<1>1. /\ px \in MongoPxType /\ conn \in Scripts /\ answers \in Seq(Packet) /\ r + 1 \in 1..Len(answers)
      /\ i \in Nat /\ p.text \in Nat /\ served <= seen /\ served \in Nat /\ seen \in Nat
  <2>1. /\ px \in MongoPxType /\ conn \in Scripts /\ answers \in Seq(Packet) /\ r + 1 \in 1..Len(answers)
        /\ served <= seen /\ served \in Nat /\ seen \in Nat
      BY DEF MongoTyped
  <2>2. \A x \in Packet : x.req \in Nat /\ x.text \in Nat
      BY DEF Packet
  <2> QED BY <2>1, <2>2
<1>2. /\ px.pending \subseteq Nat /\ px.cursors \in [Names -> CursorType] /\ px.log \in Seq(LogType)
    BY <1>1, MongoPx
<1>3. /\ i \in 1..served /\ AnswersItsRequest(answers, r + 1)
    BY <1>1 DEF MongoAnswersTell, AnswersTell
<1>4. Kind(i) # "internal" /\ \A k \in 1..r : answers[k].req # i
    BY DEF MongoWaits
<1>5. served <= Len(conn.reqs)
    BY DEF MongoTyped
<1>6. /\ DOMAIN conn.reqs = 1..Len(conn.reqs) /\ DOMAIN conn.reqs \subseteq Nat \ {0}
      /\ DOMAIN conn.reqs \subseteq Names /\ Len(conn.reqs) \in Nat
    BY <1>1, MongoScript
<1>7. i \in DOMAIN conn.reqs
    BY <1>1, <1>3, <1>5, <1>6
<1>8. /\ Kind(i) \in {"find", "aggregate", "getMore", "command"}
      /\ Kind(i) = "getMore" => conn.reqs[i].name = c /\ c \in DOMAIN conn.reqs
      /\ Kind(i) = "find" => c = i
    BY <1>1, <1>4, <1>7, MongoScript DEF Kind, CursorOf
<1>9. /\ p.text = IF Continues(answers, r + 1) THEN c ELSE i
      /\ next \in {0, c} /\ (next # 0 => p.kind = "batch")
      /\ Kind(i) = "find" => ~Opened(answers, r, i)
      /\ Kind(i) = "getMore" /\ Finds(c) /\ next # 0 => Continues(answers, r + 1)
      /\ p.final <=> ~(next # 0 /\ (Kind(i) = "find" \/ Continues(answers, r + 1)))
  <2>1. r + 1 - 1 = r
      OBVIOUS
  <2> QED BY <1>3, <1>4, <2>1 DEF AnswersItsRequest
<1>10. Continues(answers, r + 1) <=> Kind(i) = "getMore" /\ Finds(c) /\ Opened(answers, r, c)
  <2>1. r + 1 - 1 = r
      OBVIOUS
  <2> QED BY <2>1 DEF Continues
<1>11. \A d \in Names : IF Finds(d) /\ Opened(answers, r, d)
            THEN px.cursors[d].text = d /\ px.cursors[d].rows \subseteq {[text |-> d, ok |-> TRUE]}
            ELSE px.cursors[d] = no
    BY DEF CursorsKnown, CursorsTell
<1>12. \A d : Finds(d) => (Opened(answers, r + 1, d) <=>
            IF Kind(i) \in {"find", "getMore"} /\ c = d THEN next # 0 ELSE Opened(answers, r, d))
    BY OpenedNext DEF OfCursor
<1>13. /\ px'.pending = px.pending \ {i}
       /\ px' = [pending |-> px'.pending, cursors |-> px'.cursors, log |-> px'.log]
       /\ opens => px'.cursors = [px.cursors EXCEPT ![next] = [text |-> i, rows |-> rows]]
                   /\ px'.log = px.log
       /\ continues /\ next = 0 => px'.cursors = [px.cursors EXCEPT ![conn.reqs[i].name] = no]
                   /\ px'.log = Append(px.log, Log(acc.text, all))
       /\ continues /\ next # 0 =>
                   /\ px'.cursors = [[px.cursors EXCEPT ![conn.reqs[i].name] = no]
                                       EXCEPT ![next] = [acc EXCEPT !.rows = all]]
                   /\ px'.log = px.log
       /\ ~opens /\ ~continues =>
                   px'.cursors = px.cursors /\ px'.log = Append(px.log, Log(i, rows))
  <2>1. MongoQueried(p, conn.reqs[i])
      BY <1>1, MongoQuery
  <2> QED BY <2>1 DEF MongoQueried, Kind, Wire!NoCursor, Wire!Row, Wire!Entry
<1>14. Final' = IF p.final THEN Final \cup {i} ELSE Final
    BY FinalNext
<1>15. i \notin Final
    BY <1>4 DEF Final
<1>16. row \in [text : Nat, ok : BOOLEAN]
    BY <1>1
<1>17. no \in CursorType /\ row \in {[text |-> p.text, ok |-> TRUE]}
    BY <1>1 DEF CursorType
<1> HIDE DEF row, no, Log
<1>18. \A cs, s : px'.cursors = cs /\ px'.log = s /\ cs \in [Names -> CursorType] /\ s \in Seq(LogType)
            => px' \in MongoPxType
    BY <1>2, <1>13 DEF MongoPxType
<1>19. ASSUME NEW text \in Nat, text = p.text, NEW rs, rs \subseteq {row}, p.final,
              px'.log = Append(px.log, Log(text, rs))
       PROVE  MongoLogs' /\ px'.log \in Seq(LogType)
  <2>1. rs \subseteq [text : Nat, ok : BOOLEAN] /\ rs \subseteq {[text |-> p.text, ok |-> TRUE]}
      BY <1>16, <1>17, <1>19
  <2>2. PICK e : e = Log(text, rs)
      OBVIOUS
  <2>3. e \in LogType /\ e.by = i /\ e.text = e.answer /\ e.rows \subseteq {[text |-> e.answer, ok |-> TRUE]}
      BY <1>1, <1>19, <2>1, <2>2 DEF Log, LogType
  <2>4. px'.log = Append(px.log, e)
      BY <1>19, <2>2
  <2>5. MongoLogs'
      BY <1>1, <1>14, <1>15, <1>19, <2>3, <2>4, MongoLogAdded
  <2> QED BY <1>2, <2>3, <2>4, <2>5
<1>20. ASSUME ~p.final, px'.log = px.log
       PROVE  MongoLogs' /\ px'.log \in Seq(LogType)
    BY <1>2, <1>14, <1>20, MongoLogsStay
<1>21. ASSUME px'.cursors = px.cursors,
              \A d \in Names : Finds(d) => (Opened(answers, r + 1, d) <=> Opened(answers, r, d))
       PROVE  CursorsTell(px'.cursors, answers, r + 1) /\ px'.cursors \in [Names -> CursorType]
    BY <1>2, <1>11, <1>21 DEF CursorsTell, no
<1>22. CASE Kind(i) = "find" /\ next # 0
  <2>1. opens /\ next = i /\ c = i /\ ~continues /\ Finds(i) /\ i \in Names /\ rows = {row}
      BY <1>6, <1>7, <1>8, <1>9, <1>22 DEF Finds
  <2>2. p.text = i /\ ~p.final
      BY <1>8, <1>9, <1>10, <1>22
  <2>3. px'.cursors = [px.cursors EXCEPT ![i] = [text |-> i, rows |-> {row}]] /\ px'.log = px.log
      BY <1>13, <2>1
  <2>4. row = [text |-> i, ok |-> TRUE]
      BY <2>2 DEF row
  <2>5. PICK cur \in CursorType : cur = [text |-> i, rows |-> {row}]
      BY <1>1, <1>16 DEF CursorType
  <2>6. px'.cursors \in [Names -> CursorType]
      BY <1>2, <2>3, <2>5
  <2>7. ASSUME NEW d \in Names
        PROVE  IF Finds(d) /\ Opened(answers, r + 1, d)
               THEN px'.cursors[d].text = d /\ px'.cursors[d].rows \subseteq {[text |-> d, ok |-> TRUE]}
               ELSE px'.cursors[d] = no
    <3>1. CASE d = i
      <4>1. Opened(answers, r + 1, d) /\ Finds(d)
          BY <1>12, <1>22, <2>1, <3>1
      <4>2. px'.cursors[d].text = d /\ px'.cursors[d].rows = {row}
          BY <1>2, <2>1, <2>3, <3>1
      <4> QED BY <2>4, <3>1, <4>1, <4>2
    <3>2. CASE d # i
      <4>1. px'.cursors[d] = px.cursors[d]
          BY <1>2, <2>3, <3>2
      <4>2. Finds(d) => (Opened(answers, r + 1, d) <=> Opened(answers, r, d))
          BY <1>12, <2>1, <3>2
      <4> QED BY <1>11, <4>1, <4>2
    <3> QED BY <3>1, <3>2
  <2>8. CursorsTell(px'.cursors, answers, r + 1)
      BY <2>7 DEF CursorsTell, no
  <2> QED BY <1>13, <1>18, <1>20, <2>2, <2>3, <2>6, <2>8
<1>23. CASE continues
  <2>1. /\ Kind(i) = "getMore" /\ conn.reqs[i].name = c /\ c \in Names /\ acc = px.cursors[c]
        /\ Finds(c) /\ Opened(answers, r, c) /\ c \in Nat
      BY <1>6, <1>8, <1>11, <1>23
  <2>2. Continues(answers, r + 1) /\ p.text = c /\ (p.final <=> next = 0) /\ ~opens
      BY <1>9, <1>10, <2>1
  <2>3. acc.text = c /\ acc.rows \subseteq {[text |-> c, ok |-> TRUE]} /\ acc \in CursorType
      BY <1>2, <1>11, <2>1
  <2>4. row = [text |-> c, ok |-> TRUE]
      BY <2>2 DEF row
  <2>5. all \subseteq {row}
      BY <2>3, <2>4
  <2> DEFINE left == [acc EXCEPT !.rows = all]
  <2>6. left.text = c /\ left.rows = all /\ left \in CursorType
      BY <1>16, <2>3, <2>5 DEF CursorType
  <2> HIDE DEF all, left
  <2>7. px'.cursors = [px.cursors EXCEPT ![c] = IF next = 0 THEN no ELSE left]
    <3>1. CASE next = 0
        BY <1>13, <1>23, <2>1, <3>1
    <3>2. CASE next # 0
      <4>1. next = c
          BY <1>9, <3>2
      <4>2. px'.cursors = [[px.cursors EXCEPT ![c] = no] EXCEPT ![c] = left]
          BY <1>13, <1>23, <2>1, <3>2, <4>1 DEF left, all
      <4> QED BY <1>2, <3>2, <4>2
    <3> QED BY <3>1, <3>2
  <2>8. px'.cursors \in [Names -> CursorType]
      BY <1>2, <1>17, <2>6, <2>7
  <2>9. ASSUME NEW d \in Names
        PROVE  IF Finds(d) /\ Opened(answers, r + 1, d)
               THEN px'.cursors[d].text = d /\ px'.cursors[d].rows \subseteq {[text |-> d, ok |-> TRUE]}
               ELSE px'.cursors[d] = no
    <3>1. CASE d = c
      <4>1. Opened(answers, r + 1, d) <=> next # 0
          BY <1>12, <2>1, <3>1
      <4>2. px'.cursors[d] = IF next = 0 THEN no ELSE left
          BY <1>2, <2>1, <2>7, <3>1
      <4> QED BY <2>1, <2>4, <2>5, <2>6, <3>1, <4>1, <4>2
    <3>2. CASE d # c
      <4>1. px'.cursors[d] = px.cursors[d]
          BY <1>2, <2>7, <3>2
      <4>2. Finds(d) => (Opened(answers, r + 1, d) <=> Opened(answers, r, d))
          BY <1>12, <3>2
      <4> QED BY <1>11, <4>1, <4>2
    <3> QED BY <3>1, <3>2
  <2>10. CursorsTell(px'.cursors, answers, r + 1)
      BY <2>9 DEF CursorsTell, no
  <2>11. MongoLogs' /\ px'.log \in Seq(LogType)
    <3>1. CASE next = 0
      <4>1. px'.log = Append(px.log, Log(c, all))
          BY <1>13, <1>23, <2>3, <3>1 DEF all
      <4> QED BY <1>19, <2>1, <2>2, <2>5, <3>1, <4>1
    <3>2. CASE next # 0
      <4>1. px'.log = px.log
          BY <1>13, <1>23, <3>2
      <4> QED BY <1>20, <2>2, <3>2, <4>1
    <3> QED BY <3>1, <3>2
  <2> QED BY <1>13, <1>18, <2>8, <2>10, <2>11
<1>24. CASE ~(Kind(i) = "find" /\ next # 0) /\ ~continues
  <2>1. px'.cursors = px.cursors /\ px'.log = Append(px.log, Log(i, rows))
      BY <1>13, <1>24
  <2>2. ~Continues(answers, r + 1)
    <3>1. ASSUME Continues(answers, r + 1) PROVE FALSE
      <4>1. Kind(i) = "getMore" /\ Finds(c) /\ Opened(answers, r, c) /\ c \in Names /\ c # 0
            /\ acc = px.cursors[c]
          BY <1>6, <1>8, <1>10, <3>1
      <4>2. acc.text = c
          BY <1>11, <4>1
      <4>3. acc = no
          BY <1>24, <4>1
      <4> QED BY <4>1, <4>2, <4>3 DEF no
    <3> QED BY <3>1
  <2>3. p.text = i /\ p.final
      BY <1>9, <1>24, <2>2
  <2>4. ASSUME NEW d \in Names, Finds(d)
        PROVE  Opened(answers, r + 1, d) <=> Opened(answers, r, d)
    <3>1. CASE Kind(i) = "find" /\ c = d
        BY <1>8, <1>9, <1>12, <1>24, <2>4, <3>1
    <3>2. CASE Kind(i) = "getMore" /\ c = d
        BY <1>9, <1>10, <1>12, <2>2, <2>4, <3>2
    <3>3. CASE ~(Kind(i) \in {"find", "getMore"} /\ c = d)
        BY <1>12, <2>4, <3>3
    <3> QED BY <3>1, <3>2, <3>3
  <2>5. rows \subseteq {row}
      OBVIOUS
  <2>6. MongoLogs' /\ px'.log \in Seq(LogType)
      BY <1>1, <1>19, <2>1, <2>3, <2>5
  <2>7. CursorsTell(px'.cursors, answers, r + 1) /\ px'.cursors \in [Names -> CursorType]
      BY <1>21, <2>1, <2>4
  <2> QED BY <1>13, <1>18, <2>6, <2>7
<1> QED BY <1>22, <1>23, <1>24

\* The same of every answer: one to an internal request, and what follows it,
\* is relayed unread.
LEMMA MongoReads ==
  ASSUME Wire!ScriptsTyped, conn.proto = "mongo", MongoTyped, MongoAnswersTell, MongoWaits,
         CursorsKnown, MongoLogs, NEW r \in Nat, read = r, r < Len(answers), read' = r + 1,
         px' = Wire!MongoPacket(px, answers[r + 1], conn.reqs[answers[r + 1].req]),
         UNCHANGED <<conn, seen, answers>>
  PROVE  px' \in MongoPxType /\ MongoWaits' /\ CursorsKnown' /\ MongoLogs'
<1>1. PICK p \in Packet : p = answers[r + 1]
  <2>1. r + 1 \in 1..Len(answers) /\ answers \in Seq(Packet)
      BY DEF MongoTyped
  <2> QED BY <2>1
<1>2. /\ px \in MongoPxType /\ served <= seen /\ served \in Nat /\ seen \in Nat
      /\ r + 1 \in 1..Len(answers) /\ Len(answers) \in Nat
    BY DEF MongoTyped
<1>3. /\ p.req \in 1..served /\ AnswersItsRequest(answers, r + 1)
      /\ \A k \in 1..r : p.kind # "more" /\ answers[k].kind # "more" => answers[k].req # p.req
      /\ \A k \in 1..Len(answers) : AnswersItsRequest(answers, k)
    BY <1>1, <1>2 DEF MongoAnswersTell, AnswersTell
<1>4. \A k \in 1..Len(answers) : answers[k].kind = "more" => Kind(answers[k].req) = "internal"
    BY <1>3 DEF AnswersItsRequest
<1>5. p.req \in px.pending \/ Kind(p.req) = "internal"
  <2>1. ASSUME p.req \notin px.pending, Kind(p.req) # "internal" PROVE FALSE
    <3>1. p.req \in 1..seen
        BY <1>2, <1>3
    <3>2. PICK k \in 1..r : answers[k].req = p.req
        BY <2>1, <3>1 DEF MongoWaits
    <3>3. answers[k].kind = "more" \/ p.kind = "more"
        BY <1>3, <3>2
    <3>4. k \in 1..Len(answers)
        BY <1>2
    <3> QED BY <1>1, <1>2, <1>4, <2>1, <3>2, <3>3, <3>4
  <2> QED BY <2>1
<1>6. 1..(r + 1) = 1..r \cup {r + 1}
    OBVIOUS
<1>7. ASSUME px'.pending = px.pending \ {p.req}
      PROVE  MongoWaits'
  <2>1. px'.pending = {i \in 1..seen : Kind(i) # "internal" /\ \A k \in 1..(r + 1) : answers[k].req # i}
      BY <1>1, <1>6, <1>7 DEF MongoWaits
  <2>2. \A i : Kind(i)' = Kind(i)
      BY AnswersStay
  <2> QED BY <2>1, <2>2 DEF MongoWaits
<1>8. CursorsTell(px'.cursors, answers, r + 1) => CursorsKnown'
    BY AnswersStay DEF CursorsKnown, CursorsTell
<1>9. CASE p.kind # "more" /\ p.req \in px.pending
  <2>1. px' \in MongoPxType /\ CursorsTell(px'.cursors, answers, r + 1) /\ MongoLogs'
         /\ px'.pending = px.pending \ {p.req}
      BY <1>1, <1>9, MongoRead
  <2> QED BY <1>7, <1>8, <2>1
<1>10. CASE p.kind = "more" \/ p.req \notin px.pending
  <2>1. px' = px
      BY <1>1, <1>10 DEF Wire!MongoPacket
  <2>2. Kind(p.req) = "internal"
      BY <1>1, <1>2, <1>4, <1>5, <1>10
  <2>3. p.req \notin px.pending
      BY <2>2 DEF MongoWaits
  <2>4. MongoWaits'
      BY <1>7, <2>1, <2>3
  <2>5. \A c : Opened(answers, r + 1, c) <=> Opened(answers, r, c)
      BY <1>1, <2>2, OpenedNext DEF OfCursor
  <2>6. CursorsTell(px'.cursors, answers, r + 1)
      BY <2>1, <2>5 DEF CursorsKnown, CursorsTell
  <2>7. ~p.final
      BY <1>1, <1>3, <2>2 DEF AnswersItsRequest
  <2>8. Final' = Final
      BY <1>1, <2>7, FinalNext
  <2> QED BY <1>2, <1>8, <2>1, <2>4, <2>6, <2>8, MongoLogsStay
<1> QED BY <1>9, <1>10

\* The client never takes back what it has sent.
LEMMA MongoOffers ==
  ASSUME Wire!Is("mongo"), Wire!ScriptsTyped, RelayInv, MongoTyped, [Wire!Next]_Wire!vars
  PROVE  offered' \in Nat /\ seen' <= offered' /\ offered' <= Len(conn.reqs)
<1>0. ~Wire!IsBroker /\ ~Wire!Is("redis") /\ ~Wire!Is("amqp") /\ conn.proto = "mongo"
    BY DEF Wire!Is, Wire!IsBroker, Wire!Brokers
<1>1. seen \in Nat /\ offered \in Nat /\ seen <= offered /\ offered <= Len(conn.reqs) /\ conn \in Scripts
    BY DEF MongoTyped
<1>2. Len(conn.reqs) \in Nat /\ Wire!Taken = seen
    BY <1>0, <1>1, MongoScript DEF Wire!Taken, RelayInv
<1>3. CASE Wire!Leave
  <2>1. offered' \in (seen..Len(conn.reqs)) \cup {seen} /\ seen' = seen
      BY <1>2, <1>3 DEF Wire!Leave, Wire!Reqs
  <2> QED BY <1>1, <1>2, <2>1
<1>4. CASE Wire!ReadAndForward
  <2>1. seen < offered /\ seen' = seen + 1 /\ offered' = offered
      BY <1>0, <1>2, <1>4 DEF Wire!ReadAndForward, Wire!RequestReadable, Wire!HasSentNext, RelayInv
  <2> QED BY <1>1, <2>1
<1>5. CASE UNCHANGED <<offered, seen>>
    BY <1>1, <1>5
<1>6. Wire!Leave \/ Wire!ReadAndForward \/ UNCHANGED <<offered, seen>>
    BY <1>0 DEF Wire!Next, Wire!ClientToUpstream, Wire!UpstreamToClient, Wire!Relay,
       Wire!Serve, Wire!Push, Wire!Crash, Wire!ServerLeaves, Wire!ReadAndBlock,
       Wire!ForwardRequest, Wire!InspectRequest, Wire!CompleteMessage, Wire!UpEnds,
       Wire!TakePending, Wire!RelayBack, Wire!RelayFails, Wire!InspectResponse,
       Wire!DownEnds, Wire!CloseBoth, Wire!CloseClient, Wire!DeadlinePasses, Wire!vars, Wire!reqVars
<1> QED BY <1>3, <1>4, <1>5, <1>6

\* Whatever the two sides and the goroutines do.
LEMMA MongoStep ==
  ASSUME RelayInv, MongoInv, Wire!ScriptsTyped, [Wire!Next]_Wire!vars
  PROVE  MongoInv'
<1>a. conn' = conn
    BY SameScript
<1>0. SUFFICES ASSUME Wire!Is("mongo")
               PROVE  MongoTyped' /\ MongoAnswersTell' /\ MongoWaits' /\ CursorsKnown' /\ MongoLogs'
    BY <1>a DEF MongoInv, Wire!Is
<1>b. /\ ~Wire!IsBroker /\ ~Wire!Is("amqp") /\ ~Wire!Is("redis") /\ ~Wire!Is("kafka")
      /\ ~Wire!Is("postgres") /\ ~Wire!Is("mysql") /\ conn.proto = "mongo"
    BY <1>0 DEF Wire!Is, Wire!IsBroker, Wire!Brokers
<1>c. MongoTyped /\ MongoAnswersTell /\ MongoWaits /\ CursorsKnown /\ MongoLogs
    BY <1>0 DEF MongoInv
<1>d. offered' \in Nat /\ seen' <= offered' /\ offered' <= Len(conn.reqs)
    BY <1>0, <1>c, MongoOffers
<1>e. /\ fwd \in Nat /\ seen \in Nat /\ served \in Nat /\ relayed \in Nat /\ read \in Nat
      /\ served <= fwd /\ fwd <= seen /\ seen <= offered /\ offered <= Len(conn.reqs) /\ pushed = 0
      /\ answers \in Seq(Packet) /\ read <= Len(answers) /\ Len(answers) \in Nat
      /\ px \in MongoPxType /\ conn \in Scripts
    BY <1>c DEF MongoTyped
<1>f. PICK r \in Nat : r = read
    BY <1>e
<1>g. UNCHANGED <<answers, served, srv>> => MongoAnswersTell'
    BY <1>a, <1>c, AnswersStay DEF MongoAnswersTell
<1>h. ASSUME \A k \in 1..read : answers'[k] = answers[k], read' = read, px'.cursors = px.cursors
      PROVE  CursorsKnown'
  <2>1. PICK t : t = answers'
      OBVIOUS
  <2>2. \A c : Opened(t, r, c) <=> Opened(answers, r, c)
    <3>1. r \in 0..r /\ \A k \in 1..r : t[k] = answers[k]
        BY <1>f, <1>h, <2>1
    <3> QED BY <3>1, EarlierAnswers
  <2>3. CursorsTell(px.cursors, t, r)
      BY <1>c, <1>f, <2>2 DEF CursorsKnown, CursorsTell
  <2>4. CursorsTell(px'.cursors, answers', read')
      BY <1>f, <1>h, <2>1, <2>3
  <2> QED BY <1>a, <2>4, AnswersStay DEF CursorsKnown, CursorsTell
<1>i. \A i : Kind(i)' = Kind(i)
    BY <1>a, AnswersStay
<1>j. ASSUME \A k \in 1..read : answers'[k] = answers[k], read' = read, px'.log = px.log
      PROVE  MongoLogs'
  <2>1. Final' = Final
      BY <1>j DEF Final
  <2> QED BY <1>c, <1>j, <2>1, MongoLogsStay
<1>1. CASE UNCHANGED pairing
  <2>1. UNCHANGED <<conn, fwd, seen, served, pushed, srv, answers, relayed, read, px>>
      BY <1>1 DEF pairing
  <2>2. MongoTyped'
      BY <1>d, <1>e, <2>1 DEF MongoTyped
  <2>3. MongoWaits'
      BY <1>c, <1>i, <2>1 DEF MongoWaits
  <2> QED BY <1>g, <1>h, <1>j, <2>1, <2>2, <2>3
<1>2. CASE Wire!Serve
  <2>1. /\ served' = served + 1 /\ served < fwd
        /\ UNCHANGED <<conn, fwd, seen, pushed, relayed, read, px>>
      BY <1>2 DEF Wire!Serve, Wire!reqVars, Wire!backVars
  <2>2. /\ MongoAnswersTell' /\ answers' \in Seq(Packet) /\ Len(answers') >= Len(answers)
        /\ \A k \in 1..Len(answers) : answers'[k] = answers[k]
      BY <1>0, <1>2, <1>c, MongoServed
  <2>3. Len(answers') \in Nat /\ \A k \in 1..read : answers'[k] = answers[k]
      BY <1>e, <2>2
  <2>4. MongoTyped'
      BY <1>d, <1>e, <2>1, <2>2, <2>3 DEF MongoTyped
  <2>5. MongoWaits'
      BY <1>c, <1>i, <2>1, <2>3 DEF MongoWaits
  <2> QED BY <1>h, <1>j, <2>1, <2>2, <2>3, <2>4, <2>5
<1>3. CASE Wire!ReadAndForward
  <2>1. /\ seen' = seen + 1 /\ fwd' \in {fwd, fwd + 1}
        /\ UNCHANGED <<conn, served, pushed, srv, answers, relayed, read>>
        /\ px' = Wire!MongoRequest(px, conn.reqs[seen + 1], seen + 1)
      BY <1>3, <1>b DEF Wire!ReadAndForward, Wire!OnRequest, Wire!Reqs, Wire!Is,
         Wire!srvVars, Wire!backVars
  <2> DEFINE pending == IF Kind(seen + 1) = "internal" THEN px.pending ELSE px.pending \cup {seen + 1}
  <2>2. px' \in MongoPxType /\ px'.pending = pending /\ px'.cursors = px.cursors /\ px'.log = px.log
      BY <1>e, <2>1 DEF Wire!MongoRequest, Kind, MongoPxType
  <2>3. MongoTyped'
      BY <1>d, <1>e, <2>1, <2>2 DEF MongoTyped
  <2>4. \A k \in 1..read : answers[k].req # seen + 1
    <3>1. \A k \in 1..read : answers[k].req \in 1..served
        BY <1>c, <1>e DEF MongoAnswersTell, AnswersTell
    <3> QED BY <1>e, <3>1
  <2>5. 1..(seen + 1) = 1..seen \cup {seen + 1}
      BY <1>e
  <2>6. pending = {i \in 1..(seen + 1) : Kind(i) # "internal" /\ \A k \in 1..read : answers[k].req # i}
      BY <1>c, <2>4, <2>5 DEF MongoWaits
  <2>7. MongoWaits'
      BY <1>i, <2>1, <2>2, <2>6 DEF MongoWaits
  <2> QED BY <1>g, <1>h, <1>j, <2>1, <2>2, <2>3, <2>7
<1>4. CASE Wire!RelayBack \/ Wire!RelayFails
  <2>1. /\ relayed' \in {relayed, relayed + 1} /\ read' = read + 1 /\ read < Len(answers)
        /\ UNCHANGED <<conn, fwd, seen, served, pushed, srv, answers>>
        /\ px' = Wire!OnPacket(answers[read + 1])
      BY <1>4, <1>b DEF Wire!RelayBack, Wire!RelayFails, Wire!AnswerReadable, Wire!reqVars, Wire!srvVars
  <2>2. px' = Wire!MongoPacket(px, answers[r + 1], conn.reqs[answers[r + 1].req])
      BY <1>b, <1>f, <2>1 DEF Wire!OnPacket, Wire!Reqs, Wire!Is
  <2>3. px' \in MongoPxType /\ MongoWaits' /\ CursorsKnown' /\ MongoLogs'
    <3>1. UNCHANGED <<conn, seen, answers>> /\ r < Len(answers) /\ read = r /\ read' = r + 1
        BY <1>f, <2>1
    <3> QED BY <1>b, <1>c, <2>2, <3>1, MongoReads
  <2>4. MongoTyped'
      BY <1>d, <1>e, <2>1, <2>3 DEF MongoTyped
  <2> QED BY <1>g, <2>1, <2>3, <2>4
<1>5. CASE Wire!Push
  <2>1. conn.pushes = <<>>
      BY <1>b, <1>e DEF Wire!ScriptsTyped
  <2> QED BY <1>5, <1>e, <2>1 DEF Wire!Push
<1>6. CASE \/ Wire!ForwardRequest \/ Wire!InspectRequest \/ Wire!InspectResponse \/ Wire!TakePending
           \/ Wire!CompleteMessage("up") \/ Wire!CompleteMessage("down")
    BY <1>6, <1>b DEF Wire!ForwardRequest, Wire!InspectRequest, Wire!InspectResponse,
       Wire!TakePending, Wire!CompleteMessage, Wire!Due
<1> QED BY <1>1, <1>2, <1>3, <1>4, <1>5, <1>6, PairingSteps

\* Then every query is logged once, with its own answer and batches.
LEMMA MongoInvImplies ==
  ASSUME MongoInv, Wire!Is("mongo")
  PROVE  Wire!Paired /\ Wire!Captured
<1>1. MongoTyped /\ MongoLogs
    BY DEF MongoInv
<1>2. DOMAIN px.log = 1..Len(px.log)
    BY <1>1, MongoPx DEF MongoTyped
<1>3. Wire!Paired
  <2>1. ASSUME NEW k \in DOMAIN px.log
        PROVE  /\ px.log[k].text = px.log[k].answer
               /\ \A row \in px.log[k].rows : row.text = px.log[k].answer /\ row.ok
    <3>1. /\ px.log[k].text = px.log[k].answer
          /\ px.log[k].rows \subseteq {[text |-> px.log[k].answer, ok |-> TRUE]}
        BY <1>1, <1>2 DEF MongoLogs
    <3> QED BY <3>1
  <2> QED BY <2>1 DEF Wire!Paired
<1>4. ASSUME NEW x \in Wire!Completed
      PROVE  Wire!Cardinality(Wire!Logs(x)) = 1
  <2>1. x \in Final
      BY <1>4 DEF Wire!Completed, Wire!Is, Wire!Reqs, Final
  <2>2. PICK j \in 1..Len(px.log) : px.log[j].by = x
      BY <1>1, <2>1 DEF MongoLogs
  <2>3. \A i \in 1..Len(px.log) : px.log[i].by = x => i = j
      BY <1>1, <2>2 DEF MongoLogs
  <2> QED BY <1>2, <2>2, <2>3, OneLog
<1> QED BY <1>3, <1>4 DEF Wire!Captured

=============================================================================
