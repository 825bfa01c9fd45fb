-------------------------- MODULE RunAdmissionProofs --------------------------
(***************************************************************************)
(* Proofs about the runs as a whole: for any number of runs, projects and  *)
(* clients that stop and delete, a run that is kept keeps its files; with  *)
(* one client that creates runs, one run is active at a time and the       *)
(* history stays within its limit.                                         *)
(***************************************************************************)
EXTENDS RunAdmission, FiniteSetTheorems, WellFoundedInduction, TLAPS

USE DEF vars, dataVars, opVars, rows, subs

-----------------------------------------------------------------------------
(* What holds for any number of creators.                                  *)

\* Only created runs have rows and submissions.
RowsAreCreated == \A r \in RunIds : Exists(r) \/ submit[r] # "no" => r =< created

\* No run is newer than the number of runs.
SecondsBounded == \A r \in RunIds : second[r] =< created

\* A run is created at least a second after the one before.
SecondsDiffer == \A q, r \in RunIds : q < r /\ r =< created => second[q] < second[r]

\* The directory is deleted after the row, and the row does not come back.
RowGoesFirst ==
    \A c \in Clients :
        pc[c] = "dir" => cur[c] \in RunIds /\ cur[c] =< created /\ ~Exists(cur[c])

\* Pruning deletes and does nothing else.
PruneOnlyDeletes == \A c \in Clients : phase[c] = "prune" => pc[c] \in {"next", "dir"}

IInv ==
    /\ TypeOK
    /\ RowsAreCreated
    /\ SecondsBounded
    /\ RowGoesFirst
    /\ PruneOnlyDeletes

FilesInv == SecondsDiffer /\ KeptRunHasFiles

-----------------------------------------------------------------------------
(* What one creator can rely on.                                           *)

Live == RowsIn(Active) \ revived

\* The handler of a POST /runs is run for a creator.
PreparesForCreator ==
    \A c \in Clients : phase[c] \in {"stale", "cancel", "prune"} => c \in Creators

\* Between the check of createRun and its own run there is no active run.
NoneWhilePreparing ==
    \A c \in Creators : phase[c] \in {"cancel", "prune"} => Live = {}

AtMostOneLive == \A q, r \in Live : q = r

\* The runs of project p that count.
Kept(p) == {r \in RunIds \ revived : Exists(r) /\ project[r] = p}

\* Of the project of the new run, those that are not to be pruned are few
\* enough to add it.
PruneLeavesRoom ==
    \A c \in Creators :
        phase[c] = "prune" => Cardinality(Kept(scope[c]) \ todo[c]) =< KeepCount

HistoryBound == \A p \in Projects : Cardinality(Kept(p)) =< KeepCount + 1

CreatorInv ==
    /\ PreparesForCreator
    /\ NoneWhilePreparing
    /\ AtMostOneLive
    /\ PruneLeavesRoom
    /\ HistoryBound

-----------------------------------------------------------------------------
(* Numbers and finite sets.                                                *)

\* A set of natural numbers has a least element.
LEMMA Least ==
  ASSUME NEW S \in SUBSET Nat, S # {}
  PROVE  \E m \in S : \A n \in S : m =< n
  <1> DEFINE R == OpToRel(<, Nat)
  <1>1. IsWellFoundedOn(R, Nat)
    BY NatLessThanWellFounded, Zenon
  <1> HIDE DEF R
  <1>2. PICK m \in S : \A n \in S : <<n, m>> \notin R
    BY <1>1, WFMin
  <1>3. \A n \in S : n < m => <<n, m>> \in R
    BY DEF R, OpToRel
  <1>4. ASSUME NEW n \in S
        PROVE  m =< n
    <2>1. m \in Nat /\ n \in Nat /\ ~(n < m)
      BY <1>2, <1>3
    <2> QED BY <2>1
  <1> QED BY <1>4

\* The newest of some runs is one of them, as orderBy and findFirst have it.
LEMMA Newest ==
  ASSUME NEW S \in SUBSET RunIds, S # {}
  PROVE  Max(S) \in S /\ \A r \in S : r =< Max(S)
  <1> DEFINE Ages == {a \in 0..MaxRuns : MaxRuns - a \in S}
  <1>0. MaxRuns \in Nat /\ \A r \in S : r \in 1..MaxRuns
    BY ConstantsAssumption DEF RunIds
  <1>1. PICK r \in S : TRUE
    OBVIOUS
  <1>2. MaxRuns - r \in Ages
    BY <1>0, <1>1
  <1>3. PICK a \in Ages : \A b \in Ages : a =< b
    <2>1. Ages \in SUBSET Nat /\ Ages # {}
      BY <1>2
    <2> QED BY <2>1, Least
  <1>4. ASSUME NEW q \in S
        PROVE  MaxRuns - a >= q
    <2>1. MaxRuns - q \in Ages
      BY <1>0
    <2>2. a =< MaxRuns - q /\ a \in 0..MaxRuns
      BY <1>3, <2>1
    <2> QED BY <1>0, <2>2
  <1>5. MaxRuns - a \in S
    BY <1>3
  <1> QED BY <1>4, <1>5, <1>0 DEF Max

\* Runs are finite in number.
LEMMA RunsAreFinite ==
  ASSUME NEW S \in SUBSET RunIds
  PROVE  IsFiniteSet(S) /\ Cardinality(S) \in Nat
  <1>1. IsFiniteSet(RunIds)
    BY FS_Interval, ConstantsAssumption DEF RunIds
  <1> QED BY <1>1, FS_Subset, FS_CardinalityType

\* At most k elements of a set have fewer than k greater ones: slice(k) leaves
\* no more than k.
LEMMA FewAreNewest ==
  ASSUME NEW S \in SUBSET RunIds, NEW k \in Nat \ {0}
  PROVE  Cardinality({r \in S : ~(Cardinality({q \in S : q > r}) >= k)}) =< k
  <1> DEFINE Newer(r) == {q \in S : q > r}
             K == {r \in S : ~(Cardinality(Newer(r)) >= k)}
  <1>1. \A r \in K : r \in S /\ ~(Cardinality(Newer(r)) >= k)
    OBVIOUS
  <1>2. K \in SUBSET RunIds
    OBVIOUS
  <1> SUFFICES Cardinality(K) =< k
    OBVIOUS
  <1> HIDE DEF K
  <1>3. RunIds \subseteq Nat
    BY ConstantsAssumption DEF RunIds
  <1>4. CASE K = {}
    BY <1>4, FS_EmptySet
  <1>5. CASE K # {}
    <2>1. PICK m \in K : \A n \in K : m =< n
      <3>1. K \in SUBSET Nat
        BY <1>2, <1>3
      <3> QED BY <3>1, <1>5, Least
    <2>2. IsFiniteSet(K) /\ Cardinality(K) \in Nat
      BY <1>2, RunsAreFinite
    <2>3. IsFiniteSet(Newer(m)) /\ Cardinality(Newer(m)) \in Nat
      <3>1. Newer(m) \in SUBSET RunIds
        OBVIOUS
      <3> HIDE DEF Newer
      <3> QED BY <3>1, RunsAreFinite
    <2>4. K \ {m} \subseteq Newer(m)
      <3> SUFFICES ASSUME NEW n \in K, n # m
                   PROVE  n \in S /\ n > m
        OBVIOUS
      <3>1. m =< n /\ m \in Nat /\ n \in Nat
        BY <2>1, <1>2, <1>3
      <3>2. n > m
        BY <3>1
      <3>3. n \in S
        BY <1>1
      <3> QED BY <3>2, <3>3
    <2>5. Cardinality(Newer(m)) < k
      BY <1>1, <2>1, <2>3
    <2> HIDE DEF Newer
    <2>6. Cardinality(K \ {m}) =< Cardinality(Newer(m))
      BY <2>3, <2>4, FS_Subset
    <2>7. Cardinality(K \ {m}) = Cardinality(K) - 1
      BY <2>1, <2>2, FS_RemoveElement
    <2> QED BY <2>2, <2>3, <2>5, <2>6, <2>7
  <1> QED BY <1>4, <1>5

-----------------------------------------------------------------------------
(* Types.                                                                  *)

OpTypes ==
    /\ phase \in [Clients -> Phases]
    /\ pc \in [Clients -> {"next", "stop", "mark", "row", "dir"}]
    /\ cur \in [Clients -> 0 .. MaxRuns]
    /\ todo \in [Clients -> SUBSET RunIds]
    /\ fresh \in [Clients -> SUBSET RunIds]
    /\ scope \in [Clients -> Projects \cup {NoProject}]

DataTypes ==
    /\ status \in [RunIds -> {"NONE", "PENDING", "RUNNING", "FINISHED"}]
    /\ project \in [RunIds -> Projects \cup {NoProject}]
    /\ second \in [RunIds -> 0 .. MaxRuns]
    /\ inst \in [RunIds -> {"pending", "booting", "up", "over"}]
    /\ dirs \subseteq (Projects \cup {NoProject}) \X (0 .. MaxRuns)
    /\ submit \in [RunIds -> {"no", "tx", "files", "done"}]
    /\ revived \subseteq RunIds
    /\ created \in 0 .. MaxRuns

LEMMA TypesAre == TypeOK <=> OpTypes /\ DataTypes
  BY DEF TypeOK, OpTypes, DataTypes

\* A handler that begins a loop, or ends, keeps the types.
LEMMA BeginTypes ==
  ASSUME OpTypes, NEW c \in Clients, NEW ph \in Phases, NEW S \in SUBSET RunIds,
         NEW p \in Projects \cup {NoProject}, Begin(c, ph, S, p)
  PROVE  OpTypes'
  <1>1. 0 \in 0..MaxRuns
    BY ConstantsAssumption
  <1>2. {r \in S : inst[r] = "pending"} \in SUBSET RunIds
    OBVIOUS
  <1> HIDE DEF Phases
  <1>3. phase' \in [Clients -> Phases] /\ scope' \in [Clients -> Projects \cup {NoProject}]
    BY DEF Begin, OpTypes
  <1>4. pc' \in [Clients -> {"next", "stop", "mark", "row", "dir"}] /\ cur' \in [Clients -> 0..MaxRuns]
    BY <1>1 DEF Begin, OpTypes
  <1>5. todo' \in [Clients -> SUBSET RunIds] /\ fresh' \in [Clients -> SUBSET RunIds]
    BY <1>2 DEF Begin, OpTypes
  <1> QED BY <1>3, <1>4, <1>5 DEF OpTypes

LEMMA DoneTypes ==
  ASSUME OpTypes, NEW c \in Clients, Done(c)
  PROVE  OpTypes'
  <1>1. "idle" \in Phases /\ {} \in SUBSET RunIds /\ NoProject \in Projects \cup {NoProject}
    BY DEF Phases
  <1> QED BY <1>1, BeginTypes DEF Done

\* A turn of a loop keeps the types.
LEMMA TurnTypes ==
  ASSUME OpTypes, NEW c \in Clients, NEW r \in 0..MaxRuns,
         NEW where \in {"next", "stop", "mark", "row", "dir"}, Turn(c, r, where)
  PROVE  OpTypes'
  <1>1. CASE phase[c] \in {"stop", "delete"} /\ where = "next" /\ todo[c] \ {r} = {}
    BY <1>1, DoneTypes DEF Turn
  <1>2. CASE ~(phase[c] \in {"stop", "delete"} /\ where = "next" /\ todo[c] \ {r} = {})
    <2>1. 0 \in 0..MaxRuns /\ todo[c] \ {r} \in SUBSET RunIds
      BY ConstantsAssumption DEF OpTypes
    <2> QED BY <1>2, <2>1 DEF Turn, OpTypes
  <1> QED BY <1>1, <1>2

\* The types are invariant.
LEMMA TypeStep ==
  ASSUME TypeOK, SecondsBounded, Next
  PROVE  TypeOK'
  <1>0. OpTypes /\ DataTypes
    BY TypesAre
  <1>n. RunIds \subseteq 0..MaxRuns /\ 0 \in 0..MaxRuns
    BY ConstantsAssumption DEF RunIds
  <1>d. \A S : RowsIn(S) \in SUBSET RunIds
    BY DEF RowsIn
  <1> SUFFICES OpTypes' /\ DataTypes'
    BY DEF TypeOK, OpTypes, DataTypes
  <1>1. ASSUME NEW c \in Clients, NEW p \in Projects, CreateRun(c, p)
        PROVE  OpTypes' /\ DataTypes'
    <2>1. OpTypes'
      BY <1>0, <1>1, <1>d, BeginTypes DEF CreateRun, Phases
    <2> QED BY <1>0, <1>1, <2>1 DEF CreateRun, DataTypes
  <1>2. ASSUME NEW c \in Clients, NEW p \in Projects, DeleteAllRuns(c, p)
        PROVE  OpTypes' /\ DataTypes'
    <2>1. OpTypes'
      BY <1>0, <1>2, BeginTypes DEF DeleteAllRuns, Phases
    <2> QED BY <1>0, <1>2, <2>1 DEF DeleteAllRuns, DataTypes
  <1>3. ASSUME NEW c \in Clients, StopCurrentRun(c)
        PROVE  OpTypes' /\ DataTypes'
    <2>1. Max(RowsIn(Active)) \in RunIds
      BY <1>3, <1>d, Newest DEF StopCurrentRun
    <2>2. scope[c] \in Projects \cup {NoProject}
      BY <1>0 DEF OpTypes
    <2>3. OpTypes'
      BY <1>0, <1>3, <2>1, <2>2, BeginTypes DEF StopCurrentRun, Phases
    <2> QED BY <1>0, <1>3, <2>3 DEF StopCurrentRun, DataTypes
  <1>4. ASSUME NEW c \in Clients, NEW r \in RunIds, DeleteRun(c, r)
        PROVE  OpTypes' /\ DataTypes'
    <2>1. scope[c] \in Projects \cup {NoProject}
      BY <1>0 DEF OpTypes
    <2>2. OpTypes'
      BY <1>0, <1>4, <2>1, BeginTypes DEF DeleteRun, Phases
    <2> QED BY <1>0, <1>4, <2>2 DEF DeleteRun, DataTypes
  <1>5. ASSUME NEW c \in Clients, Admit(c)
        PROVE  OpTypes' /\ DataTypes'
    <2>1. scope[c] \in Projects \cup {NoProject} /\ {r \in RowsIn(Active) : InScope(c, r)} \in SUBSET RunIds
      BY <1>0, <1>d DEF OpTypes
    <2>2. OpTypes'
      <3>1. CASE Admitted
        BY <1>0, <1>5, <2>1, <3>1, BeginTypes DEF Admit, Phases
      <3>2. CASE ~Admitted
        BY <1>0, <1>5, <3>2, DoneTypes DEF Admit
      <3> QED BY <3>1, <3>2
    <2> QED BY <1>0, <1>5, <2>2 DEF Admit, DataTypes
  <1>6. ASSUME NEW c \in Clients, PruneRead(c)
        PROVE  OpTypes' /\ DataTypes'
    <2>1. scope[c] \in Projects \cup {NoProject} /\ ToPrune(c) \in SUBSET RunIds
      BY <1>0, <1>d DEF OpTypes, ToPrune
    <2>2. OpTypes'
      BY <1>0, <1>6, <2>1, BeginTypes DEF PruneRead, Phases
    <2> QED BY <1>0, <1>6, <2>2 DEF PruneRead, DataTypes
  <1>7. ASSUME NEW c \in Clients, CreateRow(c)
        PROVE  OpTypes' /\ DataTypes'
    <2>1. OpTypes'
      BY <1>0, <1>7, DoneTypes DEF CreateRow
    <2>2. created + 1 \in RunIds /\ created' = created + 1 /\ created \in Nat /\ created + 1 \in 0..MaxRuns
      BY <1>0, <1>7, <1>n, ConstantsAssumption DEF CreateRow, DataTypes
    <2>3. SecondsAfter(created) \subseteq 0..MaxRuns
      <3>1. CASE created = 0
        BY <2>2, <3>1, ConstantsAssumption DEF SecondsAfter, RunIds
      <3>2. CASE created # 0
        <4>1. created \in RunIds
          BY <2>2, <3>2, ConstantsAssumption DEF RunIds
        <4>2. second[created] \in 0..MaxRuns /\ second[created] =< created
          BY <1>0, <4>1 DEF DataTypes, SecondsBounded
        <4> QED BY <2>2, <3>2, <4>2, ConstantsAssumption DEF SecondsAfter, RunIds
      <3> QED BY <3>1, <3>2
    <2>4. second' \in [RunIds -> 0..MaxRuns]
      BY <1>0, <1>7, <2>3 DEF CreateRow, DataTypes
    <2>5. scope[c] \in Projects \cup {NoProject}
      BY <1>0 DEF OpTypes
    <2> QED BY <1>0, <1>7, <2>1, <2>2, <2>4, <2>5 DEF CreateRow, DataTypes
  <1>8. ASSUME NEW c \in Clients, MarkRun(c)
        PROVE  OpTypes' /\ DataTypes'
    <2>1. cur[c] \in 0..MaxRuns
      BY <1>0 DEF OpTypes
    <2>2. OpTypes'
      BY <1>0, <1>8, <2>1, TurnTypes, DoneTypes DEF MarkRun
    <2> QED BY <1>0, <1>8, <2>2 DEF MarkRun, DataTypes, Verdict
  <1>9. ASSUME NEW c \in Clients, DeleteDir(c)
        PROVE  OpTypes' /\ DataTypes'
    <2>1. cur[c] \in 0..MaxRuns
      BY <1>0 DEF OpTypes
    <2>2. OpTypes'
      BY <1>0, <1>9, <2>1, TurnTypes, DoneTypes DEF DeleteDir
    <2>3. dirs' \subseteq dirs
      BY <1>9 DEF DeleteDir
    <2> QED BY <1>0, <1>9, <2>2, <2>3 DEF DeleteDir, DataTypes
  <1>10. ASSUME NEW c \in Clients, NEW r \in RunIds, StaleCheck(c, r)
        PROVE  OpTypes' /\ DataTypes'
    <2>1. OpTypes'
      BY <1>0, <1>n, <1>10, TurnTypes DEF StaleCheck
    <2> QED BY <1>0, <1>10, <2>1 DEF StaleCheck, DataTypes
  <1>11. ASSUME NEW c \in Clients, NEW r \in RunIds, StopInstances(c, r)
        PROVE  OpTypes' /\ DataTypes'
    <2>1. OpTypes'
      BY <1>0, <1>n, <1>11, TurnTypes DEF StopInstances
    <2> QED BY <1>0, <1>11, <2>1 DEF StopInstances, DataTypes
  <1>12. ASSUME NEW c \in Clients, NEW r \in RunIds, DeleteRow(c, r)
        PROVE  OpTypes' /\ DataTypes'
    <2>1. OpTypes'
      BY <1>0, <1>n, <1>12, TurnTypes, DoneTypes DEF DeleteRow
    <2> QED BY <1>0, <1>12, <2>1 DEF DeleteRow, DataTypes
  <1>13. ASSUME NEW r \in RunIds, SubmitInstance(r) \/ SubmitTx(r) \/ Deploy(r) \/ RunEnds(r)
        PROVE  OpTypes' /\ DataTypes'
    BY <1>0, <1>13 DEF SubmitInstance, SubmitTx, Deploy, RunEnds, OpTypes, DataTypes
  <1>14. ASSUME NEW r \in RunIds, WriteDefinition(r)
        PROVE  OpTypes' /\ DataTypes'
    <2>1. Dir(r) \in (Projects \cup {NoProject}) \X (0..MaxRuns)
      BY <1>0 DEF Dir, DataTypes
    <2> QED BY <1>0, <1>14, <2>1 DEF WriteDefinition, OpTypes, DataTypes
  <1>15. CASE Restart
    BY <1>0, <1>n, <1>15 DEF Restart, OpTypes, DataTypes, Phases
  <1> QED
    BY <1>1, <1>2, <1>3, <1>4, <1>5, <1>6, <1>7, <1>8, <1>9, <1>10, <1>11, <1>12, <1>13, <1>14, <1>15
    DEF Next, RequestStep, Clients

-----------------------------------------------------------------------------
(* What a step does to the rows, and what to the requests.                 *)

\* No run is created; rows only disappear, and a run is not brought to life
\* again without being remembered in revived.
NoNewRun ==
    /\ created' = created /\ project' = project /\ second' = second
    /\ revived \subseteq revived'
    /\ \A r \in RunIds :
        /\ Exists(r)' => Exists(r)
        /\ submit'[r] # "no" => submit[r] # "no" \/ Exists(r)
        /\ status'[r] \in Active /\ r \notin revived' => status[r] \in Active /\ r \notin revived

\* Only createRun makes a run.
LEMMA NewRuns ==
  ASSUME TypeOK, Next, \A c \in Clients : ~CreateRow(c)
  PROVE  NoNewRun
  <1> SUFFICES \/ UNCHANGED <<rows, submit, revived, created>>
               \/ NoNewRun
    BY DEF NoNewRun, Exists, Active
  <1>1. ASSUME NEW c \in Clients, RequestStep(c)
        PROVE  UNCHANGED <<rows, submit, revived, created>> \/ NoNewRun
    <2>1. CASE MarkRun(c) /\ Exists(cur[c])
      <3>1. status' = [status EXCEPT ![cur[c]] = "FINISHED"]
        BY <2>1 DEF MarkRun, Verdict
      <3>2. \A r \in RunIds : status'[r] = IF r = cur[c] THEN "FINISHED" ELSE status[r]
        BY <3>1 DEF TypeOK
      <3> QED BY <2>1, <3>2 DEF MarkRun, NoNewRun, Exists, Active
    <2>2. ASSUME NEW r \in RunIds, DeleteRow(c, r)
          PROVE  NoNewRun
      <3>1. \A q \in RunIds : status'[q] = IF q = r THEN "NONE" ELSE status[q]
        BY <2>2 DEF DeleteRow, TypeOK
      <3> QED BY <2>2, <3>1 DEF DeleteRow, NoNewRun, Exists, Active
    <2>3. MarkRun(c) /\ ~Exists(cur[c]) => UNCHANGED <<rows, submit, revived, created>>
      BY DEF MarkRun
    <2> QED BY <1>1, <2>1, <2>2, <2>3 DEF RequestStep, Admit, PruneRead, DeleteDir, StaleCheck, StopInstances
  <1>2. ASSUME NEW r \in RunIds, SubmitTx(r)
        PROVE  UNCHANGED <<rows, submit, revived, created>> \/ NoNewRun
    <2>1. CASE Exists(r)
      <3>1. \A q \in RunIds : /\ status'[q] = IF q = r THEN "RUNNING" ELSE status[q]
                              /\ q # r => submit'[q] = submit[q]
        BY <1>2, <2>1 DEF SubmitTx, TypeOK
      <3>2. status[r] \in {"PENDING", "RUNNING", "FINISHED"}
        BY <2>1 DEF TypeOK, Exists
      <3>3. revived' = (IF status[r] = "FINISHED" THEN revived \cup {r} ELSE revived)
        BY <1>2, <2>1 DEF SubmitTx
      <3> QED BY <1>2, <2>1, <3>1, <3>2, <3>3 DEF SubmitTx, NoNewRun, Exists, Active
    <2>2. CASE ~Exists(r)
      BY <1>2, <2>2 DEF SubmitTx, NoNewRun, Exists, TypeOK
    <2> QED BY <2>1, <2>2
  <1>3. ASSUME NEW r \in RunIds, SubmitInstance(r) \/ WriteDefinition(r) \/ Deploy(r) \/ RunEnds(r)
        PROVE  UNCHANGED <<rows, submit, revived, created>> \/ NoNewRun
    BY <1>3 DEF SubmitInstance, WriteDefinition, Deploy, RunEnds, NoNewRun, Exists, Active, TypeOK
  <1>4. CASE Restart
    BY <1>4 DEF Restart, NoNewRun, Exists, Active, TypeOK
  <1>5. ASSUME NEW c \in Clients, NEW p, NEW r,
               CreateRun(c, p) \/ DeleteAllRuns(c, p) \/ StopCurrentRun(c) \/ DeleteRun(c, r)
        PROVE  UNCHANGED <<rows, submit, revived, created>> \/ NoNewRun
    BY <1>5 DEF CreateRun, DeleteAllRuns, StopCurrentRun, DeleteRun
  <1> QED BY <1>1, <1>2, <1>3, <1>4, <1>5 DEF Next, Clients

Waits(d) ==
    /\ phase'[d] = phase[d] /\ pc'[d] = pc[d] /\ cur'[d] = cur[d]
    /\ todo'[d] = todo[d] /\ scope'[d] = scope[d]

\* What a step can make of the request of client d.
Moves(d) ==
    \/ Waits(d)
    \/ phase'[d] \in {"idle", "stop", "delete"} /\ pc'[d] # "dir"
    \/ /\ phase'[d] = "stale" /\ pc'[d] # "dir"
       /\ phase[d] = "stale" \/ d \in Creators
    \/ /\ phase'[d] = "cancel" /\ pc'[d] # "dir"
       /\ phase[d] = "cancel" \/ (phase[d] = "stale" /\ Admitted)
    \/ /\ phase[d] = "cancel" /\ phase'[d] = "prune" /\ pc'[d] = "next"
       /\ scope'[d] = scope[d] /\ todo'[d] = ToPrune(d)
       /\ UNCHANGED dataVars
    \/ /\ phase[d] = "prune" /\ phase'[d] = "prune"
       /\ pc[d] = "dir" /\ pc'[d] = "next"
       /\ scope'[d] = scope[d] /\ todo'[d] = todo[d] \ {cur[d]}
    \/ /\ phase'[d] = phase[d] /\ pc'[d] = "dir"
       /\ cur'[d] \in RunIds /\ Exists(cur'[d]) /\ status'[cur'[d]] = "NONE"
       /\ scope'[d] = scope[d] /\ todo'[d] = todo[d] \ {cur'[d]}

LEMMA BeginMoves ==
  ASSUME TypeOK, NEW c \in Clients, NEW ph, NEW S, NEW p, Begin(c, ph, S, p)
  PROVE  /\ phase'[c] = ph /\ pc'[c] = "next" /\ todo'[c] = S /\ scope'[c] = p
         /\ \A d \in Clients : d # c => Waits(d)
  BY DEF TypeOK, Begin, Waits

LEMMA TurnMoves ==
  ASSUME TypeOK, NEW c \in Clients, NEW r, NEW where, Turn(c, r, where)
  PROVE  /\ \/ phase'[c] = "idle" /\ pc'[c] = "next"
            \/ /\ phase'[c] = phase[c] /\ scope'[c] = scope[c] /\ pc'[c] = where
               /\ todo'[c] = todo[c] \ {r}
               /\ where # "next" => cur'[c] = r
         /\ \A d \in Clients : d # c => Waits(d)
  <1>1. CASE phase[c] \in {"stop", "delete"} /\ where = "next" /\ todo[c] \ {r} = {}
    BY <1>1, BeginMoves DEF Turn, Done
  <1>2. CASE ~(phase[c] \in {"stop", "delete"} /\ where = "next" /\ todo[c] \ {r} = {})
    BY <1>2 DEF Turn, TypeOK, Waits
  <1> QED BY <1>1, <1>2

\* Requests move as Moves says.
LEMMA RequestsMove ==
  ASSUME TypeOK, PruneOnlyDeletes, Next, NEW d \in Clients
  PROVE  Moves(d)
  <1>p. phase[d] \in Phases
    BY DEF TypeOK
  <1>1. ASSUME NEW c \in Creators, NEW p \in Projects, CreateRun(c, p)
        PROVE  Moves(d)
    <2>1. c \in Clients
      BY DEF Clients
    <2> QED BY <1>1, <2>1, BeginMoves DEF CreateRun, Moves
  <1>2. ASSUME NEW c \in Clients, NEW p, NEW r, DeleteAllRuns(c, p) \/ StopCurrentRun(c) \/ DeleteRun(c, r)
        PROVE  Moves(d)
    <2>1. PICK ph, S, q : ph \in {"stop", "delete"} /\ Begin(c, ph, S, q)
      BY <1>2 DEF DeleteAllRuns, StopCurrentRun, DeleteRun
    <2> QED BY <2>1, BeginMoves DEF Moves
  <1>3. ASSUME NEW c \in Clients, Admit(c)
        PROVE  Moves(d)
    <2>1. CASE Admitted
      BY <1>3, <2>1, BeginMoves DEF Admit, Moves
    <2>2. CASE ~Admitted
      BY <1>3, <2>2, BeginMoves DEF Admit, Done, Moves
    <2> QED BY <2>1, <2>2
  <1>4. ASSUME NEW c \in Clients, PruneRead(c)
        PROVE  Moves(d)
    BY <1>4, BeginMoves DEF PruneRead, Moves
  <1>5. ASSUME NEW c \in Clients, CreateRow(c)
        PROVE  Moves(d)
    BY <1>5, BeginMoves DEF CreateRow, Done, Moves
  <1>6. ASSUME NEW c \in Clients, MarkRun(c)
        PROVE  Moves(d)
    <2>1. phase[c] # "prune"
      BY <1>6 DEF MarkRun, PruneOnlyDeletes
    <2>2. CASE Exists(cur[c])
      BY <1>6, <1>p, <2>1, <2>2, TurnMoves DEF MarkRun, Moves, Phases
    <2>3. CASE ~Exists(cur[c])
      BY <1>6, <2>3, BeginMoves DEF MarkRun, Done, Moves
    <2> QED BY <2>2, <2>3
  <1>7. ASSUME NEW c \in Clients, DeleteDir(c)
        PROVE  Moves(d)
    <2>1. CASE Done(c)
      BY <2>1, BeginMoves DEF Done, Moves
    <2>2. CASE Turn(c, cur[c], "next")
      BY <1>7, <1>p, <2>2, TurnMoves DEF DeleteDir, Moves, Phases
    <2> QED BY <1>7, <2>1, <2>2 DEF DeleteDir
  <1>8. ASSUME NEW c \in Clients, NEW r \in RunIds, StaleCheck(c, r)
        PROVE  Moves(d)
    <2>1. PICK where \in {"next", "stop"} : Turn(c, r, where)
      BY <1>8 DEF StaleCheck
    <2> QED BY <1>8, <2>1, TurnMoves DEF StaleCheck, Moves
  <1>9. ASSUME NEW c \in Clients, NEW r \in RunIds, StopInstances(c, r)
        PROVE  Moves(d)
    <2>1. PICK where \in {"row", "mark"} : Turn(c, r, where)
      BY <1>9 DEF StopInstances
    <2>2. phase[c] # "prune"
      BY <1>9 DEF StopInstances, StopsFirst, PruneOnlyDeletes
    <2> QED BY <1>p, <2>1, <2>2, TurnMoves DEF Moves, Phases
  <1>10. ASSUME NEW c \in Clients, NEW r \in RunIds, DeleteRow(c, r)
         PROVE  Moves(d)
    <2>1. CASE Exists(r)
      <3>1. Turn(c, r, "dir") /\ status'[r] = "NONE"
        BY <1>10, <2>1 DEF DeleteRow, TypeOK
      <3> QED BY <2>1, <3>1, TurnMoves DEF Moves
    <2>2. CASE ~Exists(r)
      BY <1>10, <2>2, BeginMoves DEF DeleteRow, Done, Moves
    <2> QED BY <2>1, <2>2
  <1>11. ASSUME NEW r \in RunIds,
                SubmitInstance(r) \/ SubmitTx(r) \/ WriteDefinition(r) \/ Deploy(r) \/ RunEnds(r)
         PROVE  Moves(d)
    BY <1>11 DEF SubmitInstance, SubmitTx, WriteDefinition, Deploy, RunEnds, Moves, Waits
  <1>12. CASE Restart
    BY <1>12 DEF Restart, Moves
  <1> QED
    BY <1>1, <1>2, <1>3, <1>4, <1>5, <1>6, <1>7, <1>8, <1>9, <1>10, <1>11, <1>12
    DEF Next, RequestStep, Clients

-----------------------------------------------------------------------------
(* Rows and directories, for any number of creators.                       *)

\* What createRun writes.
LEMMA NewRun ==
  ASSUME IInv, NEW c \in Clients, CreateRow(c)
  PROVE  /\ created \in Nat /\ created + 1 \in RunIds /\ created' = created + 1
         /\ ~Exists(created + 1) /\ submit[created + 1] = "no"
         /\ \A r \in RunIds :
             /\ r # created + 1 => status'[r] = status[r] /\ project'[r] = project[r]
                                   /\ second'[r] = second[r]
             /\ r = created + 1 => status'[r] = "PENDING" /\ project'[r] = scope[c]
                                   /\ second'[r] \in SecondsAfter(created)
         /\ UNCHANGED <<inst, dirs, subs>>
  <1>1. created \in Nat /\ created + 1 \in RunIds /\ created' = created + 1
    BY ConstantsAssumption DEF CreateRow, IInv, TypeOK
  <1>2. ~Exists(created + 1) /\ submit[created + 1] = "no"
    BY <1>1 DEF IInv, RowsAreCreated
  <1> QED BY <1>1, <1>2 DEF CreateRow, IInv, TypeOK

LEMMA InvInit == Init => IInv /\ FilesInv
  <1> SUFFICES ASSUME Init PROVE IInv /\ FilesInv
    OBVIOUS
  <1>1. TypeOK
    BY ConstantsAssumption DEF Init, TypeOK, Phases
  <1>2. RowsAreCreated /\ SecondsBounded /\ RowGoesFirst /\ PruneOnlyDeletes
    BY ConstantsAssumption DEF Init, RowsAreCreated, SecondsBounded, RowGoesFirst, PruneOnlyDeletes,
                               Exists, RunIds
  <1>3. FilesInv
    BY DEF Init, FilesInv, SecondsDiffer, KeptRunHasFiles, RunIds
  <1> QED BY <1>1, <1>2, <1>3 DEF IInv

\* When the next run may be created.
LEMMA NextSecond ==
  ASSUME IInv, created \in Nat, created + 1 \in RunIds, NEW s \in SecondsAfter(created)
  PROVE  /\ s \in Nat /\ s =< created + 1
         /\ created # 0 => created \in RunIds
         /\ "sameSecond" \notin Events => s > (IF created = 0 THEN 0 ELSE second[created])
  <1>1. CASE created = 0
    BY <1>1 DEF SecondsAfter
  <1>2. CASE created # 0
    <2>1. created \in RunIds
      BY <1>2, ConstantsAssumption DEF RunIds
    <2>2. second[created] \in Nat /\ second[created] =< created
      BY <2>1, ConstantsAssumption DEF IInv, TypeOK, SecondsBounded
    <2> QED BY <1>2, <2>1, <2>2 DEF SecondsAfter
  <1> QED BY <1>1, <1>2

\* Rows and requests of runs that were created, by every step.
LEMMA InvStep == IInv /\ [Next]_vars => IInv'
  <1> SUFFICES ASSUME IInv, Next PROVE IInv'
    BY DEF IInv, TypeOK, RowsAreCreated, SecondsBounded, RowGoesFirst, PruneOnlyDeletes, Exists
  <1>t. TypeOK'
    BY TypeStep DEF IInv
  <1>n. \A r \in RunIds : r \in Nat
    BY ConstantsAssumption DEF RunIds
  <1>1. PruneOnlyDeletes'
    <2> SUFFICES ASSUME NEW d \in Clients, phase'[d] = "prune"
                 PROVE  pc'[d] \in {"next", "dir"}
      BY DEF PruneOnlyDeletes
    <2>1. Moves(d)
      BY RequestsMove DEF IInv
    <2> QED BY <2>1 DEF Moves, Waits, IInv, PruneOnlyDeletes
  <1>2. RowsAreCreated' /\ SecondsBounded'
    <2>1. CASE \A c \in Clients : ~CreateRow(c)
      <3>1. NoNewRun
        BY <2>1, NewRuns DEF IInv
      <3> QED BY <3>1 DEF NoNewRun, IInv, RowsAreCreated, SecondsBounded, Exists
    <2>2. ASSUME NEW c \in Clients, CreateRow(c)
          PROVE  RowsAreCreated' /\ SecondsBounded'
      <3>1. /\ created \in Nat /\ created + 1 \in RunIds /\ created' = created + 1
            /\ submit' = submit
            /\ \A r \in RunIds : r # created + 1 => status'[r] = status[r] /\ second'[r] = second[r]
            /\ second'[created + 1] \in SecondsAfter(created)
        BY <2>2, NewRun
      <3>2. second'[created + 1] =< created + 1
        BY <3>1, NextSecond
      <3>3. RowsAreCreated'
        BY <3>1, <1>n DEF IInv, RowsAreCreated, Exists
      <3>4. ASSUME NEW r \in RunIds
            PROVE  second'[r] =< created + 1
        <4>1. second[r] \in Nat /\ second[r] =< created
          BY ConstantsAssumption DEF IInv, TypeOK, SecondsBounded
        <4> QED BY <3>1, <3>2, <4>1
      <3> QED BY <3>1, <3>3, <3>4 DEF SecondsBounded
    <2> QED BY <2>1, <2>2
  <1>3. RowGoesFirst'
    <2> SUFFICES ASSUME NEW d \in Clients, pc'[d] = "dir"
                 PROVE  cur'[d] \in RunIds /\ cur'[d] =< created' /\ status'[cur'[d]] = "NONE"
      BY DEF RowGoesFirst, Exists
    <2>1. Moves(d)
      BY RequestsMove DEF IInv
    <2>2. CASE \A c \in Clients : ~CreateRow(c)
      <3>1. NoNewRun
        BY <2>2, NewRuns DEF IInv
      <3> QED BY <2>1, <3>1 DEF Moves, Waits, NoNewRun, IInv, RowGoesFirst, RowsAreCreated, Exists
    <2>3. ASSUME NEW c \in Clients, CreateRow(c)
          PROVE  cur'[d] \in RunIds /\ cur'[d] =< created' /\ status'[cur'[d]] = "NONE"
      <3>1. /\ created \in Nat /\ created' = created + 1
            /\ \A r \in RunIds : r # created + 1 => status'[r] = status[r]
        BY <2>3, NewRun
      <3>2. ~(cur'[d] \in RunIds /\ Exists(cur'[d]) /\ status'[cur'[d]] = "NONE")
        BY <2>3, NewRun, <3>1 DEF Exists
      <3>3. pc[d] = "dir" /\ cur'[d] = cur[d]
        BY <2>1, <3>2 DEF Moves, Waits
      <3>4. cur[d] \in RunIds /\ cur[d] =< created /\ status[cur[d]] = "NONE"
        BY <3>3 DEF IInv, RowGoesFirst, Exists
      <3>5. cur[d] \in Nat /\ cur[d] # created + 1 /\ cur[d] =< created + 1
        BY <3>1, <3>4, <1>n
      <3> QED BY <3>1, <3>3, <3>4, <3>5
    <2> QED BY <2>2, <2>3
  <1> QED BY <1>t, <1>1, <1>2, <1>3 DEF IInv

\* A kept run keeps its files, by every step: a run directory belongs to one
\* run, and it is removed when that run's row is gone.
LEMMA FilesStep ==
  ASSUME "sameSecond" \notin Events
  PROVE  IInv /\ FilesInv /\ [Next]_vars => FilesInv'
  <1> SUFFICES ASSUME IInv, FilesInv, Next PROVE FilesInv'
    BY DEF FilesInv, SecondsDiffer, KeptRunHasFiles, Exists, Dir
  <1>n. \A r \in RunIds : r \in Nat /\ second[r] \in Nat
    BY ConstantsAssumption DEF RunIds, IInv, TypeOK
  <1>1. ASSUME NEW c \in Clients, CreateRow(c)
        PROVE  FilesInv'
    <2>1. /\ created \in Nat /\ created + 1 \in RunIds /\ created' = created + 1
          /\ ~Exists(created + 1) /\ submit[created + 1] = "no"
          /\ \A r \in RunIds : r # created + 1 =>
               status'[r] = status[r] /\ project'[r] = project[r] /\ second'[r] = second[r]
          /\ second'[created + 1] \in SecondsAfter(created)
          /\ submit' = submit /\ dirs' = dirs
      BY <1>1, NewRun
    <2>2. /\ created # 0 => created \in RunIds
          /\ second'[created + 1] \in Nat
          /\ second'[created + 1] > (IF created = 0 THEN 0 ELSE second[created])
      BY <2>1, NextSecond
    <2>3. ASSUME NEW q \in RunIds, NEW r \in RunIds, q < r, r =< created + 1
          PROVE  second'[q] < second'[r]
      <3>1. q \in Nat /\ r \in Nat /\ q >= 1 /\ q # created + 1
        BY <2>1, <2>3, ConstantsAssumption DEF RunIds
      <3>2. CASE r # created + 1
        <4>1. second[q] < second[r]
          BY <2>1, <2>3, <3>1, <3>2 DEF FilesInv, SecondsDiffer
        <4> QED BY <2>1, <3>1, <3>2, <4>1
      <3>3. CASE r = created + 1
        <4>1. created # 0 /\ q =< created
          BY <2>1, <2>3, <3>1, <3>3
        <4>2. second[q] =< second[created]
          <5>1. CASE q = created
            BY <5>1, <1>n
          <5>2. CASE q # created
            BY <2>1, <2>2, <3>1, <4>1, <5>2, <1>n DEF FilesInv, SecondsDiffer
          <5> QED BY <5>1, <5>2
        <4> QED BY <2>1, <2>2, <3>1, <3>3, <4>1, <4>2, <1>n
      <3> QED BY <3>2, <3>3
    <2>4. KeptRunHasFiles'
      BY <2>1 DEF FilesInv, KeptRunHasFiles, Exists, Dir
    <2> QED BY <2>1, <2>3, <2>4 DEF FilesInv, SecondsDiffer
  <1>2. CASE \A c \in Clients : ~CreateRow(c)
    <2>1. NoNewRun
      BY <1>2, NewRuns DEF IInv
    <2>2. SecondsDiffer'
      BY <2>1 DEF NoNewRun, FilesInv, SecondsDiffer
    <2>3. \A r \in RunIds : Dir(r)' = Dir(r)
      BY <2>1 DEF NoNewRun, Dir
    <2>4. ASSUME NEW c \in Clients, DeleteDir(c)
          PROVE  KeptRunHasFiles'
      <3> SUFFICES ASSUME NEW r \in RunIds, submit'[r] = "done", Exists(r)'
                   PROVE  Dir(r) \in dirs'
        BY <2>3 DEF KeptRunHasFiles
      <3>1. Exists(r) /\ submit[r] = "done" /\ Dir(r) \in dirs
        BY <2>4 DEF DeleteDir, Exists, FilesInv, KeptRunHasFiles
      <3>2. cur[c] \in RunIds /\ cur[c] =< created /\ ~Exists(cur[c])
        BY <2>4 DEF DeleteDir, IInv, RowGoesFirst
      <3>3. cur[c] # r /\ r =< created
        BY <3>1, <3>2 DEF IInv, RowsAreCreated
      <3>4. second[r] # second[cur[c]]
        <4>1. r \in Nat /\ cur[c] \in Nat /\ (r < cur[c] \/ cur[c] < r)
          BY <3>2, <3>3, <1>n
        <4>2. second[r] \in Nat /\ second[cur[c]] \in Nat
          BY <3>2, <1>n
        <4>3. second[r] < second[cur[c]] \/ second[cur[c]] < second[r]
          BY <3>2, <3>3, <4>1 DEF FilesInv, SecondsDiffer
        <4> QED BY <4>2, <4>3
      <3>5. Dir(r) # Dir(cur[c])
        BY <3>4 DEF Dir
      <3> QED BY <2>4, <3>1, <3>5 DEF DeleteDir
    <2>5. ASSUME NEW r \in RunIds, WriteDefinition(r)
          PROVE  KeptRunHasFiles'
      <3>1. dirs' = dirs \cup {Dir(r)} /\ status' = status
            /\ \A q \in RunIds : q # r => submit'[q] = submit[q]
        BY <2>5 DEF WriteDefinition, IInv, TypeOK
      <3> QED BY <2>3, <3>1 DEF FilesInv, KeptRunHasFiles, Exists
    <2>6. CASE \A r \in RunIds : submit'[r] = "done" => submit[r] = "done"
      <3>1. dirs \subseteq dirs' => KeptRunHasFiles'
        BY <2>1, <2>3, <2>6 DEF FilesInv, KeptRunHasFiles, NoNewRun
      <3>2. dirs \subseteq dirs' \/ \E c \in Clients : DeleteDir(c)
        BY DEF Next, RequestStep, CreateRun, DeleteAllRuns, StopCurrentRun, DeleteRun, Admit, PruneRead,
               CreateRow, MarkRun, StaleCheck, StopInstances, DeleteRow, SubmitInstance, SubmitTx,
               WriteDefinition, Deploy, RunEnds, Restart
      <3> QED BY <2>2, <2>4, <3>1, <3>2 DEF FilesInv
    <2>7. (\A r \in RunIds : submit'[r] = "done" => submit[r] = "done") \/ \E r \in RunIds : WriteDefinition(r)
      <3>1. ASSUME NEW r \in RunIds, SubmitInstance(r) \/ SubmitTx(r)
            PROVE  \A q \in RunIds : submit'[q] = "done" => submit[q] = "done"
        BY <3>1 DEF SubmitInstance, SubmitTx, IInv, TypeOK
      <3> QED
        BY <3>1 DEF Next, RequestStep, CreateRun, DeleteAllRuns, StopCurrentRun, DeleteRun, Admit, PruneRead,
               CreateRow, MarkRun, StaleCheck, StopInstances, DeleteRow, DeleteDir, Deploy, RunEnds, Restart
    <2> QED BY <2>2, <2>5, <2>6, <2>7 DEF FilesInv
  <1> QED BY <1>1, <1>2

-----------------------------------------------------------------------------
(* One active run and the limit of the history, with one creator: two      *)
(* creators can both pass the check of createRun (run admit_race).         *)

OneCreator == \A c, d \in Creators : c = d

LEMMA CreatorInit == Init => CreatorInv
  <1> SUFFICES ASSUME Init PROVE CreatorInv
    OBVIOUS
  <1>1. PreparesForCreator /\ NoneWhilePreparing /\ PruneLeavesRoom
    BY DEF Init, PreparesForCreator, NoneWhilePreparing, PruneLeavesRoom, Clients
  <1>2. AtMostOneLive
    BY DEF Init, AtMostOneLive, Live, RowsIn, Active
  <1>3. \A p \in Projects : Kept(p) = {}
    BY DEF Init, Kept, Exists
  <1>4. HistoryBound
    BY <1>3, FS_EmptySet, ConstantsAssumption DEF HistoryBound, KeepCount
  <1> QED BY <1>1, <1>2, <1>4 DEF CreatorInv

\* A smaller set of runs is no more runs.
LEMMA FewerRuns ==
  ASSUME NEW S \in SUBSET RunIds, NEW T \in SUBSET S, NEW k \in Nat, Cardinality(S) =< k
  PROVE  Cardinality(T) =< k
  <1>1. IsFiniteSet(S) /\ Cardinality(S) \in Nat /\ Cardinality(T) \in Nat
    BY RunsAreFinite
  <1>2. Cardinality(T) =< Cardinality(S)
    BY <1>1, FS_Subset
  <1> QED BY <1>1, <1>2

\* A step that creates no run leaves no more runs to count.
LEMMA KeptShrinks ==
  ASSUME NoNewRun, NEW p
  PROVE  /\ \A r \in Kept(p)' : r \in Kept(p)
         /\ \A r \in Live' : r \in Live
  BY DEF NoNewRun, Kept, Live, RowsIn

\* What is left to keep once the finished runs were read.
LEMMA PruningLeavesRoom ==
  ASSUME IInv, NEW c \in Clients, Live = {}
  PROVE  Cardinality(Kept(scope[c]) \ ToPrune(c)) =< KeepCount
  <1> DEFINE finished == {r \in RowsIn({"FINISHED"}) : InScope(c, r)}
             left == {r \in finished : ~(Cardinality({q \in finished : q > r}) >= KeepCount)}
  <1>1. KeepCount \in Nat \ {0}
    BY ConstantsAssumption DEF KeepCount
  <1>2. finished \in SUBSET RunIds
    BY DEF RowsIn
  <1>3. Cardinality(left) =< KeepCount
    <2> HIDE DEF finished
    <2> QED BY <1>1, <1>2, FewAreNewest
  <1>4. Kept(scope[c]) \ ToPrune(c) \subseteq left
    <2> SUFFICES ASSUME NEW r \in RunIds, r \notin revived, Exists(r), project[r] = scope[c], r \notin ToPrune(c)
                 PROVE  r \in left
      BY DEF Kept
    <2>1. status[r] = "FINISHED"
      BY DEF Live, RowsIn, Active, Exists, IInv, TypeOK
    <2>2. r \in finished
      BY <2>1 DEF RowsIn, InScope
    <2> QED BY <2>2 DEF ToPrune
  <1>5. left \in SUBSET RunIds
    BY <1>2
  <1> HIDE DEF left
  <1> QED BY <1>1, <1>3, <1>4, <1>5, FewerRuns

\* What one creator can rely on, by every step.
LEMMA CreatorStep ==
  ASSUME OneCreator
  PROVE  IInv /\ CreatorInv /\ [Next]_vars => CreatorInv'
  <1> SUFFICES ASSUME IInv, CreatorInv, Next PROVE CreatorInv'
    BY DEF CreatorInv, PreparesForCreator, NoneWhilePreparing, AtMostOneLive, PruneLeavesRoom,
           HistoryBound, Kept, Live, RowsIn, Exists
  <1>m. \A d \in Clients : Moves(d)
    BY RequestsMove DEF IInv
  <1>c. Creators \subseteq Clients /\ KeepCount \in Nat
    BY ConstantsAssumption DEF Clients, KeepCount
  <1>1. PreparesForCreator'
    BY <1>m DEF Moves, Waits, CreatorInv, PreparesForCreator
  <1>2. CASE \A c \in Clients : ~CreateRow(c)
    <2>1. NoNewRun
      BY <1>2, NewRuns DEF IInv
    <2>2. NoneWhilePreparing'
      <3> SUFFICES ASSUME NEW d \in Creators, phase'[d] \in {"cancel", "prune"}
                   PROVE  Live' = {}
        BY DEF NoneWhilePreparing
      <3>1. phase[d] \in {"cancel", "prune"} \/ Admitted
        BY <1>m, <1>c DEF Moves, Waits
      <3>2. Live = {}
        BY <3>1 DEF CreatorInv, NoneWhilePreparing, Admitted, Live
      <3> QED BY <2>1, <3>2, KeptShrinks
    <2>3. AtMostOneLive'
      BY <2>1, KeptShrinks DEF CreatorInv, AtMostOneLive
    <2>4. HistoryBound'
      <3> SUFFICES ASSUME NEW p \in Projects
                   PROVE  Cardinality(Kept(p)') =< KeepCount + 1
        BY DEF HistoryBound
      <3>1. Kept(p) \in SUBSET RunIds /\ Kept(p)' \in SUBSET Kept(p)
        BY <2>1, KeptShrinks DEF Kept
      <3>2. Cardinality(Kept(p)) =< KeepCount + 1 /\ KeepCount + 1 \in Nat
        BY <1>c DEF CreatorInv, HistoryBound
      <3> QED BY <3>1, <3>2, FewerRuns
    <2>5. PruneLeavesRoom'
      <3> SUFFICES ASSUME NEW d \in Creators, phase'[d] = "prune"
                   PROVE  Cardinality(Kept(scope[d])' \ todo'[d]) =< KeepCount
        BY DEF PruneLeavesRoom
      <3>1. scope'[d] = scope[d]
        BY <1>m, <1>c DEF Moves, Waits
      <3>2. CASE phase[d] = "cancel" /\ todo'[d] = ToPrune(d) /\ UNCHANGED dataVars
        <4>1. Cardinality(Kept(scope[d]) \ ToPrune(d)) =< KeepCount
          BY <3>2, <1>c, PruningLeavesRoom DEF CreatorInv, NoneWhilePreparing
        <4>2. Kept(scope[d])' = Kept(scope[d])
          BY <3>1, <3>2 DEF Kept, Exists
        <4> QED BY <3>2, <4>1, <4>2
      <3>3. CASE /\ phase[d] = "prune"
                 /\ \A r \in todo[d] \ todo'[d] : r \in RunIds => ~Exists(r) \/ status'[r] = "NONE"
        <4>1. Kept(scope[d])' \ todo'[d] \in SUBSET (Kept(scope[d]) \ todo[d])
          <5> SUFFICES ASSUME NEW r \in Kept(scope[d])', r \notin todo'[d]
                       PROVE  r \in Kept(scope[d]) /\ r \notin todo[d]
            OBVIOUS
          <5>1. r \in RunIds /\ Exists(r)'
            BY DEF Kept
          <5>2. r \in Kept(scope[d])
            BY <2>1, <3>1, <5>1 DEF Kept, NoNewRun
          <5>3. Exists(r) /\ status'[r] # "NONE"
            BY <5>1, <5>2 DEF Kept, Exists
          <5> QED BY <3>3, <5>1, <5>2, <5>3
        <4>2. Cardinality(Kept(scope[d]) \ todo[d]) =< KeepCount
          BY <3>3 DEF CreatorInv, PruneLeavesRoom
        <4>3. Kept(scope[d]) \ todo[d] \in SUBSET RunIds
          BY DEF Kept
        <4> QED BY <1>c, <4>1, <4>2, <4>3, FewerRuns
      <3>4. \/ phase[d] = "cancel" /\ todo'[d] = ToPrune(d) /\ UNCHANGED dataVars
            \/ phase[d] = "prune" /\ todo'[d] = todo[d]
            \/ phase[d] = "prune" /\ pc[d] = "dir" /\ todo'[d] = todo[d] \ {cur[d]}
            \/ phase[d] = "prune" /\ status'[cur'[d]] = "NONE" /\ todo'[d] = todo[d] \ {cur'[d]}
        BY <1>m, <1>c DEF Moves, Waits
      <3>5. pc[d] = "dir" => ~Exists(cur[d])
        BY <1>c DEF IInv, RowGoesFirst
      <3> QED BY <3>2, <3>3, <3>4, <3>5
    <2> QED BY <1>1, <2>2, <2>3, <2>4, <2>5 DEF CreatorInv
  <1>3. ASSUME NEW c \in Clients, CreateRow(c)
        PROVE  CreatorInv'
    <2>1. phase[c] = "prune" /\ todo[c] = {} /\ phase'[c] = "idle" /\ c \in Creators
      BY <1>3, BeginMoves DEF CreateRow, Done, IInv, CreatorInv, PreparesForCreator
    <2>2. \A d \in Creators : d = c
      BY <2>1 DEF OneCreator
    <2>3. NoneWhilePreparing' /\ PruneLeavesRoom'
      BY <2>1, <2>2 DEF NoneWhilePreparing, PruneLeavesRoom
    <2>4. Live = {}
      BY <2>1 DEF CreatorInv, NoneWhilePreparing
    <2>5. /\ created \in Nat /\ created + 1 \in RunIds
          /\ \A r \in RunIds : r # created + 1 => status'[r] = status[r] /\ project'[r] = project[r]
          /\ project'[created + 1] = scope[c]
          /\ revived' = revived
      BY <1>3, NewRun
    <2>6. AtMostOneLive'
      <3>1. \A r \in Live' : r = created + 1
        BY <2>4, <2>5 DEF Live, RowsIn
      <3> QED BY <3>1 DEF AtMostOneLive
    <2>7. HistoryBound'
      <3> SUFFICES ASSUME NEW p \in Projects
                   PROVE  Cardinality(Kept(p)') =< KeepCount + 1
        BY DEF HistoryBound
      <3>1. Kept(p) \in SUBSET RunIds
        BY DEF Kept
      <3>2. CASE p = scope[c]
        <4> DEFINE more == Kept(p) \cup {created + 1}
        <4>1. Kept(p)' \in SUBSET more
          BY <2>5 DEF Kept, Exists
        <4>2. Kept(p) \ todo[c] = Kept(p)
          BY <2>1
        <4>3. Cardinality(Kept(p)) =< KeepCount
          BY <2>1, <3>2, <4>2 DEF CreatorInv, PruneLeavesRoom
        <4>4. IsFiniteSet(Kept(p)) /\ Cardinality(Kept(p)) \in Nat
          BY <3>1, RunsAreFinite
        <4>5. Cardinality(more) =< KeepCount + 1 /\ KeepCount + 1 \in Nat
          <5>1. Cardinality(more) = (IF created + 1 \in Kept(p) THEN Cardinality(Kept(p))
                                                              ELSE Cardinality(Kept(p)) + 1)
            BY <4>4, FS_AddElement
          <5> HIDE DEF more
          <5> QED BY <5>1, <4>3, <4>4, <1>c
        <4>6. more \in SUBSET RunIds
          BY <2>5, <3>1
        <4> HIDE DEF more
        <4> QED BY <4>1, <4>5, <4>6, FewerRuns
      <3>3. CASE p # scope[c]
        <4>1. Kept(p)' \in SUBSET Kept(p)
          BY <2>5, <3>3 DEF Kept, Exists
        <4>2. Cardinality(Kept(p)) =< KeepCount + 1 /\ KeepCount + 1 \in Nat
          BY <1>c DEF CreatorInv, HistoryBound
        <4> QED BY <3>1, <4>1, <4>2, FewerRuns
      <3> QED BY <3>2, <3>3
    <2> QED BY <1>1, <2>3, <2>6, <2>7 DEF CreatorInv
  <1> QED BY <1>2, <1>3

-----------------------------------------------------------------------------
(* The theorems.                                                           *)

LEMMA Invariance == Spec => []IInv
  <1>1. Init => IInv
    BY InvInit
  <1>2. IInv /\ [Next]_vars => IInv'
    BY InvStep
  <1> QED BY <1>1, <1>2, PTL DEF Spec

\* The types of rows, directories and requests, for any number of creators.
THEOREM TypeCorrect == Spec => []TypeOK
  <1>1. IInv => TypeOK
    BY DEF IInv
  <1> QED BY <1>1, Invariance, PTL

\* A run whose row is there has its directory, for any number of creators, of
\* requests to stop and delete, of restarts and of failing deletions, as long as no
\* two runs are created in one second.
THEOREM KeptFiles ==
  ASSUME "sameSecond" \notin Events
  PROVE  Spec => []KeptRunHasFiles
  <1>1. Init => IInv /\ FilesInv
    BY InvInit
  <1>2. IInv /\ FilesInv /\ [Next]_vars => FilesInv'
    BY FilesStep
  <1>3. FilesInv => KeptRunHasFiles
    BY DEF FilesInv
  <1> QED BY <1>1, <1>2, <1>3, Invariance, PTL DEF Spec

LEMMA CreatorInvariance ==
  ASSUME OneCreator
  PROVE  Spec => []CreatorInv
  <1>1. Init => CreatorInv
    BY CreatorInit
  <1>2. IInv /\ CreatorInv /\ [Next]_vars => CreatorInv'
    BY CreatorStep
  <1> QED BY <1>1, <1>2, Invariance, PTL DEF Spec

\* With one client that creates runs at most one run is active, apart from those
\* that a late submission revives.
THEOREM OneActive ==
  ASSUME OneCreator
  PROVE  Spec => []OneActiveRun
  <1>1. CreatorInv => OneActiveRun
    <2> SUFFICES ASSUME AtMostOneLive PROVE Cardinality(Live) =< 1
      BY DEF CreatorInv, OneActiveRun, Live, Active
    <2>1. CASE Live = {}
      BY <2>1, FS_EmptySet
    <2>2. CASE Live # {}
      <3>1. PICK r \in Live : TRUE
        BY <2>2
      <3>2. Live = {r}
        BY <3>1 DEF AtMostOneLive
      <3> QED BY <3>2, FS_Singleton
    <2> QED BY <2>1, <2>2
  <1> QED BY <1>1, CreatorInvariance, PTL

\* ... a project never has more than keepCount runs and the new one: with a
\* history of one run there may be two,
THEOREM HistoryBounded ==
  ASSUME OneCreator
  PROVE  Spec => []HistoryBound
  <1>1. CreatorInv => HistoryBound
    BY DEF CreatorInv
  <1> QED BY <1>1, CreatorInvariance, PTL

\* ... and with a longer one the limit is what the user has set.
THEOREM HistoryLimited ==
  ASSUME OneCreator, MaxRunHistory > 1
  PROVE  Spec => []HistoryLimit
  <1>1. HistoryBound => HistoryLimit
    <2>1. KeepCount + 1 = MaxRunHistory
      BY ConstantsAssumption DEF KeepCount
    <2> QED BY <2>1 DEF HistoryBound, HistoryLimit, Kept
  <1> QED BY <1>1, HistoryBounded, PTL
=============================================================================
