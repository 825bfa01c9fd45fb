--------------------------- MODULE RunAdmission ---------------------------
(***************************************************************************)
(* The Control Tower's runs as a whole: which run may start, what a new    *)
(* run does to the ones before it, and what is kept of a run (its row and  *)
(* its directory) until it is pruned or deleted.                           *)
(*                                                                         *)
(* A request is a sequence of awaits over the database, Docker and the     *)
(* file system, and requests interleave.  What happens inside a run is     *)
(* RunLifecycle's subject; here a run has one instance, which is pending,  *)
(* booting (claimed, no network yet), up, or over.                         *)
(***************************************************************************)
EXTENDS Integers, FiniteSets, FiniteSetsExt

CONSTANTS
    Creators,       \* clients that send POST /runs, one at a time each
    Stoppers,       \* clients that stop and delete, one at a time each
    Projects,       \* the projectPath of requests
    NoProject,      \* ... when the client sends none
    MaxRuns,        \* bound on the runs created
    MaxRunHistory,  \* getMaxRunHistory
    Events          \* what may happen besides POST /runs

\* stop, delete   POST /runs/stop, DELETE /runs/:runId and /runs/all
\* rmfails        fs.rm of a run directory throws
\* sameSecond     a run may be created in the second of the one before
\* restart        the process dies and is started again
AllEvents == {"stop", "delete", "rmfails", "sameSecond", "restart"}

ASSUME ConstantsAssumption ==
    /\ MaxRuns \in Nat
    /\ MaxRunHistory \in Nat \ {0}
    /\ Events \subseteq AllEvents

Clients == Creators \cup Stoppers
RunIds == 1 .. MaxRuns

VARIABLES
    status,      \* Run.status by run; NONE: no row, FINISHED: see Verdict
    project,     \* Run.projectPath
    second,      \* Run.createdAt, to the second
    inst,        \* the run's instance
    dirs,        \* run directories on disk
    submit,      \* by run, the next write of its submission, if it has one
    revived,     \* runs that were over when submitInstance made them RUNNING
    created,     \* runs created so far; ids are numbered in that order
    phase,       \* per client: which loop of which handler it is in
    pc,          \* ... and where in the turn of the loop
    cur,         \* ... the run this turn is about
    todo,        \* ... the runs that are left of the snapshot
    fresh,       \* ... those whose instance was PENDING in the snapshot
    scope        \* ... the project the request is for

rows   == <<status, project, second>>
subs   == <<submit, revived>>
opVars == <<phase, pc, cur, todo, fresh, scope>>
dataVars == <<rows, inst, dirs, subs, created>>
vars   == <<dataVars, opVars>>

\* Mutant of Active: the queries forget runs that wait for their submission.
ActiveMutant == {"RUNNING"}

\* The run that createRun, recoverStaleRuns, prepareForNewRun and the stop
\* requests look for.
Active == {"PENDING", "RUNNING"}

RowsIn(S) == {r \in RunIds : status[r] \in S}
Exists(r) == status[r] # "NONE"
Phases == {"idle", "stale", "stop", "cancel", "prune", "delete"}

TypeOK ==
    /\ status \in [RunIds -> {"NONE", "PENDING", "RUNNING", "FINISHED"}]
    /\ project \in [RunIds -> Projects \cup {NoProject}]
    /\ second \in [RunIds -> 0 .. MaxRuns]
    /\ inst \in [RunIds -> {"pending", "booting", "up", "over"}]
    /\ dirs \subseteq (Projects \cup {NoProject}) \X (0 .. MaxRuns)
    /\ submit \in [RunIds -> {"no", "tx", "files", "done"}]
    /\ revived \subseteq RunIds
    /\ created \in 0 .. MaxRuns
    /\ phase \in [Clients -> Phases]
    /\ pc \in [Clients -> {"next", "stop", "mark", "row", "dir"}]
    /\ cur \in [Clients -> 0 .. MaxRuns]
    /\ todo \in [Clients -> SUBSET RunIds]
    /\ fresh \in [Clients -> SUBSET RunIds]
    /\ scope \in [Clients -> Projects \cup {NoProject}]

Init ==
    /\ status = [r \in RunIds |-> "NONE"]
    /\ project = [r \in RunIds |-> NoProject]
    /\ second = [r \in RunIds |-> 0]
    /\ inst = [r \in RunIds |-> "pending"]
    /\ dirs = {} /\ revived = {}
    /\ submit = [r \in RunIds |-> "no"]
    /\ created = 0
    /\ phase = [c \in Clients |-> "idle"]
    /\ pc = [c \in Clients |-> "next"]
    /\ cur = [c \in Clients |-> 0]
    /\ todo = [c \in Clients |-> {}]
    /\ fresh = [c \in Clients |-> {}]
    /\ scope = [c \in Clients |-> NoProject]

\* Mutant of Dir: the clock does not count.
DirMutant(r) == <<project[r], 0>>

\* runDirPath: the project and the second of creation.
Dir(r) == <<project[r], second[r]>>

\* The where clause of the queries: a request without a project means all.
InScope(c, r) == scope[c] = NoProject \/ project[r] = scope[c]

-----------------------------------------------------------------------------
(* Where a request is                                                      *)

Begin(c, ph, snapshot, p) ==
    /\ phase' = [phase EXCEPT ![c] = ph]
    /\ pc' = [pc EXCEPT ![c] = "next"]
    /\ todo' = [todo EXCEPT ![c] = snapshot]
    /\ fresh' = [fresh EXCEPT ![c] = {r \in snapshot : inst[r] = "pending"}]
    /\ scope' = [scope EXCEPT ![c] = p]
    /\ cur' = [cur EXCEPT ![c] = 0]

\* The handler returns or throws.
Done(c) == Begin(c, "idle", {}, NoProject)

\* The turn of the loop about run r goes on, or its last step is done; after
\* the last turn a request that only stops or deletes is answered.
Turn(c, r, where) ==
    IF phase[c] \in {"stop", "delete"} /\ where = "next" /\ todo[c] \ {r} = {}
    THEN Done(c)
    ELSE /\ pc' = [pc EXCEPT ![c] = where]
         /\ cur' = [cur EXCEPT ![c] = IF where = "next" THEN 0 ELSE r]
         /\ todo' = [todo EXCEPT ![c] = @ \ {r}]
         /\ UNCHANGED <<phase, fresh, scope>>

-----------------------------------------------------------------------------
(* createRun                                                               *)

\* recoverStaleRuns takes its snapshot: the active runs of every project.
CreateRun(c, p) ==
    /\ phase[c] = "idle"
    /\ Begin(c, "stale", RowsIn(Active), p)
    /\ UNCHANGED dataVars

\* hasLiveContainers: PENDING in the snapshot, or a network that exists now.
HasLiveContainers(c, r) == r \in fresh[c] \/ inst[r] = "up"

StaleCheck(c, r) ==
    /\ phase[c] = "stale" /\ pc[c] = "next"
    /\ r \in todo[c]
    /\ Turn(c, r, IF HasLiveContainers(c, r) THEN "next" ELSE "stop")
    /\ UNCHANGED dataVars

\* Mutant of Admitted: the check for an active run is missing.
AdmittedMutant == TRUE

\* The query for an active run, of any project.
Admitted == RowsIn(Active) = {}

\* ConflictException, or on to prepareForNewRun and its active runs.
Admit(c) ==
    /\ phase[c] = "stale" /\ pc[c] = "next" /\ todo[c] = {}
    /\ IF Admitted
       THEN Begin(c, "cancel", {r \in RowsIn(Active) : InScope(c, r)}, scope[c])
       ELSE Done(c)
    /\ UNCHANGED dataVars

\* Mutant of KeepCount: the new run's own slot is forgotten.
KeepCountMutant == MaxRunHistory

\* How many finished runs prepareForNewRun keeps.
KeepCount == IF MaxRunHistory - 1 > 1 THEN MaxRunHistory - 1 ELSE 1

\* slice(keepCount) of the finished runs in scope, the newest first.
ToPrune(c) ==
    LET finished == {r \in RowsIn({"FINISHED"}) : InScope(c, r)}
    IN  {r \in finished : Cardinality({q \in finished : q > r}) >= KeepCount}

PruneRead(c) ==
    /\ phase[c] = "cancel" /\ pc[c] = "next" /\ todo[c] = {}
    /\ Begin(c, "prune", ToPrune(c), scope[c])
    /\ UNCHANGED dataVars

\* When the run after run r may be created.
SecondsAfter(r) ==
    LET last == IF r = 0 THEN 0 ELSE second[r]
    IN  {last + 1} \cup (IF "sameSecond" \in Events THEN {last} ELSE {})

\* run.create and registerInstance; the project's run directory is fixed by it.
CreateRow(c) ==
    LET r == created + 1 IN
    /\ phase[c] = "prune" /\ pc[c] = "next" /\ todo[c] = {}
    /\ r \in RunIds
    /\ status' = [status EXCEPT ![r] = "PENDING"]
    /\ project' = [project EXCEPT ![r] = scope[c]]
    /\ \E s \in SecondsAfter(created) : second' = [second EXCEPT ![r] = s]
    /\ created' = r
    /\ Done(c)
    /\ UNCHANGED <<inst, dirs, subs>>

-----------------------------------------------------------------------------
(* stopCurrentRun, deleteRun, deleteAllRuns                                *)

\* The newest active run, of any project.
StopCurrentRun(c) ==
    /\ "stop" \in Events
    /\ phase[c] = "idle"
    /\ RowsIn(Active) # {}
    /\ Begin(c, "stop", {Max(RowsIn(Active))}, scope[c])
    /\ UNCHANGED dataVars

DeleteRun(c, r) ==
    /\ "delete" \in Events
    /\ phase[c] = "idle"
    /\ Exists(r)
    /\ Begin(c, "delete", {r}, scope[c])
    /\ UNCHANGED dataVars

DeleteAllRuns(c, p) ==
    /\ "delete" \in Events
    /\ phase[c] = "idle"
    /\ LET all == {r \in RunIds :
                     Exists(r) /\ (p = NoProject \/ project[r] = p)}
       IN  all # {} /\ Begin(c, "delete", all, p)
    /\ UNCHANGED dataVars

\* Where a loop begins its turn about run r.
StopsFirst(c, r) ==
    \/ phase[c] \in {"cancel", "stop", "delete"} /\ pc[c] = "next" /\ r \in todo[c]
    \/ pc[c] = "stop" /\ r = cur[c]
DeletesRow(c, r) ==
    \/ phase[c] = "prune" /\ pc[c] = "next" /\ todo[c] # {} /\ r = Max(todo[c])
    \/ pc[c] = "row" /\ r = cur[c]

-----------------------------------------------------------------------------
(* The steps the loops share, each after an await                          *)

\* stopInstances of RunCleanupService (RunLifecycle has its steps).
StopInstances(c, r) ==
    /\ StopsFirst(c, r)
    /\ inst' = [inst EXCEPT ![r] = "over"]
    /\ Turn(c, r, IF phase[c] = "delete" THEN "row" ELSE "mark")
    /\ UNCHANGED <<rows, dirs, subs, created>>

\* What becomes of a run that is given up or cancelled.  FINISHED stands for
\* FAILED (recoverStaleRuns), CANCELLED and COMPLETED, which every query here
\* treats alike.
Verdict == "FINISHED"

\* run.update, which throws when the row is gone.
MarkRun(c) ==
    /\ pc[c] = "mark"
    /\ IF Exists(cur[c])
       THEN /\ status' = [status EXCEPT ![cur[c]] = Verdict]
            /\ Turn(c, cur[c], "next")
       ELSE /\ Done(c)
            /\ UNCHANGED status
    /\ UNCHANGED <<project, second, inst, dirs, subs, created>>

\* run.delete, which throws when the row is gone.
DeleteRow(c, r) ==
    /\ DeletesRow(c, r)
    /\ status' = [status EXCEPT ![r] = "NONE"]
    /\ IF Exists(r) THEN Turn(c, r, "dir") ELSE Done(c)
    /\ UNCHANGED <<project, second, inst, dirs, subs, created>>

\* A run without a project has no directory that is deleted.
DeletesDir(r) == project[r] # NoProject

\* deleteRunDir.
DeleteDir(c) ==
    /\ pc[c] = "dir"
    /\ \/ /\ dirs' = IF DeletesDir(cur[c]) THEN dirs \ {Dir(cur[c])} ELSE dirs
          /\ Turn(c, cur[c], "next")
       \/ /\ "rmfails" \in Events
          /\ DeletesDir(cur[c]) /\ Dir(cur[c]) \in dirs
          /\ Done(c)
          /\ UNCHANGED dirs
    /\ UNCHANGED <<rows, inst, subs, created>>

-----------------------------------------------------------------------------
(* What a run does meanwhile: see RunLifecycle                             *)

\* submitInstance reads the run, which is PENDING then, and its instance; it
\* does not ask whether the run is over.
SubmitInstance(r) ==
    /\ Exists(r) /\ inst[r] = "pending"
    /\ submit[r] = "no"
    /\ submit' = [submit EXCEPT ![r] = "tx"]
    /\ UNCHANGED <<rows, inst, dirs, revived, created, opVars>>

\* The transaction: RUNNING by the status that was read, or an exception when
\* the rows are gone.
SubmitTx(r) ==
    /\ submit[r] = "tx"
    /\ IF Exists(r)
       THEN /\ status' = [status EXCEPT ![r] = "RUNNING"]
            /\ submit' = [submit EXCEPT ![r] = "files"]
            /\ revived' = IF status[r] = "FINISHED" THEN revived \cup {r}
                                                  ELSE revived
       ELSE /\ submit' = [submit EXCEPT ![r] = "no"]
            /\ UNCHANGED <<status, revived>>
    /\ UNCHANGED <<project, second, inst, dirs, created, opVars>>

\* mkdir -p and the files, in the directory registered for the instance.
WriteDefinition(r) ==
    /\ submit[r] = "files"
    /\ submit' = [submit EXCEPT ![r] = "done"]
    /\ dirs' = dirs \cup {Dir(r)}
    /\ UNCHANGED <<rows, inst, revived, created, opVars>>

\* The instance is claimed; then it has a network.
Deploy(r) ==
    /\ status[r] \in Active /\ submit[r] = "done"
    /\ \/ inst[r] = "pending" /\ inst' = [inst EXCEPT ![r] = "booting"]
       \/ inst[r] = "booting" /\ inst' = [inst EXCEPT ![r] = "up"]
    /\ UNCHANGED <<rows, dirs, subs, created, opVars>>

\* The instance is stopped, and checkRunCompletion writes the verdict.
RunEnds(r) ==
    /\ status[r] \in Active /\ inst[r] \in {"up", "over"}
    /\ inst' = [inst EXCEPT ![r] = "over"]
    /\ status' = [status EXCEPT ![r] = "FINISHED"]
    /\ UNCHANGED <<project, second, dirs, subs, created, opVars>>

\* The process dies; at start-up recoverOrphanedRuns cancels active runs
\* before requests are served.
Restart ==
    /\ "restart" \in Events
    /\ status' = [r \in RunIds |-> IF status[r] \in Active THEN "FINISHED"
                                                            ELSE status[r]]
    /\ inst' = [r \in RunIds |-> IF status[r] \in Active THEN "over"
                                                          ELSE inst[r]]
    /\ submit' = [r \in RunIds |-> IF submit[r] = "done" THEN "done" ELSE "no"]
    /\ phase' = [c \in Clients |-> "idle"]
    /\ pc' = [c \in Clients |-> "next"]
    /\ todo' = [c \in Clients |-> {}]
    /\ fresh' = [c \in Clients |-> {}]
    /\ cur' = [c \in Clients |-> 0]
    /\ scope' = [c \in Clients |-> NoProject]
    /\ UNCHANGED <<project, second, dirs, revived, created>>

-----------------------------------------------------------------------------
RequestStep(c) ==
    \/ Admit(c) \/ PruneRead(c) \/ CreateRow(c) \/ MarkRun(c) \/ DeleteDir(c)
    \/ \E r \in RunIds :
        StaleCheck(c, r) \/ StopInstances(c, r) \/ DeleteRow(c, r)

Next ==
    \/ \E c \in Creators, p \in Projects : CreateRun(c, p)
    \/ \E c \in Stoppers :
        \/ \E p \in Projects : DeleteAllRuns(c, p)
        \/ StopCurrentRun(c)
        \/ \E r \in RunIds : DeleteRun(c, r)
    \/ \E c \in Clients : RequestStep(c)
    \/ \E r \in RunIds :
        \/ SubmitInstance(r) \/ SubmitTx(r) \/ WriteDefinition(r)
        \/ Deploy(r) \/ RunEnds(r)
    \/ Restart

Spec == Init /\ [][Next]_vars

-----------------------------------------------------------------------------
(* Properties                                                              *)

\* createRun: "CT enforces a single active run": no two requests make a run
\* each.  Runs that a late submission revives are left out: RunLifecycle shows
\* what becomes of them.
OneActiveRun == Cardinality(RowsIn({"PENDING", "RUNNING"}) \ revived) <= 1

\* prepareForNewRun: the new run "will occupy a slot, bringing the total to
\* maxRunHistory".  A run that was revived between the two queries of
\* prepareForNewRun is neither cancelled nor counted, so it comes on top.
HistoryLimit ==
    \A p \in Projects :
        Cardinality({r \in RunIds \ revived : Exists(r) /\ project[r] = p})
            <= MaxRunHistory

\* A run that is kept keeps its files: no pruning, deletion or later run
\* removes the directory of a run whose row is there.
KeptRunHasFiles ==
    \A r \in RunIds : submit[r] = "done" /\ Exists(r) => Dir(r) \in dirs
=============================================================================
