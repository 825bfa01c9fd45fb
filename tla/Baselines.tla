----------------------------- MODULE Baselines -----------------------------
(***************************************************************************)
(* The baselines of visual matching on their way through runs and reviews. *)
(* The CLI uploads those of the project before it submits a definition;    *)
(* the Control Tower mounts them into the test agent; the agent judges its *)
(* captures against them and uploads each with its verdict; and a review   *)
(* makes captures the baselines of the next run.                           *)
(*                                                                         *)
(* A project is a sequence of definitions, a definition a sequence of      *)
(* shots [name, match, loop]: loop says that a loop is around it.  An      *)
(* image stands for all that are within the threshold of each other.       *)
(***************************************************************************)
EXTENDS Integers, Sequences

CONSTANTS Projects, Images, MaxRuns, MaxAccidents

VARIABLES
    project,   \* the definitions
    dir,       \* the baselines of the project: name -> image
    look,      \* what each shot would capture now
    run,       \* the runs so far
    cmd,       \* the place in executeRun, its definition, and the files it has still to upload
    staged,    \* for each instance of the run the baselines the Control Tower has of it
    mounted,   \* the instances whose test agent has a directory of baselines
    pos,       \* for each instance the shots that were taken
    failures,  \* for each instance its visualFailures
    result,    \* for each instance how it ended
    rows,      \* the artifacts the Control Tower has recorded
    files,     \* their files: [run, def, folder, name] -> image
    review,    \* the captures a review has still to show, and those of them it approves unseen
    known,     \* the definitions that a review finds the source of
    last,      \* the capture that was last made the baseline of a name
    seen,      \* for each instance what last was when its baselines were read
    accidents  \* failed uploads, purges, ..., up to MaxAccidents

\* What is assumed of the constants.
ShotNames ==
    {"one"} \cup UNION {UNION {{p[d][s].name : s \in DOMAIN p[d]} : d \in DOMAIN p} : p \in Projects}
ShotType == [name : ShotNames, match : BOOLEAN, loop : BOOLEAN]
ProjectsTyped ==
    /\ Projects \subseteq Seq(Seq(ShotType)) \ {<<>>}
    /\ 1 \in Images /\ MaxRuns \in Nat /\ MaxAccidents \in Nat

vars == <<project, dir, look, run, cmd, staged, mounted, pos, failures, result,
          rows, files, review, known, last, seen, accidents>>
instance == <<staged, mounted, pos, failures, result, seen>>
world == <<project, look, known>>
captures == <<rows, files>>
reviewing == <<review, dir, last>>

Defs == DOMAIN project
Idle == [at |-> "idle", def |-> 0, todo |-> {}]
NoReview == [items |-> {}, all |-> {}]
NoCapture == [run |-> 0]

Init ==
    /\ project \in Projects
    /\ \E names \in SUBSET {"one"} : dir = [n \in names |-> 1]
    /\ look = [d \in Defs |-> [s \in DOMAIN project[d] |-> 1]]
    /\ run = 0 /\ cmd = Idle /\ review = NoReview /\ accidents = 0
    /\ staged = [d \in Defs |-> <<>>] /\ pos = [d \in Defs |-> 0]
    /\ failures = [d \in Defs |-> {}] /\ result = [d \in Defs |-> "none"]
    /\ mounted = {} /\ rows = {} /\ files = <<>> /\ known = Defs
    /\ last = <<>> /\ seen = [d \in Defs |-> <<>>]

Put(f, key, value) == [x \in DOMAIN f \cup {key} |-> IF x = key THEN value ELSE f[x]]

Accident(happens) ==
    /\ accidents + (IF happens THEN 1 ELSE 0) <= MaxAccidents
    /\ accidents' = accidents + (IF happens THEN 1 ELSE 0)

-----------------------------------------------------------------------------
(* dokkimi run: the run is created, then for each definition the baselines *)
(* it needs are uploaded, then the definitions are submitted.              *)

\* The names of its shots that are matched, as far as the CLI finds them: it
\* looks at the steps of the tests, and into no loop.
extractVisualMatchNames(d) ==
    {project[d][s].name : s \in {t \in DOMAIN project[d] : project[d][t].match /\ ~project[d][t].loop}}

listBaselineFiles == DOMAIN dir

NeededOnly(d) == listBaselineFiles \cap extractVisualMatchNames(d)

\* When it finds none, it uploads all there are.
FilesOf(d) ==
    IF extractVisualMatchNames(d) = {} THEN listBaselineFiles
    ELSE listBaselineFiles \cap extractVisualMatchNames(d)

List(d) ==
    /\ cmd' = [at |-> "upload", def |-> d, todo |-> FilesOf(d)]
    /\ seen' = [seen EXCEPT ![d] = last]

CreateRun ==
    /\ cmd = Idle /\ run < MaxRuns
    /\ run' = run + 1
    /\ cmd' = [at |-> "upload", def |-> 1, todo |-> FilesOf(1)]
    /\ staged' = [d \in Defs |-> <<>>] /\ pos' = [d \in Defs |-> 0]
    /\ failures' = [d \in Defs |-> {}] /\ result' = [d \in Defs |-> "none"]
    /\ mounted' = {} /\ seen' = [d \in Defs |-> last]
    /\ UNCHANGED <<world, captures, reviewing, accidents>>

persistBaseline(d, n) == staged' = [staged EXCEPT ![d] = Put(@, n, dir[n])]

\* An upload that fails is warned of, and the run goes on without.
UploadBaseline(n, fails) ==
    /\ cmd.at = "upload" /\ n \in cmd.todo
    /\ Accident(fails)
    /\ cmd' = [cmd EXCEPT !.todo = @ \ {n}]
    /\ IF fails THEN UNCHANGED staged ELSE persistBaseline(cmd.def, n)
    /\ seen' = [seen EXCEPT ![cmd.def] =
                    IF fails THEN Put(@, n, NoCapture)
                    ELSE IF n \in DOMAIN last THEN Put(@, n, last[n]) ELSE @]
    /\ UNCHANGED <<world, captures, reviewing, run, mounted, pos, failures, result>>

NextDefinition ==
    /\ cmd.at = "upload" /\ cmd.todo = {}
    /\ IF cmd.def + 1 \in Defs THEN List(cmd.def + 1)
       ELSE cmd' = [at |-> "submit", def |-> 1, todo |-> {}] /\ UNCHANGED seen
    /\ UNCHANGED <<world, captures, reviewing, run, accidents, staged, mounted, pos, failures, result>>

submitDefinition ==
    /\ cmd.at = "submit"
    /\ result' = [result EXCEPT ![cmd.def] = "submitted"]
    /\ cmd' = IF cmd.def + 1 \in Defs THEN [cmd EXCEPT !.def = @ + 1] ELSE [Idle EXCEPT !.at = "poll"]
    /\ UNCHANGED <<world, captures, reviewing, run, accidents, staged, mounted, pos, failures, seen>>

EndRun ==
    /\ cmd.at = "poll" /\ \A d \in Defs : result[d] \in {"PASSED", "FAILED"}
    /\ cmd' = Idle
    /\ UNCHANGED <<world, captures, reviewing, instance, run, accidents>>

-----------------------------------------------------------------------------
(* The Control Tower deploys an instance, and its test agent takes the     *)
(* shots one after the other.                                              *)

\* The directory is mounted if there is one when the test agent is started.
Deploy(d) ==
    /\ result[d] = "submitted"
    /\ result' = [result EXCEPT ![d] = "running"]
    /\ mounted' = IF staged[d] = <<>> THEN mounted ELSE mounted \cup {d}
    /\ UNCHANGED <<world, captures, reviewing, run, cmd, accidents, staged, pos, failures, seen>>

\* VisualMatcher.Match
Match(d, shot, image) ==
    IF ~shot.match THEN "none"
    ELSE IF d \notin mounted \/ shot.name \notin DOMAIN staged[d] THEN "no-baseline"
    ELSE IF staged[d][shot.name] = image THEN "pass" ELSE "fail"

Artifact(d, s, type, image, verdict) ==
    [run |-> run, def |-> d, shot |-> s, name |-> project[d][s].name, type |-> type,
     image |-> image, verdict |-> verdict]
Key(row) == [run |-> row.run, def |-> row.def, folder |-> row.type, name |-> row.name]

\* ArtifactsService.persist: the file goes by its name, over one that is there.
persist(new) ==
    /\ rows' = rows \cup new
    /\ files' = [k \in DOMAIN files \cup {Key(r) : r \in new} |->
                    IF \E r \in new : Key(r) = k THEN (CHOOSE r \in new : Key(r) = k).image ELSE files[k]]

FailsIfFound(verdict) == verdict = "fail"
Fails(verdict) == verdict \in {"fail", "no-baseline"}

\* The screenshot sub-step: a capture that cannot be uploaded ends the test, a
\* diff that cannot is only logged.
Screenshot(d, lost) ==
    LET s == pos[d] + 1
        image == look[d][s]
        verdict == Match(d, project[d][s], image)
        capture == Artifact(d, s, "screenshot", image, verdict)
        diff == Artifact(d, s, "diff", image, "none")
    IN /\ result[d] = "running" /\ s \in DOMAIN project[d]
       /\ lost \in {"none", "screenshot"} \cup (IF verdict = "fail" THEN {"diff"} ELSE {})
       /\ Accident(lost # "none")
       /\ IF lost = "screenshot"
          THEN result' = [result EXCEPT ![d] = "FAILED"] /\ UNCHANGED <<captures, pos, failures>>
          ELSE /\ persist({capture} \cup IF verdict = "fail" /\ lost # "diff" THEN {diff} ELSE {})
               /\ pos' = [pos EXCEPT ![d] = s]
               /\ failures' = [failures EXCEPT ![d] = IF Fails(verdict) THEN @ \cup {s} ELSE @]
               /\ UNCHANGED result
       /\ UNCHANGED <<world, reviewing, run, cmd, staged, mounted, seen>>

\* The test agent's report, and what the Control Tower makes of it.
Complete(d) ==
    /\ result[d] = "running" /\ pos[d] = Len(project[d])
    /\ result' = [result EXCEPT ![d] = IF failures[d] = {} THEN "PASSED" ELSE "FAILED"]
    /\ UNCHANGED <<world, captures, reviewing, run, cmd, accidents, staged, mounted, pos, failures, seen>>

-----------------------------------------------------------------------------
(* dokkimi baselines: a review of what the latest run left pending, which  *)
(* may be one that is still going on.                                      *)

listPendingBaselines(r) ==
    {a \in rows : a.run = r /\ a.type = "screenshot" /\ a.verdict \in {"no-baseline", "fail"}}

InOrder(a, b) == a.def < b.def \/ (a.def = b.def /\ a.shot < b.shot)

loadPendingFromLatestRun ==
    /\ review = NoReview /\ listPendingBaselines(run) # {}
    /\ review' = [items |-> listPendingBaselines(run), all |-> {}]
    /\ UNCHANGED <<world, captures, instance, dir, last, run, cmd, accidents>>

\* The capture is copied over the baseline.  If its file or the definition it
\* is of is not to be found, writeBaseline says so, but nobody listens.
writeBaseline(item) ==
    IF item.def \in known /\ Key(item) \in DOMAIN files
    THEN dir' = Put(dir, item.name, files[Key(item)]) /\ last' = Put(last, item.name, item)
    ELSE UNCHANGED <<dir, last>>

\* A verdict that does not get to the Control Tower is not missed.
updateVerdict(item, verdict, fails) ==
    /\ Accident(fails)
    /\ rows' = IF fails \/ item \notin rows THEN rows
               ELSE (rows \ {item}) \cup {[item EXCEPT !.verdict = verdict]}

Reviewed(item) == review' = [items |-> review.items \ {item}, all |-> review.all \ {item}]

Approve(item, fails) ==
    /\ review.all # {} => item \in review.all /\ \A a \in review.all \ {item} : InOrder(item, a)
    /\ writeBaseline(item)
    /\ updateVerdict(item, "approved", fails)
    /\ Reviewed(item)
    /\ UNCHANGED <<world, instance, files, run, cmd>>

Skip(item, fails) ==
    /\ review.all = {}
    /\ updateVerdict(item, "skipped", fails)
    /\ Reviewed(item)
    /\ UNCHANGED <<world, instance, files, dir, last, run, cmd>>

\* Those of one test, or all that are pending, in the order in which they were taken.
approveAll ==
    /\ review # NoReview /\ review.all = {}
    /\ \E d \in {0} \cup Defs :
        LET those == {a \in review.items : d \in {0, a.def}}
        IN those # {} /\ review' = [review EXCEPT !.all = those]
    /\ UNCHANGED <<world, captures, instance, dir, last, run, cmd, accidents>>

Quit ==
    /\ review # NoReview /\ review' = NoReview
    /\ UNCHANGED <<world, captures, instance, dir, last, run, cmd, accidents>>

-----------------------------------------------------------------------------
(* What else happens: the program under test changes, an old run is purged *)
(* from the history, a definition gets another name.                       *)

ChangeLook ==
    /\ Accident(TRUE)
    /\ \E d \in Defs, image \in Images : \E s \in DOMAIN look[d] :
        look[d][s] # image /\ look' = [look EXCEPT ![d][s] = image]
    /\ UNCHANGED <<project, known, captures, instance, reviewing, run, cmd>>

Purge ==
    /\ Accident(TRUE) /\ \E a \in rows : a.run < run
    /\ rows' = {a \in rows : a.run = run}
    /\ files' = [k \in {l \in DOMAIN files : l.run = run} |-> files[k]]
    /\ UNCHANGED <<world, instance, reviewing, run, cmd>>

Rename ==
    /\ Accident(TRUE)
    /\ \E d \in known : known' = known \ {d}
    /\ UNCHANGED <<project, look, captures, instance, reviewing, run, cmd>>

Next ==
    \/ CreateRun \/ NextDefinition \/ submitDefinition \/ EndRun
    \/ \E n \in cmd.todo, fails \in BOOLEAN : UploadBaseline(n, fails)
    \/ \E d \in Defs : Deploy(d) \/ Complete(d)
    \/ \E d \in Defs, lost \in {"none", "screenshot", "diff"} : Screenshot(d, lost)
    \/ loadPendingFromLatestRun \/ approveAll \/ Quit
    \/ \E item \in review.items, fails \in BOOLEAN : Approve(item, fails) \/ Skip(item, fails)
    \/ ChangeLook \/ Purge \/ Rename

Spec == Init /\ [][Next]_vars

-----------------------------------------------------------------------------
TypeOK ==
    /\ run \in 0..MaxRuns /\ cmd.at \in {"idle", "upload", "submit", "poll"}
    /\ \A n \in DOMAIN dir : dir[n] \in Images
    /\ \A d \in Defs : result[d] \in {"none", "submitted", "running", "PASSED", "FAILED"}
    /\ \A a \in rows : a.verdict \in {"none", "pass", "fail", "no-baseline", "approved", "skipped"}

\* Two shots of the project have the same name, and so the same baseline.
Shared(name) == \E d, e \in Defs : \E s \in DOMAIN project[d], t \in DOMAIN project[e] :
    <<d, s>> # <<e, t>> /\ project[d][s].name = name /\ project[e][t].name = name

\* A loop hides it from the CLI, which found others to upload.
Hidden(d, name) == extractVisualMatchNames(d) \notin {{}} /\ name \notin extractVisualMatchNames(d)

\* A capture that was approved is what the next run is judged by: a shot that
\* looks the same then passes, unless its baseline could not be uploaded, or its
\* name is shared, or the CLI did not find that it is matched.
ApprovedPasses ==
    \A a \in rows :
        /\ a.run = run /\ a.type = "screenshot" /\ project[a.def][a.shot].match
        /\ a.name \in DOMAIN seen[a.def]
        /\ LET b == seen[a.def][a.name]
           IN b # NoCapture /\ b.def = a.def /\ b.shot = a.shot /\ b.image = a.image
        /\ ~Shared(a.name) /\ ~Hidden(a.def, a.name)
        => a.verdict = "pass"

\* An instance passes only if every shot that is matched was taken, uploaded and
\* found like a baseline; and one that was not can be reviewed, as long as
\* nobody did, and is that which a review shows.
FailuresCanBeReviewed ==
    \A d \in Defs :
        /\ result[d] = "PASSED" =>
            \A s \in DOMAIN project[d] : \E a \in rows :
                /\ a.run = run /\ a.def = d /\ a.shot = s /\ a.type = "screenshot"
                /\ project[d][s].match => a.verdict = "pass"
        /\ \A s \in failures[d] : \E a \in rows :
                a.run = run /\ a.def = d /\ a.shot = s /\ a.verdict \in {"fail", "no-baseline", "approved", "skipped"}

\* A baseline is an image that was there from the start or that a run captured
\* for one of the shots of that name.
BaselineWasTaken ==
    \A n \in DOMAIN last : last[n].name = n /\ (~Shared(n) => dir[n] = last[n].image)
=============================================================================
