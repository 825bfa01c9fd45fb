------------------------------- MODULE Reports -------------------------------
(***************************************************************************)
(* What `dokkimi run` and `dokkimi junit` tell of a run: the lines of CI   *)
(* mode, the frame that is drawn over and over in a terminal, and the      *)
(* JUnit report, which is read again for the summary of several runs.      *)
(* A text is a sequence of words and special characters.  What may be      *)
(* missing (null, undefined) is <<>>, or <<v>> if it is there.  Times are  *)
(* in milliseconds, colours and the durations on the terminal left out.    *)
(***************************************************************************)
EXTENDS Integers, Sequences, FiniteSets, SequencesExt

Terminal == {"PASSED", "FAILED", "STOPPED", "COMPLETED", "SKIPPED"}
Over == {"COMPLETED", "FAILED", "CANCELLED"}
Shown(i) == IF i.testStatus # "" THEN i.testStatus ELSE i.status
Having(instances, statuses) == SelectSeq(instances, LAMBDA i : Shown(i) \in statuses)
CountOf(instances, statuses) == Len(Having(instances, statuses))

\* What the Control Tower answers; no answer counts as an empty list.
Listed(answer) == IF answer = <<>> THEN <<>> ELSE answer[1]
Joined(texts, sep) ==
    FlattenSeq([k \in DOMAIN texts |-> IF k = 1 THEN texts[k] ELSE sep \o texts[k]])
NewLine == <<"newline">>

-----------------------------------------------------------------------------
(* Texts in XML.                                                           *)

Entity == [amp |-> "&", lt |-> "<", gt |-> ">", quot |-> "quote", apos |-> "apostrophe"]
NameOf(char) == CHOOSE e \in DOMAIN Entity : Entity[e] = char

escapeXml(str) ==
    FlattenSeq([k \in DOMAIN str |->
        IF \E e \in DOMAIN Entity : Entity[e] = str[k] THEN <<"&", NameOf(str[k])>> ELSE <<str[k]>>])

\* All occurrences of one entity, from left to right.
Unescaped(entity, str) ==
    FoldLeft(LAMBDA out, c : IF c = entity /\ out # <<>> /\ Last(out) = "&"
                             THEN Append(Front(out), IF entity = "amp" THEN "and" ELSE Entity[entity])
                             ELSE Append(out, c), <<>>, str)
Plain(str) == [k \in DOMAIN str |-> IF str[k] = "and" THEN "&" ELSE str[k]]

\* Mutant: an & is made first.
unescapeAmpFirst(str) ==
    FoldLeft(LAMBDA s, e : Unescaped(e, s), Plain(Unescaped("amp", str)), <<"lt", "gt", "quot", "apos">>)

\* The last one makes an &, which is not looked at again.
unescapeXml(str) ==
    Plain(FoldLeft(LAMBDA s, e : Unescaped(e, s), str, <<"apos", "quot", "gt", "lt", "amp">>))

-----------------------------------------------------------------------------
(* Why an instance failed.                                                 *)

FailedOf(results) == SelectSeq(results, LAMBDA a : ~a.passed /\ a.assertionType # <<"skip">>)
\* A skipped definition has no instance to ask about.
FailedAssertions(i) == IF i.skipped THEN <<>> ELSE FailedOf(Listed(i.assertions))

AssertionText(a) ==
    Joined(<<a.assertionType \o (IF a.path = <<>> THEN <<>> ELSE <<"at">> \o a.path)>>
           \o (IF a.error # <<>> THEN <<a.error>>
               ELSE <<<<"expected">> \o a.expected, <<"actual">> \o a.actual,
                      <<"operator">> \o (IF a.operator = <<>> THEN <<"equals">> ELSE a.operator)>>), NewLine)
formatAssertionFailures(failed) ==
    Joined([k \in DOMAIN failed |-> AssertionText(failed[k])], NewLine \o NewLine)

\* slice(-20)
LastOf(seq, n) == SubSeq(seq, IF Len(seq) > n THEN Len(seq) - n + 1 ELSE 1, Len(seq))
MaxConsoleErrors == 20

\* The failed assertions, or else the error that was kept and what the logs say of
\* errors, under a headline each.
formatInstanceFailure(i) ==
    LET executed == SelectSeq(Listed(i.execution), LAMBDA l : l.error # <<>>)
        console == LastOf(SelectSeq(Listed(i.console), LAMBDA l : l.level \in {"ERROR", "WARN"}), MaxConsoleErrors)
        under(headline, lines) == IF lines = <<>> THEN <<>> ELSE <<<<headline>>>> \o lines
        sections ==
            SelectSeq(i.errorMessage, LAMBDA e : e # <<>>)
            \o under("Test Execution Errors", [k \in DOMAIN executed |->
                        <<"step", IF executed[k].stepIndex = <<>> THEN "?" ELSE executed[k].stepIndex[1]>>
                        \o executed[k].message \o NewLine \o executed[k].error])
            \o under("Console Errors", [k \in DOMAIN console |-> <<console[k].level>> \o console[k].message])
    IN IF FailedAssertions(i) # <<>> THEN formatAssertionFailures(FailedAssertions(i))
       ELSE IF sections = <<>> THEN <<"Test failed">> ELSE Joined(sections, NewLine)

Failed(i) == FailedAssertions(i) # <<>> \/ Shown(i) = "FAILED"
FailureMessage(i) ==
    IF FailedAssertions(i) # <<>> THEN <<ToString(Len(FailedAssertions(i))), "assertion(s) failed">>
    ELSE IF i.errorMessage # <<>> THEN i.errorMessage[1] ELSE <<"Test failed">>

instanceDuration(i) ==
    IF i.startedAt = <<>> \/ i.stoppedAt = <<>> THEN <<>> ELSE <<i.stoppedAt[1] - i.startedAt[1]>>
Rounded(ms) == (ms + 500) \div 1000

-----------------------------------------------------------------------------
(* The report, and what is read of it.                                     *)

\* opts: the run's id, its instances and its duration.
generateJUnitXml(opts) ==
    [name |-> escapeXml(opts.runId), tests |-> Len(opts.instances), time |-> opts.duration,
     failures |-> CountOf(opts.instances, {"FAILED"}), skipped |-> CountOf(opts.instances, {"SKIPPED"}),
     testcases |-> [k \in DOMAIN opts.instances |->
        LET i == opts.instances[k] IN
        [name |-> escapeXml(i.name), time |-> instanceDuration(i),
         child |-> IF Failed(i) THEN [is |-> "failure", message |-> escapeXml(FailureMessage(i)),
                                      text |-> escapeXml(formatInstanceFailure(i))]
                   ELSE IF Shown(i) = "SKIPPED" THEN [is |-> "skipped"] ELSE [is |-> "none"]]]]

Testcase(name, status, duration, message, body) ==
    [name |-> name, status |-> status, duration |-> duration, failureMessage |-> message, failureBody |-> body]

parseJUnitXml(xml) ==
    [duration |-> xml.time, suiteName |-> unescapeXml(xml.name),
     testcases |-> [k \in DOMAIN xml.testcases |->
        LET t == xml.testcases[k]
            as(status, message, body) == Testcase(unescapeXml(t.name), status, t.time, message, body)
        IN CASE t.child.is = "failure" -> as("FAILED", unescapeXml(t.child.message), unescapeXml(t.child.text))
             [] t.child.is = "skipped" -> as("SKIPPED", <<>>, <<>>)
             [] OTHER -> as("PASSED", <<>>, <<>>)]]

\* The summary of groups of test cases: counts, then each that failed and why,
\* then all of them.
buildSummaryMarkdown(groups) ==
    LET all == FlattenSeq([g \in DOMAIN groups |-> groups[g].testcases])
        count(status) == Len(SelectSeq(all, LAMBDA t : t.status = status))
        told(group, t) == [group |-> group.name, name |-> t.name,
                           why |-> IF t.failureBody # <<>> THEN t.failureBody ELSE t.failureMessage]
        failedOf(group) == LET f == SelectSeq(group.testcases, LAMBDA t : t.status = "FAILED")
                           IN [k \in DOMAIN f |-> told(group, f[k])]
        row(t) == [status |-> t.status, name |-> t.name,
                   duration |-> [k \in DOMAIN t.duration |-> Rounded(t.duration[k])]]
    IN [tests |-> Len(all), passed |-> count("PASSED"), failed |-> count("FAILED"), skipped |-> count("SKIPPED"),
        duration |-> Rounded(FoldLeft(LAMBDA sum, g : sum + g.duration, 0, groups)),
        failures |-> FlattenSeq([g \in DOMAIN groups |-> failedOf(groups[g])]),
        all |-> [g \in DOMAIN groups |->
                    [name |-> groups[g].name, duration |-> Rounded(groups[g].duration),
                     rows |-> [k \in DOMAIN groups[g].testcases |-> row(groups[g].testcases[k])]]]]

generateSummaryMarkdown(opts) ==
    buildSummaryMarkdown(<<
        [name |-> opts.runId, duration |-> 1000 * Rounded(opts.duration),
         testcases |-> [k \in DOMAIN opts.instances |->
            LET i == opts.instances[k]
                as(status, message, body) == Testcase(i.name, status, instanceDuration(i), message, body)
            IN IF Failed(i) THEN as("FAILED", FailureMessage(i), formatInstanceFailure(i))
               ELSE as(IF Shown(i) = "SKIPPED" THEN "SKIPPED" ELSE "PASSED", <<>>, <<>>)]]>>)

\* The reports in a directory, which is a set of files with a name, the place it has
\* among the names, and what is in them; nothing if it is not there or has none.
generateSummaryFromXmlDir(dir) ==
    LET files == SetToSortSeq({f \in Listed(dir) : f.ext = "xml"}, LAMBDA f, g : f.place < g.place)
        group(f) == LET parsed == parseJUnitXml(f.xml)
                    IN [name |-> f.name, testcases |-> parsed.testcases, duration |-> parsed.duration]
    IN IF dir = <<>> \/ files = <<>> THEN <<>>
       ELSE <<buildSummaryMarkdown([k \in DOMAIN files |-> group(files[k])])>>

-----------------------------------------------------------------------------
(* dokkimi junit.  The arguments are words.                                *)

Flags == {"-h", "--help", "-o", "--output", "--summary", "--dir", "--run", "--failed"}
\* The word at k is there, and is no option.
IsValue(args, k) == k <= Len(args) /\ args[k] \notin Flags \cup {""}
Cut(args, k, n) == SubSeq(args, 1, k - 1) \o SubSeq(args, k + n, Len(args))
Find(args, flags) == SelectInSeq(args, LAMBDA a : a \in flags)

\* What is found, and the arguments that are left.
parseBoolFlag(args, flag) ==
    LET k == Find(args, {flag})
    IN [on |-> k > 0, rest |-> IF k = 0 THEN args ELSE Cut(args, k, 1)]

\* An option that has to have a value: without one the command ends.
parseValueFlag(args, flags) ==
    LET k == Find(args, flags)
    IN IF k = 0 THEN [value |-> <<>>, rest |-> args, ends |-> FALSE]
       ELSE IF ~IsValue(args, k + 1) THEN [value |-> <<>>, rest |-> args, ends |-> TRUE]
       ELSE [value |-> <<args[k + 1]>>, rest |-> Cut(args, k, 2), ends |-> FALSE]

\* One that may have a value.
parseRunFlag(args) ==
    LET k == Find(args, {"--run"})
    IN IF k > 0 /\ IsValue(args, k + 1) THEN <<args[k + 1]>> ELSE <<>>

\* The options in the order in which they are taken out of the arguments.
Options(args) ==
    LET value(o, name, taken) ==
            [o EXCEPT ![name] = taken.value, !.rest = taken.rest, !.ends = @ \/ taken.ends]
        bool(o, name, taken) == [o EXCEPT ![name] = taken.on, !.rest = taken.rest]
        take(o, name) ==
            CASE name = "output" -> value(o, name, parseValueFlag(o.rest, {"-o", "--output"}))
              [] name = "summary" -> bool(o, name, parseBoolFlag(o.rest, "--summary"))
              [] name = "dir" -> value(o, name, parseValueFlag(o.rest, {"--dir"}))
              [] name = "failed" -> bool(o, name, parseBoolFlag(o.rest, "--failed"))
              [] name = "run" -> [o EXCEPT !.run = parseRunFlag(o.rest)]
    IN FoldLeft(take, [rest |-> args, ends |-> FALSE, output |-> <<>>, summary |-> FALSE,
                       dir |-> <<>>, failed |-> FALSE, run |-> <<>>],
                <<"output", "summary", "dir", "failed", "run">>)

\* runs: those the Control Tower knows by their id; latest: of this project.
resolveRun(run, ct) ==
    IF run = <<>> THEN ct.latest ELSE IF run[1] \in DOMAIN ct.runs THEN <<ct.runs[run[1]]>> ELSE <<>>

\* The command ends with a code and prints nothing, or prints, or writes a file.
Exits(code) == [exit |-> code, to |-> "nowhere"]
Prints(doc) == [exit |-> 0, to |-> "stdout", doc |-> doc]
writeJUnitXml(opts, file) == [exit |-> 0, to |-> file, doc |-> generateJUnitXml(opts)]

\* What is told of a run, or with --failed of its instances that failed.
toldOf(run, failed) ==
    [runId |-> run.runId,
     instances |-> SelectSeq(run.instances, LAMBDA i : failed => "FAILED" \in {i.testStatus, i.status}),
     duration |-> IF run.completedAt = <<>> THEN 0 ELSE run.completedAt[1] - run.createdAt]

\* That of a directory, if there is one.
printsSummary(doc) == IF doc = <<>> THEN Exits(1) ELSE Prints(doc[1])

\* That of a run, or its report.
printsRun(o, opts) ==
    IF o.failed /\ opts.instances = <<>> THEN Exits(0)
    ELSE IF o.summary THEN Prints(generateSummaryMarkdown(opts))
    ELSE IF o.output # <<>> THEN writeJUnitXml(opts, o.output[1])
    ELSE Prints(generateJUnitXml(opts))

junit(args, ct, dirs) ==
    LET does(o, run) ==
            IF Find(args, {"-h", "--help"}) > 0 THEN Exits(0)
            ELSE IF o.ends THEN Exits(1)
            ELSE IF o.summary /\ o.dir # <<>>
            THEN printsSummary(generateSummaryFromXmlDir(
                    IF o.dir[1] \in DOMAIN dirs THEN <<dirs[o.dir[1]]>> ELSE <<>>))
            ELSE IF run = <<>> THEN Exits(1)
            ELSE printsRun(o, toldOf(run[1], o.failed))
    IN does(Options(args), resolveRun(Options(args).run, ct))

-----------------------------------------------------------------------------
(* CI mode.  What the loop meets: an answer, with the run's status and its *)
(* instances, or nothing, or that the command is aborted or out of time.   *)

printFailureDetails(i) ==
    LET failed == FailedOf(Listed(i.assertions))
        logged == SelectSeq(Listed(i.execution), LAMBDA l : l.eventType = "step_error" \/ l.error # <<>>)
    IN SelectSeq(i.errorMessage, LAMBDA e : e # <<>>)
       \o (IF failed # <<>>
           THEN [k \in DOMAIN failed |-> <<failed[k].assertionType, failed[k].expected, failed[k].actual>>]
           ELSE [k \in 1 .. (IF Len(logged) < 5 THEN Len(logged) ELSE 5) |->
                    IF logged[k].error # <<>> THEN logged[k].error ELSE logged[k].message])

printInstanceLine(i) ==
    [id |-> i.id, name |-> i.name, status |-> Shown(i),
     details |-> IF Shown(i) = "FAILED" THEN printFailureDetails(i) ELSE <<>>]
Lines(instances) == [k \in DOMAIN instances |-> printInstanceLine(instances[k])]
printStuckInstances(latest) == SelectSeq(latest, LAMBDA i : Shown(i) \notin Terminal)

Returns(passed, instances) == <<[passed |-> passed, instances |-> instances]>>

\* Mutant: an instance is printed whenever its status is another than before.
NewlyEndedByStatus(d, instances) ==
    SelectSeq(instances, LAMBDA i : Shown(i) \in Terminal
                /\ \A k \in DOMAIN d.lines : d.lines[k].id # i.id \/ d.lines[k].status # Shown(i))

\* An instance is printed as soon as it is seen to have ended, and only then.
NewlyEnded(d, instances) == SelectSeq(instances, LAMBDA i : Shown(i) \in Terminal /\ i.id \notin d.printed)

pollForCompletionCI(events, skipped) ==
    LET start == [printed |-> {skipped[k].id : k \in DOMAIN skipped}, lines |-> Lines(skipped),
                  latest |-> <<>>, stuck |-> <<>>, result |-> <<>>]
        answered(d, e) ==
            LET new == NewlyEnded(d, e.instances)
            IN [d EXCEPT !.printed = @ \cup {new[k].id : k \in DOMAIN new}, !.lines = @ \o Lines(new),
                         !.latest = e.instances,
                         !.result = IF e.status \in Over
                                    THEN Returns(e.status = "COMPLETED", e.instances \o skipped) ELSE <<>>]
        step(d, e) ==
            IF d.result # <<>> THEN d
            ELSE CASE e.is = "nothing" -> d
                   [] e.is = "abort" -> [d EXCEPT !.result = Returns(FALSE, d.latest)]
                   [] e.is = "timeout" ->
                        [d EXCEPT !.stuck = printStuckInstances(d.latest),
                                  !.result = Returns(FALSE, d.latest \o
                                                SelectSeq(skipped, LAMBDA i : i.id \notin d.printed))]
                   [] e.is = "status" -> answered(d, e)
    IN FoldLeft(step, start, events)

printSummaryCI(instances) ==
    [passed |-> CountOf(instances, {"PASSED", "COMPLETED"}), failed |-> Having(instances, {"FAILED"}),
     ran |-> Len(instances) - CountOf(instances, {"SKIPPED"})]

-----------------------------------------------------------------------------
(* The terminal.                                                           *)

categorizeInstances(instances) ==
    [inProgress |-> SelectSeq(instances, LAMBDA i : Shown(i) # "PENDING" /\ Shown(i) \notin Terminal),
     done |-> Having(instances, Terminal), pendingCount |-> CountOf(instances, {"PENDING"}),
     passedCount |-> CountOf(instances, {"PASSED", "COMPLETED"}), failedCount |-> CountOf(instances, {"FAILED"})]

Least(a, b) == IF a < b THEN a ELSE b
Most(a, b) == IF a > b THEN a ELSE b

\* Mutant: the line for those without a place takes none.
SlotsAll(visible, pending, room) == room

Slots(visible, pending, room) == IF visible > room \/ pending > 0 THEN Most(0, room - 1) ELSE room

\* A line of title, a blank one, instances, a line for those that have no place, a
\* blank one and the keys; or, where there is no room for that, the counts alone.
Frame(instances, height) ==
    LET c == categorizeInstances(instances)
        room == Most(0, height - 4)
        visible == c.inProgress \o c.done
        slots == Slots(Len(visible), c.pendingCount, room)
        hiddenDone == Len(c.done) - Least(Len(c.done), Most(0, slots - Len(c.inProgress)))
        summary == [passed |-> IF hiddenDone > 0 THEN c.passedCount ELSE 0,
                    failed |-> IF hiddenDone > 0 THEN c.failedCount ELSE 0,
                    running |-> Most(0, Len(c.inProgress) - slots), pending |-> c.pendingCount]
    IN IF room = 0
       THEN [lines |-> 1, shown |-> <<>>, tells |-> [passed |-> c.passedCount, failed |-> c.failedCount,
                                                     running |-> Len(c.inProgress), pending |-> c.pendingCount]]
       ELSE [lines |-> 4 + Least(slots, Len(visible)) + (IF \E k \in DOMAIN summary : summary[k] > 0 THEN 1 ELSE 0),
             shown |-> SubSeq(visible, 1, Least(slots, Len(visible))), tells |-> summary]

\* The polls go on beside the loop that draws: it sees the last answer there was, if
\* there was one, and returns when that is of a run that is over.
pollForCompletion(events, skipped, height) ==
    LET start == [latest |-> <<>>, frames |-> <<>>, result |-> <<>>]
        all(d) == (IF d.latest = <<>> THEN <<>> ELSE d.latest[1].instances) \o skipped
        drawn(d) == IF d.latest = <<>> THEN d
                    ELSE IF d.latest[1].status \in Over
                    THEN [d EXCEPT !.result = Returns(d.latest[1].status = "COMPLETED", all(d))]
                    ELSE [d EXCEPT !.frames = Append(@, Frame(all(d), height))]
        step(d, e) == IF d.result # <<>> THEN d
                      ELSE CASE e.is = "abort" -> [d EXCEPT !.result = Returns(FALSE, all(d))]
                             [] e.is = "nothing" -> drawn(d)
                             [] e.is = "status" -> drawn([d EXCEPT !.latest = <<e>>])
    IN FoldLeft(step, start, events)

-----------------------------------------------------------------------------
(* Properties.                                                             *)

\* What is escaped is read as it was.
EscapesAlign(str) == unescapeXml(escapeXml(str)) = str

\* The report xml, the summary and what the report says when it is read.
Agree(instances, xml, summary, read) ==
    /\ read = summary
    /\ summary.tests = xml.tests /\ summary.passed + summary.failed + summary.skipped = xml.tests
    /\ \A k \in DOMAIN instances :
        /\ Shown(instances[k]) = "FAILED" => summary.all[1].rows[k].status = "FAILED"
        /\ summary.all[1].rows[k].status = "SKIPPED" => Shown(instances[k]) = "SKIPPED"
    /\ \A k \in DOMAIN summary.failures : summary.failures[k].why # <<>>
    /\ Len(summary.failures) = summary.failed /\ xml.failures <= summary.failed
    /\ (\A k \in DOMAIN instances : Shown(instances[k]) = "FAILED" \/ FailedAssertions(instances[k]) = <<>>)
        => xml.failures = summary.failed /\ xml.skipped = summary.skipped

\* The report, what is read of it and the summary that is made at once say the
\* same: each instance once, in its place, and why it failed, if it did; none that
\* failed, by its status or by an assertion, is told otherwise.
SummariesAgree(instances) ==
    LET opts == [runId |-> <<"run", "&">>, instances |-> instances, duration |-> 1500]
        dir(xml) == {[name |-> opts.runId, ext |-> "xml", place |-> 1, xml |-> xml],
                     [name |-> <<"notes">>, ext |-> "txt", place |-> 2]}
        agree(xml, summary) ==
            Agree(instances, xml, summary, generateSummaryFromXmlDir(<<dir(xml)>>)[1])
    IN agree(generateJUnitXml(opts), generateSummaryMarkdown(opts))

\* With --failed nothing is left out that the report would show as failed by its
\* status, and the order of the options makes no difference.
FailedAreTold(instances) ==
    LET run == [runId |-> <<"run">>, instances |-> instances, completedAt |-> <<3>>, createdAt |-> 1]
        ct == [runs |-> [r \in {"r"} |-> run], latest |-> <<run>>]
        summaries == {<<"--failed", "--summary">>, <<"--summary", "--failed">>,
                      <<"--run", "r", "--summary", "--failed">>}
        reports == {<<"--run", "--failed">>, <<"--failed", "--run">>}
        tells(printed) ==
            /\ \A orders \in {summaries, reports} : \A a, b \in orders : printed[a] = printed[b]
            /\ \A k \in DOMAIN instances : Shown(instances[k]) = "FAILED" =>
                \A a \in summaries :
                    /\ printed[a].to = "stdout"
                    /\ \E j \in DOMAIN printed[a].doc.all[1].rows :
                        printed[a].doc.all[1].rows[j] = printed[<<"--summary">>].doc.all[1].rows[k]
    IN tells([args \in summaries \cup reports \cup {<<"--summary">>} |-> junit(args, ct, <<>>)])

\* What CI mode prints and returns (d) and what the terminal returns.
Tells(d, atTerminal, skipped, interrupted) ==
    /\ \A j, k \in DOMAIN d.lines : j # k => d.lines[j].id # d.lines[k].id
    /\ d.result # <<>> /\ ~interrupted =>
        /\ \A k \in DOMAIN d.result[1].instances : Shown(d.result[1].instances[k]) \in Terminal =>
            \E j \in DOMAIN d.lines : d.lines[j].id = d.result[1].instances[k].id
        /\ LET s == printSummaryCI(d.result[1].instances) IN s.passed + Len(s.failed) <= s.ran
        /\ \A k \in DOMAIN skipped : \E j \in DOMAIN d.result[1].instances : d.result[1].instances[j] = skipped[k]
        /\ atTerminal.result = d.result

\* In CI mode each instance that ended is told of once, with the status it ended
\* with as long as that does not change; a run that is over has told of all that
\* ended, and the summary counts them.  The terminal returns the same for the same
\* answers.
ToldOnce(events, skipped) ==
    Tells(pollForCompletionCI(events, skipped), pollForCompletion(events, skipped, 24), skipped,
          \E k \in DOMAIN events : events[k].is \in {"abort", "timeout"})

\* The frame has no more lines than the terminal, and none of the instances is missing.
Fits(frame, instances, height) ==
    LET shown(status) == CountOf(frame.shown, status)
    IN /\ frame.lines <= Most(height, 1)
       /\ shown({"PASSED", "COMPLETED"}) + frame.tells.passed >= CountOf(instances, {"PASSED", "COMPLETED"})
       /\ shown({"FAILED"}) + frame.tells.failed >= CountOf(instances, {"FAILED"})
       /\ shown({"RUNNING"}) + frame.tells.running = CountOf(instances, {"RUNNING"})
       /\ frame.tells.pending = CountOf(instances, {"PENDING"})

\* The frame fits on the terminal, if that has room for more than the title and
\* the keys, and tells of each instance: as a line of its own or as one of those
\* that passed, failed, run or wait.
FrameTells(instances, height) ==
    Fits(pollForCompletion(<<[is |-> "status", status |-> "RUNNING", instances |-> instances]>>,
                           <<>>, height).frames[1], instances, height)

=============================================================================
