------------------------------ MODULE MCParts ------------------------------
(***************************************************************************)
(* An instance of Parts for TLC, and the properties of the parts that are  *)
(* functions, each applied to every input of its part.                     *)
(***************************************************************************)
EXTENDS Parts, MCInputs

CONSTANT MaxRefDepth

Loops == INSTANCE Definitions
Refs == INSTANCE References
Deploy == INSTANCE Containers

MCCommandNames == DOMAIN MCCommands

\* The inputs of each part that is a function.
MCPartInputs ==
    [mocks |-> MCMockInputs, calls |-> MCCalls, definitions |-> MCDefinitions,
     ranges |-> MCRanges, references |-> MCFileSystems, sources |-> MCSources,
     wheres |-> MCWheres \X MCWheres, blocks |-> MCBlocks, substeps |-> MCSubSteps,
     items |-> MCDefinedItems, groups |-> MCOneItem, instances |-> MCInstances,
     written |-> MCTests, looped |-> MCPlacedLoops,
     scopes |-> MCScopes, projects |-> MCAllProjects,
     settings |-> MCFiles, starts |-> MCStarts, configs |-> MCOddities, sections |-> MCSectionsLeftOut,
     dockers |-> MCDockers, lists |-> MCAboves, strings |-> MCStrings, reports |-> MCTold,
     polls |-> MCPolls \X MCPolls \X MCSkipped, frames |-> MCFrames, prints |-> MCPrinted]

-----------------------------------------------------------------------------
(* Properties of the parts.                                                *)

\* LoopBodyIsDone and RangeIsExact of Definitions, UiAgrees of UiDefinitions and
\* AcceptedTestRuns of TestDefinitions: what the validator accepts of a loop, of a
\* UI action or of a test is what the test agent can decode and performs.  RefsResolve of References: references to files resolve,
\* or the definition is refused, and what they bring together is complete and in
\* the order stated.
DefinitionsAgree ==
    /\ part = "definitions" => Loops!LoopBodyIsDone(input)
    /\ part = "ranges" => Loops!RangeIsExact(input)
    /\ part = "references" => Refs!RefsResolve(input, "d")
    /\ part = "substeps" => Ui!UiAgrees(input)
    /\ part = "written" => Tested!AcceptedTestRuns(input)
    /\ part = "looped" => Tested!AcceptedTestRuns(MCLooped(input[1], input[2]))

\* ScopesAgree, ResolvedOnce and WatchedIsAll of Resolver: where and for what a
\* run is started decides which files are looked at, not what becomes of them.
ResolutionHolds ==
    /\ part = "scopes" => Project!ScopesAgree(MCScopeTree(input.lines), input.cwd, input.target)
    /\ part = "projects" =>
        /\ Project!ResolvedOnce(input[1], MCRoot, [is |-> "none", path |-> <<>>], input[2])
        /\ Project!WatchedIsAll(input[1], MCRoot, [is |-> "none", path |-> <<>>], input[2], MCContents)

\* MenuKeeps, ToolKeeps and SourcesAgree of Preferences: what is set is kept, and
\* nothing else with it.  OptOutIsKept and NoticeFirst of Telemetry: who turns it
\* off sends nothing more.  LoadedIsUsable of Configuration: nothing is configured
\* that the validator refuses, save by the environment.  PulledAsKnown of
\* Registries: images are pulled with the credential docker would use.
SettingsKept ==
    /\ part = "settings" =>
        \A prefs \in {MCPrefsOf(input)}, project \in {"none", "p"} :
            /\ Prefs!SourcesAgree(prefs, project)
            /\ \A e \in Prefs!Entries(prefs, project), n \in MCNumbers :
                Prefs!MenuKeeps(prefs, project, e, n, MCScopeNames)
            /\ \A call \in MCToolCalls : Prefs!ToolKeeps(prefs, project, call, MCScopeNames)
    /\ part = "starts" =>
        \A acts \in MCLives :
            /\ Tracking!OptOutIsKept(input.state, input.options, acts)
            /\ Tracking!NoticeFirst(input.state, input.options, acts)
    /\ part = "configs" =>
        \A config \in {MCConfigOf(input)} :
            Configured!LoadedIsUsable(config, input.var :> input.text, MCRightConfig)
    /\ part = "sections" =>
        \A v \in DOMAIN Configured!Overrides :
            Configured!LoadedIsUsable([s \in DOMAIN MCRightConfig \ input |-> MCRightConfig[s]],
                                      v :> <<"text", "w">>, MCRightConfig)
    /\ part = "dockers" => \A image \in MCImages : Pulls!PulledAsKnown(<<{}>>, {"v"}, input, image)
    /\ part = "lists" =>
        \A image \in MCImages :
            Pulls!PulledAsKnown(input, {"v"}, MCDocker, image)

\* OperatorsAgree, AcceptedIsUnderstood, TransformsAlign, WhereParts and
\* BlockRestores of Assertions: an operator and its negation, a where and its
\* negation, part what they are asked about between them; what is accepted can
\* be judged; and a block leaves no match behind.
AssertionsAgree ==
    /\ part = "sources" =>
        /\ \A a \in MCJudged(input) : Asserts!OperatorsAgree(a, MCDocument)
        /\ \A a \in MCWritten(input) : Asserts!AcceptedIsUnderstood(a)
        /\ \A k \in DOMAIN MCDocument.fields : Asserts!TransformsAlign(MCDocument.fields[k])
    /\ part = "wheres" => Asserts!WhereParts(input[1], input[2], MCDocument, MCElements)
    /\ part = "blocks" =>
        \A doc \in {MCDocument, Asserts!Push(MCDocument, <<>>)} : Asserts!BlockRestores(input, doc)

\* AcceptedIsAdmitted and SentAsWritten of Items: what the validator accepts of an
\* item the Control Tower lets in, as it was written.  WaitsForWhatIsDeployed,
\* NamesDiffer and ItemServes of Containers: the test agent waits for what is
\* deployed, and what is deployed can be reached and finds its files.
ItemsServe ==
    /\ part = "items" => Thing!AcceptedIsAdmitted(input) /\ Thing!SentAsWritten(input)
    /\ part = "groups" => Deploy!ItemServes(input)
    /\ part = "instances" =>
        /\ Deploy!WaitsForWhatIsDeployed(input.items, input.ui)
        /\ Deploy!NamesDiffer(input.items, input.ui)

\* EntriesTell, IndexesDiffer and CallsShown of UiTimeline: the timeline shows of
\* each sub-step what came of it, and the calls that were made meanwhile.
\* EscapesAlign, SummariesAgree, FailedAreTold, ToldOnce and FrameTells of Reports:
\* what is told of a run, by whichever command, is the same and is all of it.
\* LinesStored of ConsoleLogs: what a container prints is stored line by line.
ReportsTell ==
    /\ part = "timeline" => Timeline!TimelineTells
    /\ part = "strings" => Told!EscapesAlign(input)
    /\ part = "reports" => Told!SummariesAgree(input) /\ Told!FailedAreTold(input)
    /\ part = "polls" =>
        \A last \in MCLastPolls : Told!ToldOnce(<<input[1], input[2], last>>, input[3])
    /\ part = "prints" => Console!LinesStored(input)
    /\ part = "frames" => Told!FrameTells(MCLive(input.shown), input.height)

=============================================================================
