----------------------------- MODULE Preferences -----------------------------
(***************************************************************************)
(* shared/config/user-prefs.ts, and those that change and show what it     *)
(* keeps: `dokkimi config`, the tools get_config and set_config, and the   *)
(* limits the Control Tower takes from it.  The file is one record, and    *)
(* one for each project in it has the same fields; what is not set is not  *)
(* there, so that records are functions and undefined is the empty set.    *)
(* Each change reads the file and writes it again, and nothing keeps two   *)
(* programs from doing so at once: a change is one step here, from a file  *)
(* that may be torn by another's.  The events that are tracked of changes  *)
(* are left out.                                                           *)
(***************************************************************************)
EXTENDS Integers, TLC

Limits == {"maxConcurrentTests", "maxBootingTests"}
Settings == Limits \cup {"maxRunHistory"}
Default == [maxConcurrentTests |-> 6, maxBootingTests |-> 2, maxRunHistory |-> 2]

\* f[key], or nothing; a, and if it is nothing b; f[key] where f[key] is a record.
Given(f, key) == IF key \in DOMAIN f THEN {f[key]} ELSE {}
Else(a, b) == IF a # {} THEN a ELSE b
Sub(f, key) == IF key \in DOMAIN f THEN f[key] ELSE <<>>
Sole(set) == CHOOSE x \in set : TRUE

Without(f, key) == [k \in DOMAIN f \ {key} |-> f[k]]
Put(f, key, record) == IF DOMAIN record = {} THEN Without(f, key) ELSE key :> record @@ f

\* A file that is not there, or not whole, counts as empty.
getUserPrefs(file) == IF file.is = "prefs" THEN file.prefs ELSE <<>>

\* What the file says of "global", or of a project.
Own(prefs, scope) == IF scope = "global" THEN prefs ELSE Sub(Sub(prefs, "projects"), scope)
Held(prefs, scope, key) ==
    Given(IF key \in Limits THEN Sub(Own(prefs, scope), "concurrency") ELSE Own(prefs, scope), key)

Placed(prefs, scope, own) ==
    IF scope = "global" THEN own
    ELSE Put(prefs, "projects", Put(Sub(prefs, "projects"), scope, own))

-----------------------------------------------------------------------------
(* Reading and changing.                                                   *)

getConcurrencyPrefs(prefs, scope) ==
    LET found(key) == Else(Held(prefs, scope, key), Held(prefs, "global", key))
    IN [key \in {k \in Limits : found(k) # {}} |-> Sole(found(key))]

\* Mutant: what is given is all a scope has from then on.
setConcurrencyAnew(prefs, concurrency, scope) ==
    Placed(prefs, scope, Put(Own(prefs, scope), "concurrency", concurrency))

\* Of what is given only what is not undefined; to give nothing clears what a
\* project has, and changes nothing globally.
setConcurrencyPrefs(prefs, concurrency, scope) ==
    LET own == Own(prefs, scope)
        merged == IF DOMAIN concurrency = {} /\ scope # "global" THEN <<>>
                  ELSE concurrency @@ Sub(own, "concurrency")
    IN Placed(prefs, scope, Put(own, "concurrency", merged))

getMaxRunHistory(prefs, scope) ==
    LET value == Sole(Else(Held(prefs, scope, "maxRunHistory"),
                           Else(Held(prefs, "global", "maxRunHistory"), {Default.maxRunHistory})))
    IN IF value < 1 THEN 1 ELSE value

setMaxRunHistory(prefs, value, scope) ==
    LET rest == Without(Own(prefs, scope), "maxRunHistory")
    IN Placed(prefs, scope, IF value = {} THEN rest ELSE "maxRunHistory" :> Sole(value) @@ rest)

\* What is in force of a setting in a project, or where there is none.
InForce(prefs, scope, key) ==
    IF key = "maxRunHistory" THEN getMaxRunHistory(prefs, scope)
    ELSE Sole(Else(Given(getConcurrencyPrefs(prefs, scope), key), {Default[key]}))

\* The limits by which the Control Tower admits tests: it asks for no project.
TowerLimit(prefs, config, key) == Sole(Else(Given(getConcurrencyPrefs(prefs, "global"), key), {config[key]}))

-----------------------------------------------------------------------------
(* dokkimi config, in project, which is "none" outside of one.             *)

Here(project) == IF project = "none" THEN "global" ELSE project

\* The entries of the menus, and the range in which a number is taken.
Entries(prefs, project) ==
    { [key |-> key, scope |-> scope] : key \in Settings, scope \in {"global", Here(project)} }
    \cup { [key |-> unset, scope |-> project] : unset \in
            {u \in {"resetProject"} : project # "none" /\ "concurrency" \in DOMAIN Own(prefs, project)}
            \cup {u \in {"unsetProject"} : project # "none" /\ Held(prefs, project, "maxRunHistory") # {}} }
TakesNumber(key, value) == value >= 1 /\ value <= (IF key \in Limits THEN 50 ELSE 20)

OrDefault(key, value) == IF value = Default[key] THEN {} ELSE {value}

editConcurrency(prefs, entry, value) ==
    IF entry.key = "resetProject" THEN setConcurrencyPrefs(prefs, <<>>, entry.scope)
    ELSE IF TakesNumber(entry.key, value) THEN setConcurrencyPrefs(prefs, entry.key :> value, entry.scope)
    ELSE prefs

editRunHistory(prefs, entry, value) ==
    IF entry.key = "unsetProject" THEN setMaxRunHistory(prefs, {}, entry.scope)
    ELSE IF TakesNumber(entry.key, value)
    THEN setMaxRunHistory(prefs, OrDefault("maxRunHistory", value), entry.scope)
    ELSE prefs

configCommand(prefs, entry, value) ==
    IF entry.key \in Limits \cup {"resetProject"}
    THEN editConcurrency(prefs, entry, value) ELSE editRunHistory(prefs, entry, value)

runHistorySource(prefs, project) ==
    IF project = "none" THEN "default"
    ELSE IF Held(prefs, project, "maxRunHistory") # {} THEN "project"
    ELSE IF Held(prefs, "global", "maxRunHistory") # {} THEN "global" ELSE "default"

-----------------------------------------------------------------------------
(* The tools, in project.                                                  *)

\* Mutant: what is in force in a project counts as set there.
resolveSourceAnywhere(prefs, key, project) ==
    IF project # "none" /\ getMaxRunHistory(prefs, project) # Default.maxRunHistory THEN "project"
    ELSE IF Held(prefs, "global", key) # {} THEN "global" ELSE "default"

resolveSource(prefs, key, project) ==
    IF project # "none" /\ Held(prefs, project, key) # {} THEN "project"
    ELSE IF Held(prefs, "global", key) # {} THEN "global" ELSE "default"

Target(call, project) ==
    IF call.scope = "global" THEN {"global"}
    ELSE IF call.scope = "project" THEN {project} \ {"none"} ELSE {Here(project)}
InRange(key, value) ==
    value.is = "number" /\ value.has >= 1 /\ value.has <= (IF key \in Limits THEN 50 ELSE 100)
Accepted(call, project) == Target(call, project) # {} /\ InRange(call.key, call.value)

\* Mutant: the other limit is left out.
set_config_alone(prefs, call, project) ==
    IF ~Accepted(call, project) THEN prefs
    ELSE IF call.key = "maxRunHistory"
    THEN setMaxRunHistory(prefs, OrDefault(call.key, call.value.has), Sole(Target(call, project)))
    ELSE setConcurrencyPrefs(prefs, IF call.value.has = Default[call.key] THEN <<>> ELSE call.key :> call.value.has,
                             Sole(Target(call, project)))

\* What is in force of the other limit is given along with the one that is set.
set_config(prefs, call, project) ==
    LET scope == Sole(Target(call, project))
        value == OrDefault(call.key, call.value.has)
        others == Without(getConcurrencyPrefs(prefs, scope), call.key)
    IN IF ~Accepted(call, project) THEN prefs
       ELSE IF call.key = "maxRunHistory" THEN setMaxRunHistory(prefs, value, scope)
       ELSE setConcurrencyPrefs(prefs, IF value = {} THEN others ELSE call.key :> Sole(value) @@ others, scope)

-----------------------------------------------------------------------------
(* Properties.                                                             *)

\* No record of the file is empty, so that what is not set is not there.
NothingEmpty(prefs) ==
    /\ "concurrency" \in DOMAIN prefs => DOMAIN prefs.concurrency # {}
    /\ "projects" \in DOMAIN prefs =>
        /\ DOMAIN prefs.projects # {}
        /\ \A p \in DOMAIN prefs.projects :
            /\ DOMAIN prefs.projects[p] # {}
            /\ "concurrency" \in DOMAIN prefs.projects[p] => DOMAIN prefs.projects[p].concurrency # {}

\* To change one setting in one place leaves in force what was in force of all
\* others and elsewhere, but where a project follows the global one.
OthersStay(prefs, after, scope, keys, scopes) ==
    \A s \in scopes, key \in Settings :
        \/ key \in keys /\ (s = scope \/ (scope = "global" /\ Held(prefs, s, key) = {}))
        \/ InForce(after, s, key) = InForce(prefs, s, key)

\* What was set is in force from then on, and said to be set there.  What is set
\* to the default the tool, and for the history the menu, takes out: there what was
\* in force, or what is set globally, remains.
TakesEffect(prefs, after, scope, key, value, byTool) ==
    \/ /\ InForce(after, scope, key) = value
       /\ value # Default[key] =>
            resolveSource(after, key, IF scope = "global" THEN "none" ELSE scope)
            = (IF scope = "global" THEN "global" ELSE "project")
    \/ /\ value = Default[key]
       /\ byTool \/ key = "maxRunHistory"
       /\ InForce(after, scope, key) \in {InForce(prefs, scope, key), InForce(prefs, "global", key)}

\* Of commands and tools: a setting that is accepted takes effect and touches no
\* other, one that is refused changes nothing, and the file stays as it should be.
MenuKeeps(prefs, project, entry, value, scopes) ==
    LET after == configCommand(prefs, entry, value)
        keys == IF entry.key = "resetProject" THEN Limits
                ELSE IF entry.key = "unsetProject" THEN {"maxRunHistory"} ELSE {entry.key}
    IN /\ NothingEmpty(after)
       /\ OthersStay(prefs, after, entry.scope, keys, scopes)
       /\ \A s \in scopes, key \in Settings :
            Held(after, s, key) = Held(prefs, s, key) \/ (s = entry.scope /\ key \in keys)
       /\ IF entry.key \notin Settings
          THEN \A key \in keys : InForce(after, project, key) = InForce(after, "global", key)
          ELSE IF TakesNumber(entry.key, value)
          THEN TakesEffect(prefs, after, entry.scope, entry.key, value, FALSE)
          ELSE after = prefs

ToolKeeps(prefs, project, call, scopes) ==
    LET after == set_config(prefs, call, project)
        scope == Sole(Target(call, project))
    IN /\ NothingEmpty(after)
       /\ IF Accepted(call, project)
          THEN /\ OthersStay(prefs, after, scope, {call.key}, scopes)
               /\ TakesEffect(prefs, after, scope, call.key, call.value.has, TRUE)
          ELSE after = prefs

\* The menu and the tool say the same of where the history is set, in a project.
SourcesAgree(prefs, project) ==
    project # "none" => runHistorySource(prefs, project) = resolveSource(prefs, "maxRunHistory", project)

=============================================================================
