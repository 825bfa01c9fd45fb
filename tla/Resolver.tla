------------------------------ MODULE Resolver ------------------------------
(***************************************************************************)
(* From the files of a project to the definitions that are run: which      *)
(* files are looked at, which are refused, what the others draw in and how *)
(* their references to variables are replaced.  A path is the sequence of  *)
(* its names; a file system fs gives each path of a file what it holds:    *)
(*   [is |-> "definition", ...], [is |-> "part", item |-> ...],            *)
(*   [is |-> "config", env |-> ...], or "broken", "ignore", "data".        *)
(* A text is a sequence of tokens <<kind, key>>.                           *)
(***************************************************************************)
EXTENDS Naturals, Sequences, FiniteSets, SequencesExt, TLC

\* The names that are told apart: those that begin with a dot, and those that end
\* as a definition file does.
Hidden == {".dokkimi", ".dokignore", ".old"}
DefinitionFiles == {"a.yaml", "b.yaml", "base.yaml", "config.yaml", "config.yml", "config.json"}
CONFIG_FILENAMES == <<"config.yaml", "config.yml", "config.json">>
Parent(path) == SubSeq(path, 1, Len(path) - 1)
NoKeys == {"no-key"}

Name(path) == IF path = <<>> THEN "" ELSE path[Len(path)]
Below(dir, path) == IsStrictPrefix(dir, path)
RelativeTo(dir, path) == SubSeq(path, Len(dir) + 1, Len(path))

isDefinitionFile(path) == Name(path) \in DefinitionFiles
IsDirectory(fs, path) == \E f \in DOMAIN fs : Below(path, f)
Ancestors(dir) == {SubSeq(dir, 1, n) : n \in 0..Len(dir)}
Nearest(dirs) == {d \in dirs : \A e \in dirs : Len(e) =< Len(d)}

-----------------------------------------------------------------------------
(* Which files are looked at.                                              *)

\* The directories called .dokkimi are a set of at most one.
findDokkimiDir(file) == Nearest({d \in Ancestors(Parent(file)) : Name(d) = ".dokkimi"})

findDokkimiDirFrom(fs, dir) ==
    LET inside == findDokkimiDir(Append(dir, "_placeholder"))
        beside == {Append(d, ".dokkimi") : d \in Ancestors(dir)}
    IN IF inside # {} THEN inside ELSE Nearest({d \in beside : IsDirectory(fs, d)})

\* A line of .dokignore is a path, or a pattern in which * is any one name.
Fits(line, path) == Len(line) = Len(path) /\ \A i \in DOMAIN line : line[i] \in {"*", path[i]}
loadDokignore(fs, dir) ==
    LET file == Append(dir, ".dokignore") IN
    IF file \in DOMAIN fs /\ fs[file].is = "ignore" THEN fs[file].lines ELSE {}

\* A mutant of scanDefinitionFiles: lines are taken from where the scan begins.
ScanFromItsRoot(fs, dir, root) ==
    {f \in DOMAIN fs :
        /\ Below(dir, f) /\ isDefinitionFile(f)
        /\ ToSet(RelativeTo(dir, f)) \cap Hidden = {}
        /\ \A line \in loadDokignore(fs, root) : ~Fits(line, RelativeTo(dir, f)) /\ ~Fits(line, <<Name(f)>>)}

\* Only names below the directory where the scan begins may hide a file.
scanDefinitionFiles(fs, dir, root) ==
    {f \in DOMAIN fs :
        /\ Below(dir, f) /\ isDefinitionFile(f)
        /\ ToSet(RelativeTo(dir, f)) \cap Hidden = {}
        /\ \A line \in loadDokignore(fs, root) : ~Fits(line, RelativeTo(root, f)) /\ ~Fits(line, <<Name(f)>>)}

\* A glob is held against the name, other patterns are found in any part of the
\* path; names are those it fits or is found in.
filterFilesByPattern(files, dir, pattern) ==
    {f \in files : IF pattern.glob THEN Name(f) \in pattern.names
                   ELSE ToSet(RelativeTo(dir, f)) \cap pattern.names # {}}

Refusal == [ok |-> FALSE, dir |-> <<>>, files |-> {}]
Picked(dir, files) == [ok |-> TRUE, dir |-> dir, files |-> files]

\* The target is a path, a pattern or missing; cwd is where the command runs.
Discover(fs, cwd, target) ==
    LET path == target.path
        above(dir) == findDokkimiDirFrom(fs, dir)
        Root == IF above(cwd) # {} THEN CHOOSE d \in above(cwd) : TRUE ELSE Append(cwd, ".dokkimi")
    IN CASE target.is = "path" /\ isDefinitionFile(path) ->
              IF path \notin DOMAIN fs THEN Refusal
              ELSE Picked(IF findDokkimiDir(path) = {} THEN Parent(path) ELSE CHOOSE d \in findDokkimiDir(path) : TRUE,
                          {path})
         [] target.is = "path" /\ path \in DOMAIN fs -> Refusal
         [] target.is = "path" /\ IsDirectory(fs, path) ->
              LET child == Append(path, ".dokkimi") IN
              IF IsDirectory(fs, child) THEN Picked(child, scanDefinitionFiles(fs, child, child))
              ELSE IF above(path) # {}
              THEN LET d == CHOOSE x \in above(path) : TRUE IN Picked(d, scanDefinitionFiles(fs, path, d))
              ELSE Picked(path, scanDefinitionFiles(fs, path, path))
         [] ~IsDirectory(fs, Root) -> Refusal
         [] target.is = "pattern" -> Picked(Root, filterFilesByPattern(scanDefinitionFiles(fs, Root, Root), Root, target))
         [] OTHER -> Picked(Root, scanDefinitionFiles(fs, IF Below(Root, cwd) THEN cwd ELSE Root, Root))

-----------------------------------------------------------------------------
(* The configuration of the project.                                       *)

NoConfig == [files |-> {}, errors |-> {}, env |-> <<>>]

ConfigFile(dir) == LET P(i) == Append(dir, CONFIG_FILENAMES[i]) IN [i \in DOMAIN CONFIG_FILENAMES |-> P(i)]

\* The first file there is counts, even if it cannot be used.
loadDokkimiConfig(fs, dir) ==
    LET found == SelectSeq(ConfigFile(dir), LAMBDA f : f \in DOMAIN fs) IN
    IF found = <<>> THEN NoConfig
    ELSE IF fs[Head(found)].is = "config" /\ DOMAIN fs[Head(found)].env \cap NoKeys = {}
    THEN [files |-> {Head(found)}, errors |-> {}, env |-> fs[Head(found)].env]
    ELSE [files |-> {Head(found)}, errors |-> {Head(found)}, env |-> <<>>]

-----------------------------------------------------------------------------
(* Texts.                                                                  *)

Replaced(text, kind, values) ==
    FlattenSeq([i \in DOMAIN text |->
        IF text[i][1] = kind /\ text[i][2] \in DOMAIN values THEN values[text[i][2]] ELSE <<text[i]>>])

Holds(text, kinds) == \E i \in DOMAIN text : text[i][1] \in kinds

\* The kinds are: word, plain text; var, {{key}}; path, {{key.part}}; env, ${{key}};
\* odd, ${{key.part}}, which no pattern matches.
interpolateVars(text, vars) == Replaced(text, "var", vars)
interpolateEnv(text, env) == Replaced(text, "env", env)
Unresolved(text, kind, values) == {text[i][2] : i \in {j \in DOMAIN text : text[j][1] = kind}} \ DOMAIN values
findLeftoverVarRefs(text) == Holds(text, {"var", "path"})

-----------------------------------------------------------------------------
(* One file.                                                               *)

\* An item refers to a file or to none; what it says itself wins over that, and
\* its files are sought from where the text of the reference is.  How references
\* go on is said in References.
Usable(fs, f) == f \in DOMAIN fs /\ fs[f].is = "part"
ResolvedItem(fs, item, file) ==
    IF item.ref = {} THEN [own |-> item, from |-> Parent(file)]
    ELSE LET f == CHOOSE x \in item.ref : TRUE IN [own |-> item.over @@ fs[f].item, from |-> Parent(f)]

Items(fs, file) == [i \in DOMAIN fs[file].items |-> ResolvedItem(fs, fs[file].items[i], file)]

Resolve(dir, path) ==
    FoldLeft(LAMBDA acc, n : IF n # ".." THEN Append(acc, n) ELSE IF acc = <<>> THEN acc ELSE Parent(acc), dir, path)

\* collectInitFilePaths, and the sources of mountFiles.
Drawn(items, types) ==
    UNION {{Resolve(items[i].from, p) : p \in items[i].own.files} : i \in {j \in DOMAIN items : items[j].own.type \in types}}
InitPaths(items) == Drawn(items, {"DATABASE"})
MountPaths(items) == Drawn(items, {"SERVICE"})

\* validateDefinition; valid stands for all that is said in Items and TestDefinitions.
Acceptable(fs, file) ==
    LET d == fs[file]
        refs == UNION {d.items[i].ref : i \in DOMAIN d.items}
        items == Items(fs, file)
    IN /\ d.valid /\ d.name # ""
       /\ \A f \in refs \cup d.draws : Usable(fs, f) /\ f # file
       /\ \A i, j \in DOMAIN items : items[i].own.name = items[j].own.name => i = j
       /\ InitPaths(items) \cup MountPaths(items) \subseteq DOMAIN fs

Read(fs, file) ==
    (UNION {fs[file].items[i].ref : i \in DOMAIN fs[file].items} \cup fs[file].draws) \cap DOMAIN fs

\* A mutant of Consumed: files to mount are not noted.
ConsumedNoMounts(fs, dir, file, items) ==
    {file} \cup Read(fs, file) \cup {p \in InitPaths(items) : Below(dir, p)}

\* Files to mount are read only if no file of a database was refused.
Consumed(fs, dir, file, items) ==
    {file} \cup Read(fs, file) \cup {p \in InitPaths(items) : Below(dir, p)}
    \cup IF \A p \in InitPaths(items) : Below(dir, p)
         THEN {p \in MountPaths(items) : Below(Parent(dir), p)} ELSE {}

\* Variables may be drawn from a file; those of the configuration come last.
Vars(fs, file, env) ==
    FoldSet(LAMBDA f, acc : acc @@ fs[f].variables, fs[file].variables, fs[file].draws) @@ env

\* The texts of the items, and what the tests say, with their references replaced.
Texts(fs, file, items, env) ==
    [items |-> [i \in DOMAIN items |-> interpolateEnv(interpolateVars(items[i].own.text, Vars(fs, file, env)), env)],
     tests |-> interpolateEnv(fs[file].says, env)]

\* Why a file whose name is new is refused after all.
Faults(fs, dir, file, items, env) ==
    LET half == [i \in DOMAIN items |-> interpolateVars(items[i].own.text, Vars(fs, file, env))]
    IN {d \in {"init", "mount", "variable", "leftover", "env"} :
           CASE d = "init"     -> \E p \in InitPaths(items) : ~Below(dir, p)
             [] d = "mount"    -> \E p \in MountPaths(items) : ~Below(Parent(dir), p)
             [] d = "variable" -> \E i \in DOMAIN items : Unresolved(items[i].own.text, "var", Vars(fs, file, env)) # {}
             [] d = "leftover" -> \E i \in DOMAIN half : findLeftoverVarRefs(half[i])
             [] d = "env"      -> \/ \E i \in DOMAIN half : Unresolved(half[i], "env", env) # {}
                                  \/ Unresolved(fs[file].says, "env", env) # {}}

-----------------------------------------------------------------------------
(* All of them, in the order in which the directory gives them.             *)

Nothing(config) == [files |-> config.files, errors |-> config.errors, resolved |-> {}, seen |-> {}]

TakeRead(fs, dir, config, acc, file, items, consumed) ==
    LET c == fs[file]
        Err(noted) == [acc EXCEPT !.files = @ \cup noted, !.errors = @ \cup {file}]
    IN CASE c.is = "broken"                -> Err({file})
         [] c.is \notin {"broken", "definition"} -> [acc EXCEPT !.files = @ \cup {file}]
         [] c.is = "definition" /\ (~Acceptable(fs, file) \/ c.name \in acc.seen) -> Err({file} \cup Read(fs, file))
         [] OTHER ->
              IF Faults(fs, dir, file, items, config.env) # {}
              THEN [Err(consumed) EXCEPT !.seen = @ \cup {c.name}]
              ELSE [acc EXCEPT !.files = @ \cup consumed, !.seen = @ \cup {c.name},
                               !.resolved = @ \cup {[name |-> c.name, file |-> file,
                                                     sent |-> [p \in InitPaths(items) \cup MountPaths(items) |-> fs[p]],
                                                     texts |-> Texts(fs, file, items, config.env)]}]
Take(fs, dir, config, acc, file, items) ==
    TakeRead(fs, dir, config, acc, file, items, Consumed(fs, dir, file, items))

resolveDefinitions(fs, cwd, target, order) ==
    LET resolve(d, config) ==
            IF ~d.ok THEN [Nothing(NoConfig) EXCEPT !.errors = {target.path}]
            ELSE IF d.files = {} THEN [Nothing(config) EXCEPT !.files = {}]
            ELSE FoldLeft(LAMBDA acc, f : Take(fs, d.dir, config, acc, f, Items(fs, f)), Nothing(config),
                          SelectSeq(order, LAMBDA f : f \in d.files))
        configured(d) == resolve(d, loadDokkimiConfig(fs, d.dir))
    IN configured(Discover(fs, cwd, target))

-----------------------------------------------------------------------------
(* Properties.                                                             *)

\* Wherever a run is started and whatever it is asked for: a directory in the
\* project gives just those files of the project that lie in it, unless a hidden
\* directory is named; and a file that is run with others is run by itself under
\* the same configuration, unless it is in no .dokkimi.
ScopesAgree(fs, cwd, target) ==
    LET d == Discover(fs, cwd, target)
        scope == IF target.is = "path" THEN target.path ELSE cwd
    IN d.ok /\ Name(d.dir) = ".dokkimi" =>
        /\ (target.is # "pattern" /\ Below(d.dir, scope) /\ scope \notin DOMAIN fs
             /\ ToSet(RelativeTo(d.dir, scope)) \cap Hidden = {}) =>
            d.files = {f \in scanDefinitionFiles(fs, d.dir, d.dir) : Below(scope, f)}
        /\ \A f \in d.files :
            Discover(fs, cwd, [is |-> "path", path |-> f]) = [ok |-> TRUE, dir |-> d.dir, files |-> {f}]

\* Every file that is looked at is skipped, refused or resolved; no two resolved
\* definitions have the same name; no reference is left in them but what a value
\* of the configuration brings with it, or has no name for a key.
ResolvedOnce(fs, cwd, target, order) ==
    LET each(d, config, r) ==
            /\ \A x, y \in r.resolved : x.name = y.name => x = y
            /\ \A f \in d.files :
                 IF fs[f].is = "definition" THEN (f \in {x.file : x \in r.resolved}) # (f \in r.errors)
                 ELSE /\ \A x \in r.resolved : x.file # f
                      /\ f \in r.errors <=> fs[f].is = "broken" \/ f \in config.errors
            /\ (\A k \in DOMAIN config.env : ~Holds(config.env[k], {"var", "path", "env"})) =>
                 \A x \in r.resolved :
                     /\ \A i \in DOMAIN x.texts.items : ~Holds(x.texts.items[i], {"var", "path", "env"})
                     /\ ~Holds(x.texts.tests, {"env"})
        found(d) == each(d, loadDokkimiConfig(fs, d.dir), resolveDefinitions(fs, cwd, target, order))
    IN found(Discover(fs, cwd, target))

\* What is resolved and refused depends on no file but those that are noted as
\* consumed, which a run that watches its files looks at, and on .dokignore.
WatchedIsAll(fs, cwd, target, order, Contents) ==
    LET same(r) ==
            \A f \in DOMAIN fs \ r.files :
                Name(f) # ".dokignore" =>
                    \A c \in Contents : resolveDefinitions([fs EXCEPT ![f] = c], cwd, target, order) = r
    IN Discover(fs, cwd, target).files # {} => same(resolveDefinitions(fs, cwd, target, order))

=============================================================================
