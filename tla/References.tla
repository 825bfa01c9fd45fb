----------------------------- MODULE References -----------------------------
(***************************************************************************)
(* How a definition draws in other files with $ref: items and variables    *)
(* are merged from any number of files, an action from one, and the steps  *)
(* of an action of the browser are spliced in.  A file system fs gives     *)
(* each file [refs, keys]: what it refers to, in order, and the keys it    *)
(* sets itself; a file not in it is missing or cannot be parsed.           *)
(***************************************************************************)
EXTENDS Naturals, Sequences, FiniteSets, Functions, SequencesExt, TLC

CONSTANT MaxRefDepth

Failed == [ok |-> FALSE]

\* Keys that are no names of variables, which are letters, digits and _.
NoVariables == {"no-name"}

\* visited is the chain of files that led here, not all files seen.
Unusable(fs, f, visited) == f \in visited \/ f \notin DOMAIN fs

\* A mutant of Over: what the files set wins over what is set in place.
OverRef(inline, merged) == merged @@ inline

Over(inline, merged) == inline @@ merged

\* The value maps each key to the file that set it; source is the file whose
\* directory the paths in it are read from.
RECURSIVE Merge(_, _, _)
Merge(fs, f, visited) ==
    LET inline == [k \in fs[f].keys |-> f]
        refs == fs[f].refs
        Load(g) ==
            IF Unusable(fs, g, visited) THEN Failed
            ELSE IF fs[g].refs = <<>>
            THEN [ok |-> TRUE, value |-> [k \in fs[g].keys |-> g], source |-> g]
            ELSE Merge(fs, g, visited \cup {g})
        loaded == [i \in DOMAIN refs |-> Load(refs[i])]
        merged == FoldLeft(LAMBDA acc, x : x.value @@ acc, <<>>, loaded)
    IN IF Cardinality(visited) > MaxRefDepth \/ \E i \in DOMAIN refs : ~loaded[i].ok THEN Failed
       ELSE [ok |-> TRUE, value |-> Over(inline, merged),
             source |-> IF refs = <<>> THEN f ELSE Last(loaded).source]

\* resolveVariablesRef: a file of variables that refers to no other is looked
\* through for names that are none; what refers to others is not.
RECURSIVE MergeVariables(_, _, _)
MergeVariables(fs, f, visited) ==
    LET inline == [k \in fs[f].keys |-> f]
        refs == fs[f].refs
        Load(g) ==
            IF Unusable(fs, g, visited) THEN Failed
            ELSE IF fs[g].refs # <<>> THEN MergeVariables(fs, g, visited \cup {g})
            ELSE IF fs[g].keys \cap NoVariables # {} THEN Failed
            ELSE [ok |-> TRUE, value |-> [k \in fs[g].keys |-> g]]
        loaded == [i \in DOMAIN refs |-> Load(refs[i])]
        merged == FoldLeft(LAMBDA acc, x : x.value @@ acc, <<>>, loaded)
    IN IF Cardinality(visited) > MaxRefDepth \/ \E i \in DOMAIN refs : ~loaded[i].ok THEN Failed
       ELSE [ok |-> TRUE, value |-> Over(inline, merged)]

\* validateVariablesField: the names that come to stand in f are looked at, too.
Variables(fs, f) ==
    LET m == MergeVariables(fs, f, {f}) IN
    IF m.ok /\ DOMAIN m.value \cap NoVariables # {} THEN Failed ELSE m

\* resolveActionRef, which follows at most one reference from each file.
RECURSIVE MergeAction(_, _, _)
MergeAction(fs, f, visited) ==
    LET inline == [k \in fs[f].keys |-> f]
        g == Head(fs[f].refs)
        inner == IF fs[g].refs = <<>> THEN [ok |-> TRUE, value |-> [k \in fs[g].keys |-> g]]
                 ELSE MergeAction(fs, g, visited \cup {g})
    IN IF Cardinality(visited) > MaxRefDepth \/ Unusable(fs, g, visited) \/ ~inner.ok THEN Failed
       ELSE [ok |-> TRUE, value |-> Over(inline, inner.value)]

\* The steps of f, as files; what cannot be expanded is left out and reported.
\* A file that is spliced in is entered even if it refers to nothing.
RECURSIVE Splice(_, _, _)
Splice(fs, f, visited) ==
    LET refs == fs[f].refs
        Load(g) == IF Unusable(fs, g, visited) THEN [ok |-> FALSE, steps |-> <<>>]
                   ELSE Splice(fs, g, visited \cup {g})
        loaded == [i \in DOMAIN refs |-> Load(refs[i])]
    IN IF Cardinality(visited) > MaxRefDepth THEN [ok |-> FALSE, steps |-> <<>>]
       ELSE [ok |-> \A i \in DOMAIN refs : loaded[i].ok,
             steps |-> FoldLeft(LAMBDA acc, x : acc \o x.steps, <<f>>, loaded)]

\* What becomes of the action of a step: fs[f].refs stands in the action itself,
\* in the steps of an action of the browser, or nowhere.
resolveActionRefs(fs, f, where) ==
    CASE where = "action" -> MergeAction(fs, f, {f})
      [] where = "steps"  -> Splice(fs, f, {f})
      [] OTHER            -> [ok |-> TRUE, value |-> [k \in fs[f].keys |-> f]]

-----------------------------------------------------------------------------
(* Properties.                                                             *)

Targets(fs, f) == IF f \in DOMAIN fs THEN Range(fs[f].refs) ELSE {}

\* The files that n references or fewer lead to.
Within(fs, f, n) ==
    LET W[i \in 0..n] == IF i = 0 THEN {f} ELSE W[i - 1] \cup UNION {Targets(fs, g) : g \in W[i - 1]}
    IN W[n]

\* The files exactly n references away.
AtDepth(fs, f, n) ==
    LET A[i \in 0..n] == IF i = 0 THEN {f} ELSE UNION {Targets(fs, g) : g \in A[i - 1]}
    IN A[n]

Reach(fs, f) == Within(fs, f, Cardinality(DOMAIN fs) + 1)
Cyclic(fs, f) == \E g \in Reach(fs, f) : \E h \in Targets(fs, g) : g \in Reach(fs, h)

\* Nothing missing, no file that leads to itself, no chain of more than n.
Sound(fs, f, n) ==
    /\ Reach(fs, f) \subseteq DOMAIN fs
    /\ ~Cyclic(fs, f)
    /\ AtDepth(fs, f, n + 1) = {}

\* Whatever files refer to each other, resolution ends; it succeeds just when
\* no file is missing, none leads to itself and no chain is longer than the
\* limit, which is one less for steps; a file that is reached twice without a
\* cycle is no error.  Then every key of every file is there, what is set in
\* place wins, and after it the last file (dokkimi-instructions.md:730, 750).
\* Variables resolve as items do, unless a name in one of the files is none; and
\* an action as an item that refers to no more than one file at a time.
RefsResolve(fs, f) ==
    LET m == Merge(fs, f, {f})
        s == resolveActionRefs(fs, f, "steps")
        last == Last(fs[f].refs)
    IN fs[f].refs # <<>> =>
        /\ m.ok <=> Sound(fs, f, MaxRefDepth)
        /\ s.ok <=> Sound(fs, f, MaxRefDepth - 1)
        /\ m.ok =>
            /\ DOMAIN m.value = UNION {fs[g].keys : g \in Reach(fs, f)}
            /\ \A k \in DOMAIN m.value :
                /\ m.value[k] \in Reach(fs, f) /\ k \in fs[m.value[k]].keys
                /\ k \in fs[f].keys => m.value[k] = f
                /\ (k \notin fs[f].keys /\ \E g \in Reach(fs, last) : k \in fs[g].keys) =>
                    m.value[k] = Merge(fs, last, {f, last}).value[k]
            /\ fs[m.source].refs = <<>>
        /\ s.ok => Range(s.steps) = Reach(fs, f)
        /\ LET v == Variables(fs, f) IN
           /\ v.ok => m.ok /\ v.value = m.value
           /\ m.ok /\ ~v.ok => \E g \in Reach(fs, f) : fs[g].keys \cap NoVariables # {}
        /\ (\A g \in Reach(fs, f) : g \in DOMAIN fs => Len(fs[g].refs) =< 1) =>
            LET a == resolveActionRefs(fs, f, "action") IN a.ok = m.ok /\ (a.ok => a.value = m.value)

=============================================================================
