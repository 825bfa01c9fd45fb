----------------------------- MODULE Registries -----------------------------
(***************************************************************************)
(* registry-credentials.ts of the CLI and docker-registry.service.ts of    *)
(* the Control Tower: with what the images of a run are pulled.  A registry*)
(* is a scheme, if any, a host, and a path; a credential names its registry*)
(* and who asks.  What docker-credential-* answer is given.                *)
(***************************************************************************)
EXTENDS Integers, Sequences, FiniteSets, TLC, SequencesExt

Sole(set) == CHOOSE x \in set : TRUE
Registry(scheme, host, path) == <<scheme, host, path>>
Hub == Registry("https", "index.docker.io", "/v1/")
Cred(registry, who) == [registryUrl |-> registry, who |-> who]

\* Mutant: a scheme is left where it is.
KeepScheme(r) == r

normalizeRegistryUrl(r) == IF r[2] = "index.docker.io" THEN r ELSE Registry("", r[2], r[3])

\* Of a helper, and of what is written inline: an answer, or none.
resolveCredHelper(registry, answer) ==
    IF answer = "none" THEN {} ELSE {Cred(normalizeRegistryUrl(registry), answer)}
decodeAuth(registry, auth) ==
    IF auth \in {"none", "no colon"} THEN {} ELSE {Cred(normalizeRegistryUrl(registry), auth)}

\* The entries of each source in their order, as pairs of a registry and what is
\* known of it.  A store that cannot be listed has none.
resolveCredStore(store) == IF store.lists THEN store.entries ELSE <<>>

\* Mutant: what is known already stays.
StoreLast(known, entry, cred) ==
    IF cred = {} \/ normalizeRegistryUrl(entry[1]) \in DOMAIN known THEN known
    ELSE normalizeRegistryUrl(entry[1]) :> Sole(cred) @@ known

\* What comes later replaces what was there for the same registry.
Learned(known, entry, cred) ==
    IF cred = {} THEN known ELSE normalizeRegistryUrl(entry[1]) :> Sole(cred) @@ known

resolveFromDockerConfig(docker) ==
    LET stored == FoldLeft(LAMBDA k, e : Learned(k, e, resolveCredHelper(e[1], e[2])), <<>>, resolveCredStore(docker.store))
        inline == FoldLeft(LAMBDA k, e : Learned(k, e, decodeAuth(e[1], e[2])), stored, docker.auths)
        helped == FoldLeft(LAMBDA k, e : Learned(k, e, resolveCredHelper(e[1], e[2])), inline, docker.helpers)
    IN IF ~docker.readable THEN <<>> ELSE SetToSeq({helped[r] : r \in DOMAIN helped})

\* The references to variables in an entry, and what is made of it.
resolveEnvVars(entry, env) == IF entry.var \in env THEN {Cred(entry.registry, entry.who)} ELSE {}

\* registries.yaml, in this directory or above: one reference that does not
\* resolve ends the run before it began.
resolveFromRegistriesYaml(yaml, env) ==
    IF \E i \in DOMAIN yaml : resolveEnvVars(yaml[i], env) = {} THEN [ok |-> FALSE, creds |-> <<>>]
    ELSE [ok |-> TRUE, creds |-> [i \in DOMAIN yaml |-> Sole(resolveEnvVars(yaml[i], env))]]

findRegistriesYaml(above) == IF \E i \in DOMAIN above : above[i] # {}
    THEN above[CHOOSE i \in DOMAIN above : above[i] # {} /\ \A j \in 1..(i - 1) : above[j] = {}] ELSE {}

\* above: the file of each directory from here upwards, if it has one.
resolveRegistryCredentials(above, env, docker) ==
    LET yaml == findRegistriesYaml(above)
    IN IF yaml # {} THEN resolveFromRegistriesYaml(Sole(yaml), env)
       ELSE [ok |-> TRUE, creds |-> resolveFromDockerConfig(docker)]

-----------------------------------------------------------------------------
(* The Control Tower: what it was given with a run, and what it pulls an   *)
(* image with.  An image is the part before its first slash, and the rest. *)

extractRegistry(image) == IF image.dotted THEN Registry("", image.first, "") ELSE Hub

\* The first that there is for the registry of the image.
getAuthConfig(creds, image) ==
    LET fit == {i \in DOMAIN creds : creds[i].registryUrl = extractRegistry(image)}
    IN {creds[i] : i \in {j \in fit : \A k \in fit : j <= k}}

-----------------------------------------------------------------------------
(* Properties.                                                             *)

LastOf(entries, image) ==
    LET fit == {i \in DOMAIN entries : entries[i][2] \notin {"none", "no colon"}
                                       /\ (entries[i][1] = extractRegistry(image)
                                           \/ (entries[i][1][2] # Hub[2] /\ image.dotted
                                               /\ entries[i][1][2] = image.first /\ entries[i][1][3] = ""))}
    IN {entries[i][2] : i \in {j \in fit : \A k \in fit : k <= j}}

\* An image is pulled with what docker itself would use for its registry: what a
\* helper for it says, else what is written inline, else what the store says,
\* whether or not they name it with a scheme; and none of it where the project
\* lists its registries, of which then the first counts that is written as the
\* image has it.  A list with a variable that is not set begins no run.
PulledAsKnown(above, env, docker, image) ==
    LET resolved == resolveRegistryCredentials(above, env, docker)
        used == {c.who : c \in getAuthConfig(resolved.creds, image)}
        listed == findRegistriesYaml(above)
    IN IF listed = {}
       THEN /\ resolved.ok
            /\ IF ~docker.readable THEN used = {} ELSE
                used = (IF LastOf(docker.helpers, image) # {} THEN LastOf(docker.helpers, image)
                        ELSE IF LastOf(docker.auths, image) # {} THEN LastOf(docker.auths, image)
                        ELSE LastOf(resolveCredStore(docker.store), image))
       ELSE \A yaml \in listed :
            /\ resolved.ok = (\A i \in DOMAIN yaml : yaml[i].var \in env)
            /\ resolved.ok => used \subseteq {yaml[i].who : i \in DOMAIN yaml}
            /\ resolved.ok /\ used = {} => \A i \in DOMAIN yaml : yaml[i].registry # extractRegistry(image)

=============================================================================
