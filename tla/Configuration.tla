---------------------------- MODULE Configuration ----------------------------
(***************************************************************************)
(* shared/config/config.loader.ts and config.validator.ts: how a file and  *)
(* the environment come to be what the services are configured with.       *)
(* A value is its kind and what it has; a half is the number and a half.   *)
(* A section or field that is not written is not in the domain.            *)
(***************************************************************************)
EXTENDS Integers, FiniteSets, TLC

\* What is required of each field: the addresses of the Control Tower first.
Required ==
    [services |->
        "controlTower.host" :> "text" @@ "controlTower.port" :> "port" @@ "controlTower.protocol" :> "protocol"
        @@ "interceptor.port" :> "port" @@ "testAgent.port" :> "port" @@ "chromium.port" :> "port",
     clusterWatcher |-> [idlePollIntervalMs |-> "positive", activePollIntervalMs |-> "positive"],
     concurrency |-> [maxConcurrentTests |-> "count", maxBootingTests |-> "count"],
     network |-> <<>>,
     timeouts |-> [httpRequest |-> "positive", metricsInterval |-> "positive"]]

\* NaN is a number that no comparison finds too small or too large.
IsNumber(v) == v[1] \in {"number", "half", "nan"}
AboveZero(v) == v[1] = "nan" \/ (IsNumber(v) /\ (v[2] > 0 \/ (v[1] = "half" /\ v[2] = 0)))
IsPort(v) == AboveZero(v) /\ (v[1] = "nan" \/ v[2] < 65535 \/ v = <<"number", 65535>>)
IsText(v) == v # <<"text", "">> /\ v # <<"number", 0>> /\ v[1] # "nan"

Satisfies(rule, v) ==
    \/ rule = "port" /\ IsPort(v)
    \/ rule = "positive" /\ AboveZero(v)
    \/ rule = "count" /\ v[1] = "number" /\ v[2] >= 1
    \/ rule = "text" /\ IsText(v)
    \/ rule = "protocol" /\ v \in {<<"text", "http">>, <<"text", "https">>}

\* Mutant: it is enough that a section is there.
validateSections(config) == {<<s>> : s \in DOMAIN Required \ DOMAIN config}

\* What is missing or wrong; a section that is missing is so as a whole.
validateConfig(config) ==
    {<<s>> : s \in DOMAIN Required \ DOMAIN config}
    \cup UNION { {<<s, f>> : f \in {g \in DOMAIN Required[s] :
                    g \notin DOMAIN config[s] \/ ~Satisfies(Required[s][g], config[s][g])}} :
                 s \in DOMAIN Required \cap DOMAIN config }

\* Paths in the home directory, with a scheme or without.
Expanded(v) == IF v[1] = "tilde" THEN <<"home", v[2]>> ELSE v
expandTildePaths(config) == [s \in DOMAIN config |-> [f \in DOMAIN config[s] |-> Expanded(config[s][f])]]

Overrides ==
    "DATABASE_URL" :> <<"database", "url">>
    @@ "CONTROL_TOWER_HOST" :> <<"services", "controlTower.host">>
    @@ "IDLE_POLL_INTERVAL_MS" :> <<"clusterWatcher", "idlePollIntervalMs">>
    @@ "ACTIVE_POLL_INTERVAL_MS" :> <<"clusterWatcher", "activePollIntervalMs">>
    @@ "DOKKIMI_MAX_CONCURRENT_NAMESPACES" :> <<"concurrency", "maxConcurrentTests">>
    @@ "DOKKIMI_MAX_BOOTING_NAMESPACES" :> <<"concurrency", "maxBootingTests">>
    @@ "DOKKIMI_HTTP_TIMEOUT" :> <<"timeouts", "httpRequest">>
    @@ "DOKKIMI_POSTHOG_API_KEY" :> <<"telemetry", "posthogApiKey">>
    @@ "DOKKIMI_POSTHOG_HOST" :> <<"telemetry", "posthogHost">>
    @@ "DOKKIMI_CIRCUIT_BREAKER_TIMEOUT" :> <<"circuitBreaker", "timeout">>
    @@ "DOKKIMI_CIRCUIT_BREAKER_RESET_TIMEOUT" :> <<"circuitBreaker", "resetTimeout">>
    @@ "DOKKIMI_DEFAULT_VIEWPORT_WIDTH" :> <<"browser", "defaultViewportWidth">>
    @@ "DOKKIMI_DEFAULT_VIEWPORT_HEIGHT" :> <<"browser", "defaultViewportHeight">>
Made == {"telemetry", "circuitBreaker", "browser"}

\* A number that is written in a variable, which may be none.
AsNumber(text) == IF text[1] = "number" \/ text[1] = "half" THEN text ELSE <<"nan", 0>>
Taken(variable, text) ==
    IF variable \in {"DATABASE_URL", "CONTROL_TOWER_HOST", "DOKKIMI_POSTHOG_API_KEY", "DOKKIMI_POSTHOG_HOST"}
    THEN text ELSE AsNumber(text)

\* Mutant: a variable that is set to nothing counts.
OverridingWithNothing(env) == DOMAIN Overrides \cap DOMAIN env

Overriding(env) == {v \in DOMAIN Overrides \cap DOMAIN env : env[v] # <<"text", "">>}
For(env, s, f) == {v \in Overriding(env) : Overrides[v] = <<s, f>>}

\* A section that is neither required nor made is expected to be there.
Overridable(config, env) == \A v \in Overriding(env) : Overrides[v][1] \in DOMAIN config \cup Made

applyEnvOverrides(config, env) ==
    LET fields(s) == (IF s \in DOMAIN config THEN DOMAIN config[s] ELSE {})
                     \cup {Overrides[v][2] : v \in {w \in Overriding(env) : Overrides[w][1] = s}}
        value(s, f) == IF For(env, s, f) = {} THEN config[s][f]
                       ELSE LET v == CHOOSE v \in For(env, s, f) : TRUE IN Taken(v, env[v])
    IN [s \in DOMAIN config \cup {Overrides[v][1] : v \in Overriding(env)} |-> [f \in fields(s) |-> value(s, f)]]

\* loaded: what an earlier call left, if any.  The result is no configuration
\* where load throws.
load(loaded, found, config, env) ==
    IF loaded # {} THEN loaded
    ELSE IF ~found \/ validateConfig(config) # {} \/ ~Overridable(config, env) THEN {}
    ELSE {applyEnvOverrides(expandTildePaths(config), env)}

-----------------------------------------------------------------------------
(* Properties.                                                             *)

\* A configuration that is loaded has all that is required, as the file says it,
\* save what the environment says instead: that alone nobody has looked at.  One
\* that is loaded once stays, whatever becomes of the file.
LoadedIsUsable(config, env, later) ==
    \A loaded \in load({}, TRUE, config, env) :
        /\ \A s \in DOMAIN Required : s \in DOMAIN loaded /\
            \A f \in DOMAIN Required[s] : f \in DOMAIN loaded[s] /\
                \/ Satisfies(Required[s][f], loaded[s][f]) /\ loaded[s][f] = Expanded(config[s][f])
                \/ \E v \in DOMAIN env :
                    Overrides[v] = <<s, f>> /\ env[v] # <<"text", "">> /\ loaded[s][f] = Taken(v, env[v])
        /\ \A s \in DOMAIN loaded : \A f \in DOMAIN loaded[s] :
            loaded[s][f][1] = "tilde" => \E v \in DOMAIN env : Overrides[v] = <<s, f>>
        /\ load({loaded}, FALSE, later, env) = {loaded}

=============================================================================
