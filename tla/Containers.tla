----------------------------- MODULE Containers -----------------------------
(***************************************************************************)
(* What the Control Tower makes of the items of a definition: the stages,  *)
(* the containers of each, how they reach each other, with what names,     *)
(* ports, credentials and files.  An item is                               *)
(*   name        a sequence of words, joined by "-" in the container's name *)
(*   type, kind  the type of the item, and that of the database or broker  *)
(*   stage, image, port     0, FALSE and 0 if not given; the image of a    *)
(*                          database or broker has a default               *)
(*   creds       [dbName, dbUser, dbPassword, noAuth]; "none" is not given *)
(*   inits       how many init files the resolver has read                 *)
(*   mounts      the mount files, as <<directory, base name, target>>      *)
(***************************************************************************)
EXTENDS Integers, Sequences, FiniteSets, FiniteSetsExt, SequencesExt, Functions, TLC

\* The kinds of containers that report whether their item is ready.
Reporting == {"db-proxy", "broker-proxy", "service-interceptor", "chromium-interceptor"}

Container(name, item, role) == [name |-> name, item |-> item, role |-> role]
Chromium == <<"chromium">>

-----------------------------------------------------------------------------
(* Stages: docker-deploy-config.service.ts announces to the test agent     *)
(* which items to wait for, docker-deployer.service.ts deploys.            *)

groupItemsByStage(items) ==
    LET deployed == SelectSeq(items, LAMBDA i : i.type # "MOCK")
        stages == SetToSortSeq({deployed[k].stage : k \in DOMAIN deployed}, <)
    IN [s \in DOMAIN stages |-> SelectSeq(deployed, LAMBDA i : i.stage = stages[s])]

\* A mutant of expectedItemStages: workers are waited for as well.
expectedWithWorkers(items, ui) ==
    LET stages == groupItemsByStage(items)
    IN [s \in 1..Len(stages) |-> {stages[s][k].name : k \in DOMAIN stages[s]}
            \cup (IF ui /\ s = Len(stages) THEN {Chromium} ELSE {})]

\* The items whose reports end a stage; the browser belongs to the last stage,
\* for which there is one if there would be none.
expectedItemStages(items, ui) ==
    LET stages == groupItemsByStage(items)
        last == IF ui THEN Max({1, Len(stages)}) ELSE Len(stages)
        Waited(s) == IF s > Len(stages) THEN {}
                     ELSE {stages[s][k].name : k \in {j \in DOMAIN stages[s] : stages[s][j].type # "WORKER"}}
    IN [s \in 1..last |-> Waited(s) \cup (IF ui /\ s = last THEN {Chromium} ELSE {})]

createDatabaseGroup(i) ==
    {Container(Append(i.name, "dbproxy"), i.name, "db-proxy"),
     Container(Append(i.name, "db"), i.name, "database")}

createBrokerGroup(i) ==
    {Container(Append(i.name, "brokerproxy"), i.name, "broker-proxy"),
     Container(Append(i.name, "broker"), i.name, "broker")}

\* Without an image there is nothing to start.
createServiceGroup(i) ==
    IF ~i.image THEN {}
    ELSE {Container(Append(i.name, "interceptor"), i.name, "service-interceptor"),
          Container(i.name, i.name, "service"),
          Container(Append(i.name, "dnsmasq"), i.name, "dnsmasq")}

createChromiumGroup ==
    {Container(<<"chromium", "interceptor">>, Chromium, "chromium-interceptor"),
     Container(Chromium, Chromium, "chromium"),
     Container(<<"chromium", "dnsmasq">>, Chromium, "chromium-dnsmasq")}

createGroup(i) ==
    CASE i.type = "DATABASE" -> createDatabaseGroup(i)
      [] i.type = "BROKER"   -> createBrokerGroup(i)
      [] OTHER               -> createServiceGroup(i)

\* The browser is deployed with the final stage.
attachesChromium(items, ui, s) == ui /\ s = Len(groupItemsByStage(items))

deployStageItems(items, ui, s) ==
    LET stages == groupItemsByStage(items)
        stage == IF s \in DOMAIN stages THEN stages[s] ELSE <<>>
    IN UNION {createGroup(stage[k]) : k \in DOMAIN stage}
       \cup (IF attachesChromium(items, ui, s) THEN createChromiumGroup ELSE {})

\* What runs before the first stage.
Global ==
    {Container(<<"interceptor">>, <<>>, "interceptor"), Container(<<"test", "agent">>, <<>>, "test-agent")}

\* deploy starts stage 0 even if there is none.
AllContainers(items, ui) ==
    Global \cup UNION {deployStageItems(items, ui, s) : s \in 1..Max({1, Len(groupItemsByStage(items))})}

-----------------------------------------------------------------------------
(* Ports and credentials: the proxy and what it is in front of share one   *)
(* network, and clients know the name of the item and its usual port.      *)

Default(v) == IF v = "none" THEN "dokkimi" ELSE v

resolveDbCredentials(creds) ==
    [k \in {"dbName", "dbUser", "dbPassword"} |-> IF creds.noAuth THEN "" ELSE Default(creds[k])]

NativePort == [postgres |-> 5432, mysql |-> 3306, mongodb |-> 27017, redis |-> 6379,
               amqp |-> 5672, kafka |-> 9092]
InternalPort == [postgres |-> 55432, mysql |-> 33306, mongodb |-> 27018, redis |-> 63790,
                 amqp |-> 35672, kafka |-> 39092]

\* The port on which a Kafka broker talks to itself.
ControllerPort == 9093

Optional(b, f) == IF b THEN f ELSE <<>>

\* getConfig of DatabaseConfigService and setDbInternalPortEnv.
databaseEnv(i) ==
    LET c == resolveDbCredentials(i.creds)
        pass == c.dbPassword # ""
    IN CASE i.kind = "postgres" ->
              "POSTGRES_DB" :> c.dbName @@ "POSTGRES_USER" :> c.dbUser
              @@ "POSTGRES_PASSWORD" :> c.dbPassword @@ "PGPORT" :> InternalPort.postgres
              @@ Optional(i.creds.noAuth, "POSTGRES_HOST_AUTH_METHOD" :> "trust")
         [] i.kind = "mysql" ->
              "MYSQL_DATABASE" :> c.dbName @@ "MYSQL_USER" :> c.dbUser @@ "MYSQL_PASSWORD" :> c.dbPassword
              @@ "MYSQL_ROOT_PASSWORD" :> c.dbPassword @@ "MYSQL_TCP_PORT" :> InternalPort.mysql
              @@ Optional(i.creds.noAuth, "MYSQL_ALLOW_EMPTY_PASSWORD" :> "yes")
         [] i.kind = "mongodb" ->
              "MONGO_INITDB_DATABASE" :> c.dbName
              @@ Optional(pass /\ c.dbUser # "",
                     "MONGO_INITDB_ROOT_USERNAME" :> c.dbUser @@ "MONGO_INITDB_ROOT_PASSWORD" :> c.dbPassword)
         [] i.kind = "redis" -> Optional(pass, "REDIS_PASSWORD" :> c.dbPassword)

\* The arguments of the server: getDbCommand and buildMongoEntrypoint.
databaseArgs(i) ==
    LET env == databaseEnv(i) IN
    CASE i.kind = "redis" ->
           "--port" :> InternalPort.redis
           @@ Optional("REDIS_PASSWORD" \in DOMAIN env, "--requirepass" :> resolveDbCredentials(i.creds).dbPassword)
      [] i.kind = "mongodb" ->
           "--port" :> InternalPort.mongodb @@ Optional("MONGO_INITDB_ROOT_USERNAME" \in DOMAIN env, "--auth" :> "")
      [] OTHER -> <<>>

\* A mutant of dbProxyEnv: the proxy listens where buildDbProxyEnvVars says.
dbProxyEnvBuilt(i) ==
    resolveDbCredentials(i.creds)
    @@ [QUERY_PORT |-> [postgres |-> 15432, mysql |-> 13306, redis |-> 16379, mongodb |-> 17017][i.kind],
        DATABASE_PORT |-> InternalPort[i.kind]]

\* buildDbProxyEnvVars, and the QUERY_PORT that createDatabaseGroup puts over it.
dbProxyEnv(i) ==
    resolveDbCredentials(i.creds) @@ [QUERY_PORT |-> NativePort[i.kind], DATABASE_PORT |-> InternalPort[i.kind]]

\* An entry of databaseMap, for the test agent.
databaseInfo(i) == resolveDbCredentials(i.creds) @@ [port |-> NativePort[i.kind]]

BrokerPort(i) == IF i.port = 0 THEN InternalPort[i.kind] ELSE i.port

brokerProxyEnv(i) == [PROXY_PORT |-> NativePort[i.kind], BROKER_PORT |-> BrokerPort(i)]

brokerEnv(i) ==
    IF i.kind = "amqp" THEN [RABBITMQ_NODE_PORT |-> BrokerPort(i)]
    ELSE [KAFKA_LISTENERS |-> {BrokerPort(i), ControllerPort},
          KAFKA_ADVERTISED_LISTENERS |-> <<i.name, NativePort.kafka>>]

-----------------------------------------------------------------------------
(* Files: writeInitFiles and writeMountFiles of RunStorageService.  A name *)
(* is a sequence of digits and, as 10, what comes after them.              *)

\* String(n).padStart(2, '0')
Padded(n) == IF n < 100 THEN <<n \div 10, n % 10>> ELSE <<n \div 100, (n \div 10) % 10, n % 10>>

\* A mutant of InitName: the number is not padded.
InitNameBare(n) == (IF n < 10 THEN <<n>> ELSE Padded(n)) \o <<10>>

InitName(n) == Padded(n) \o <<10>>

\* The files of an item in the order in which they were given; that of MongoDB
\* ends with one that tells the proxy that the others have run.
InitFiles(i) ==
    LET count == i.inits + (IF i.kind = "mongodb" THEN 1 ELSE 0)
    IN IF i.type # "DATABASE" THEN <<>> ELSE [n \in 1..count |-> InitName(n - 1)]

\* Redis has no directory for them.
Mounted(i) == IF i.kind = "redis" \/ (i.inits = 0 /\ i.kind # "mongodb") THEN <<>> ELSE InitFiles(i)

\* Each file is written to its base name in the directory of the item, so that
\* a later one replaces an earlier one.
MountDir(i) ==
    FoldLeft(LAMBDA dir, m : (m[2] :> m) @@ dir, <<>>, i.mounts)

MountedAt(i, target) ==
    {MountDir(i)[m[2]] : m \in {x \in ToSet(i.mounts) : x[3] = target}}

-----------------------------------------------------------------------------
(* Properties.                                                             *)

\* The agent waits in each stage just for what the Control Tower deploys in it
\* and what reports: the two lists are computed apart, by files that ask to be
\* kept in sync (docker-deploy-config.service.ts:94).  The exceptions are items
\* nobody starts: a service without an image, of which the validator warns, and
\* the browser of a definition that has no item to deploy.  An item that is
\* called as the browser is would be taken for it.
WaitsForWhatIsDeployed(items, ui) ==
    LET expected == expectedItemStages(items, ui)
        stages == groupItemsByStage(items)
        NoImage == {i.name : i \in {j \in ToSet(items) : j.type = "SERVICE" /\ ~j.image}}
        Workers == {i.name : i \in {j \in ToSet(items) : j.type = "WORKER"}}
    IN Chromium \notin {i.name : i \in ToSet(items)} => \A s \in DOMAIN expected :
        LET reporters == {c \in deployStageItems(items, ui, s) : c.role \in Reporting} IN
        expected[s] \ (NoImage \cup (IF stages = <<>> THEN {Chromium} ELSE {}))
            = {c.item : c \in reporters} \ Workers

\* No two containers of an instance have the same name, unless a service or a
\* worker has the name of another item with the name of a role after it, or that
\* of a container every instance has, or an item is called as the browser is.
NamesDiffer(items, ui) ==
    LET all == AllContainers(items, ui)
        Clash(c, d) == c # d /\ c.name = d.name
    IN Chromium \notin {i.name : i \in ToSet(items)} =>
       \A c, d \in all : Clash(c, d) => c.role = "service" \/ d.role = "service"

\* Where clients look for a database its proxy listens, and forwards to where
\* the database listens, which is another port of the same network.
DatabaseIsReached(i) ==
    LET env == databaseEnv(i)
        listens == CASE i.kind = "postgres" -> env["PGPORT"]
                     [] i.kind = "mysql"    -> env["MYSQL_TCP_PORT"]
                     [] OTHER               -> databaseArgs(i)["--port"]
        proxy == dbProxyEnv(i)
    IN /\ databaseInfo(i).port = proxy.QUERY_PORT /\ proxy.QUERY_PORT = NativePort[i.kind]
       /\ proxy.DATABASE_PORT = listens /\ listens # proxy.QUERY_PORT

\* The proxy and the agent say that they are the same user, whom the database lets
\* in; and it asks nobody, and they have nothing to say, when the definition says
\* noAuth.
DatabaseLetsIn(i) ==
    LET env == databaseEnv(i)
        args == databaseArgs(i)
        says == databaseInfo(i)
        Known(user, pass) == env[user] = says.dbUser /\ env[pass] = says.dbPassword
        asks == CASE i.kind = "postgres" -> "POSTGRES_HOST_AUTH_METHOD" \notin DOMAIN env
                  [] i.kind = "mysql"    -> "MYSQL_ALLOW_EMPTY_PASSWORD" \notin DOMAIN env
                  [] i.kind = "mongodb"  -> "--auth" \in DOMAIN args
                  [] i.kind = "redis"    -> "--requirepass" \in DOMAIN args
    IN /\ \A k \in {"dbName", "dbUser", "dbPassword"} : dbProxyEnv(i)[k] = says[k]
       /\ i.creds.noAuth => ~asks /\ says.dbUser = "" /\ says.dbPassword = ""
       /\ asks => CASE i.kind = "postgres" -> Known("POSTGRES_USER", "POSTGRES_PASSWORD")
                    [] i.kind = "mysql"    -> Known("MYSQL_USER", "MYSQL_PASSWORD")
                    [] i.kind = "mongodb"  -> Known("MONGO_INITDB_ROOT_USERNAME", "MONGO_INITDB_ROOT_PASSWORD")
                    [] i.kind = "redis"    -> args["--requirepass"] = says.dbPassword

\* A broker is reached through its proxy, and what a Kafka broker tells clients
\* to use is the proxy; a port of the definition must be none that is taken.
BrokerIsReached(i) ==
    LET proxy == brokerProxyEnv(i)
        env == brokerEnv(i)
        listens == IF i.kind = "amqp" THEN {env.RABBITMQ_NODE_PORT} ELSE env.KAFKA_LISTENERS
    IN /\ proxy.BROKER_PORT \in listens
       /\ i.kind = "kafka" => env.KAFKA_ADVERTISED_LISTENERS = <<i.name, proxy.PROXY_PORT>>
       /\ i.port # NativePort[i.kind] => proxy.PROXY_PORT \notin listens

Earlier(a, b) ==
    \E k \in DOMAIN a \cap DOMAIN b : a[k] < b[k] /\ \A j \in 1..(k - 1) : a[j] = b[j]

\* A database runs its init files by name, and so in the order in which they
\* were given, that of MongoDB with its mark at the end; up to a hundred of them.
InitFilesInOrder(i) ==
    LET files == Mounted(i) IN
    Len(files) =< 100 => \A m, n \in DOMAIN files : m < n => Earlier(files[m], files[n])

\* What a container finds where a file was to be mounted is that file, if no
\* other of its files has the same base name.
MountsShow(i) ==
    \A m \in ToSet(i.mounts) :
        (\A x \in ToSet(i.mounts) : x[2] = m[2] => x[1] = m[1]) =>
            \E x \in MountedAt(i, m[3]) : x[1] = m[1] /\ x[2] = m[2]

ItemServes(i) ==
    /\ i.type = "DATABASE" => DatabaseIsReached(i) /\ DatabaseLetsIn(i) /\ InitFilesInOrder(i)
    /\ i.type = "BROKER" => BrokerIsReached(i)
    /\ i.type \in {"SERVICE", "WORKER"} => MountsShow(i)

=============================================================================
