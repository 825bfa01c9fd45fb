------------------------------- MODULE Items -------------------------------
(***************************************************************************)
(* An item of a definition on its way to the Control Tower: what the       *)
(* validator of the CLI accepts, what the CLI makes of it, and what the    *)
(* Control Tower lets in.  An item maps its keys to values; of texts, only *)
(* what one of the two sides tells apart is kept.                          *)
(***************************************************************************)
EXTENDS Values

PORT_MAX == 65535
STATUS_MIN == 100
STATUS_MAX == 599

\* The texts that are told apart, besides "" and "word".
Databases == {"postgres", "mysql", "mongodb", "redis"}
Brokers == {"amqp", "kafka"}
Protocols == {"http", "https"}
AbsolutePaths == {"/path"}
Versions == {"16", "7.2-alpine"}
BadRegexes == {"["}
MissingFiles == {"missing"}
BadNames == {"Bad_Name", "-dash", "longer-than-63"}

Types == {"SERVICE", "WORKER", "DATABASE", "BROKER", "MOCK", "HTTP_REQUEST", "DB_QUERY"}

-----------------------------------------------------------------------------
(* validate-items.ts                                                       *)

IsName(v) == IsFullText(v) /\ v[2] \notin BadNames

\* A null counts as no port.
IsPort(v) == v[1] \in {"absent", "null"} \/ IsInteger(v, 1, PORT_MAX)

IsCommand(v) == MayBe(v, LAMBDA w : IsListOf(w, IsText))

IsEnv(v) ==
    MayBe(v, LAMBDA w : IsListOf(w, LAMBDA e : IsText(Field(e, "name")) /\ IsText(Field(e, "value"))))

IsMountFile(v) ==
    /\ IsFullText(Field(v, "source")) /\ ~IsOneOf(Field(v, "source"), MissingFiles)
    /\ IsOneOf(Field(v, "target"), AbsolutePaths)

IsMountFiles(v) == MayBe(v, LAMBDA w : IsListOf(w, IsMountFile))

IsHealthCheck(v) == IsOneOf(v, {"tcp"} \cup AbsolutePaths)
IsVersion(v) == MayBe(v, LAMBDA w : IsOneOf(w, Versions))
IsInitFile(v) == IsFullText(v) /\ ~IsOneOf(v, MissingFiles)

WorkerErrors(item) ==
    Wrong(item, {"command", "entrypoint"}, IsCommand)
    \cup Wrong(item, {"mountFiles"}, IsMountFiles) \cup Wrong(item, {"env"}, IsEnv)

ServiceErrors(item) ==
    WorkerErrors(item) \cup Wrong(item, {"healthCheck"}, IsHealthCheck) \cup Wrong(item, {"port"}, IsPort)

Credentials == {"dbName", "dbUser", "dbPassword"}

\* A mutant of DatabaseErrors: noAuth is not looked at.
DatabaseErrorsAnyAuth(item) ==
    Wrong(item, {"database"}, LAMBDA v : IsOneOf(v, Databases))
    \cup Wrong(item, {"version"}, IsVersion)
    \cup Wrong(item, {"image"}, LAMBDA v : MayBe(v, IsFullText))
    \cup Wrong(item, {"initFilePath"}, LAMBDA v : MayBe(v, IsInitFile))
    \cup Wrong(item, {"initFilePaths"}, LAMBDA v : MayBe(v, LAMBDA w : IsListOf(w, IsInitFile)))

DatabaseErrors(item) ==
    DatabaseErrorsAnyAuth(item)
    \cup {k \in {"image"} : {"image", "version"} \subseteq DOMAIN item}
    \cup {k \in {"noAuth"} :
              \/ Get(item, k)[1] \notin {"absent", "boolean"}
              \/ Get(item, k) = Boolean(TRUE) /\ DOMAIN item \cap Credentials # {}}

BrokerErrors(item) ==
    Wrong(item, {"broker"}, LAMBDA v : IsOneOf(v, Brokers))
    \cup Wrong(item, {"version"}, IsVersion) \cup Wrong(item, {"port"}, IsPort)
    \cup Wrong(item, {"healthCheck"}, LAMBDA v : MayBe(v, IsText))
    \cup Wrong(item, {"command"}, IsCommand) \cup Wrong(item, {"env"}, IsEnv)

MockErrors(item) ==
    Wrong(item, {"mockTarget", "mockPath"}, IsFullText)
    \cup Wrong(item, {"mockMethod"}, LAMBDA v : MayBe(v, LAMBDA w : IsOneOf(w, Methods \cup {"*"})))
    \cup Wrong(item, {"mockResponseStatus"},
               LAMBDA v : MayBe(v, LAMBDA w : IsInteger(w, STATUS_MIN, STATUS_MAX)))
    \cup Wrong(item, {"mockDelayMs"}, LAMBDA v : MayBe(v, LAMBDA w : w[1] = "number" /\ w[2] >= 0))
    \cup Wrong(item, {"mockRequestBodyContains"}, LAMBDA v : MayBe(v, IsFullText))
    \cup Wrong(item, {"mockRequestBodyMatches"},
               LAMBDA v : MayBe(v, LAMBDA w : IsFullText(w) /\ ~IsOneOf(w, BadRegexes)))
    \cup {k \in {"mockRequestBodyContains"} :
              {k, "mockRequestBodyMatches"} \subseteq DOMAIN item}

HttpRequestErrors(item) ==
    Wrong(item, {"requestMethod"}, LAMBDA v : IsOneOf(v, Methods))
    \cup Wrong(item, {"requestUrl", "requestTarget"}, IsFullText)
    \cup Wrong(item, {"requestProtocol"}, LAMBDA v : MayBe(v, LAMBDA w : IsOneOf(w, Protocols)))

DbQueryErrors(item) == Wrong(item, {"queryTarget", "queryText"}, IsFullText)

TypeErrors(item) ==
    CASE item.type[2] = "SERVICE"      -> ServiceErrors(item)
      [] item.type[2] = "WORKER"       -> WorkerErrors(item)
      [] item.type[2] = "DATABASE"     -> DatabaseErrors(item)
      [] item.type[2] = "BROKER"       -> BrokerErrors(item)
      [] item.type[2] = "MOCK"         -> MockErrors(item)
      [] item.type[2] = "HTTP_REQUEST" -> HttpRequestErrors(item)
      [] item.type[2] = "DB_QUERY"     -> DbQueryErrors(item)

\* The keys that make the validator refuse an item.
Errors(item) ==
    IF ~IsOneOf(Get(item, "type"), Types) THEN {"type"}
    ELSE Wrong(item, {"name"}, IsName)
         \cup Wrong(item, {"stage"}, LAMBDA v : MayBe(v, IsNatural))
         \cup TypeErrors(item)

EveryItem == {"type", "name", "description", "$ref"}
Resources == {"minCpu", "minMemory", "maxCpu", "maxMemory"}
Container == {"stage", "image", "env", "localDevPath", "mountPath", "command", "entrypoint", "mountFiles"}

\* VALID_ITEM_KEYS
ItemKeys ==
    [SERVICE |-> EveryItem \cup Resources \cup Container \cup {"port", "healthCheck", "uiPath"},
     WORKER |-> EveryItem \cup Resources \cup Container,
     DATABASE |-> EveryItem \cup Resources \cup Credentials
         \cup {"stage", "database", "image", "version", "initFilePath", "initFilePaths", "initFileIds", "noAuth"},
     BROKER |-> EveryItem \cup Resources
         \cup {"stage", "broker", "version", "image", "port", "healthCheck", "env", "command"},
     MOCK |-> EveryItem
         \cup {"mockMethod", "mockOrigin", "mockTarget", "mockPath", "mockDelayMs", "mockResponseStatus",
               "mockRequestBodyContains", "mockRequestBodyMatches", "mockResponseHeaders", "mockResponseBody"},
     HTTP_REQUEST |-> EveryItem
         \cup {"requestMethod", "requestProtocol", "requestUrl", "requestHeaders", "requestBody", "requestTarget"},
     DB_QUERY |-> EveryItem \cup {"queryTarget", "queryText", "queryParams"}]

\* The keys it only warns of.
Unknown(item) == DOMAIN item \ ItemKeys[item.type[2]]

-----------------------------------------------------------------------------
(* buildSubmitBody: paths of files are replaced by what the resolver read, *)
(* and the list env by an object, of whose entries the last one wins.      *)

EnvObject(entries) ==
    LET names == {Field(entries[i], "name")[2] : i \in DOMAIN entries}
        LastOf(n) == CHOOSE i \in DOMAIN entries :
            /\ Field(entries[i], "name")[2] = n
            /\ \A j \in DOMAIN entries : Field(entries[j], "name")[2] = n => j =< i
    IN [n \in names |-> Field(entries[LastOf(n)], "value")]

\* A mutant of Submitted: env is sent as it is written.
SubmittedAsList(item) ==
    [k \in DOMAIN item \ {"initFilePath", "initFilePaths", "mountFiles"} |-> item[k]]

Submitted(item) ==
    [k \in DOMAIN item \ {"initFilePath", "initFilePaths", "mountFiles"} |->
        IF k = "env" /\ item[k][1] = "list" THEN Object(EnvObject(item[k][2])) ELSE item[k]]

-----------------------------------------------------------------------------
(* DefinitionItemDto: keys it does not list are refused; of the others all *)
(* but name and type may be left out or null.                              *)

DtoTexts == {"description", "image", "healthCheck", "uiPath", "domain", "localDevPath", "mountPath", "broker",
             "database", "version", "mockMethod", "mockOrigin", "mockTarget", "mockPath",
             "mockRequestBodyContains", "mockRequestBodyMatches"} \cup Credentials
DtoNumbers == {"stage", "port", "mockDelayMs", "mockResponseStatus"} \cup Resources
DtoObjects == {"env", "mockResponseHeaders"}
DtoLists == {"command", "entrypoint"}

Admits(key, v) ==
    CASE key \in {"name", "type"}     -> IsText(v)
      [] v[1] = "null"                -> key \in DtoTexts \cup DtoNumbers \cup DtoObjects \cup DtoLists
                                                 \cup {"noAuth", "mockResponseBody"}
      [] key \in DtoTexts             -> IsText(v)
      [] key \in DtoNumbers           -> v[1] = "number"
      [] key \in DtoObjects           -> v[1] = "object"
      [] key \in DtoLists             -> IsListOf(v, IsText)
      [] key = "noAuth"               -> v[1] = "boolean"
      [] OTHER                        -> key = "mockResponseBody"

Refused(sent) == {k \in DOMAIN sent : ~Admits(k, sent[k])}

-----------------------------------------------------------------------------
(* Properties.                                                             *)

\* The keys the validator lists and never looks into.
Unchecked ==
    [SERVICE |-> Resources \cup {"description", "image", "uiPath", "localDevPath", "mountPath"},
     WORKER |-> Resources \cup {"description", "image", "localDevPath", "mountPath"},
     DATABASE |-> Resources \cup Credentials \cup {"description", "initFileIds"},
     BROKER |-> Resources \cup {"description", "image"},
     MOCK |-> {"description", "mockOrigin", "mockResponseHeaders"}]

\* What the validator of the CLI accepts and does not warn of, the Control Tower
\* lets in, unless the value of a key the validator does not look into is of
\* another type than the Control Tower wants; requests and queries, which are
\* there to be referred to, it never lets in.
AcceptedIsAdmitted(item) ==
    Errors(item) = {} /\ Unknown(item) = {} =>
        IF item.type[2] \in DOMAIN Unchecked
        THEN Refused(Submitted(item)) \subseteq Unchecked[item.type[2]]
        ELSE Refused(Submitted(item)) # {}

\* A database that needs no password is accepted without any, and the variables
\* of a container are those that were written, the last of each name.
SentAsWritten(item) ==
    Errors(item) = {} =>
        /\ Get(item, "noAuth") = Boolean(TRUE) => DOMAIN Submitted(item) \cap Credentials = {}
        /\ Get(item, "env")[1] = "list" =>
            LET env == item.env[2] IN
            \A i \in DOMAIN env :
                \/ Submitted(item).env[2][Field(env[i], "name")[2]] = Field(env[i], "value")
                \/ \E j \in DOMAIN env : j > i /\ Field(env[j], "name") = Field(env[i], "name")

=============================================================================
