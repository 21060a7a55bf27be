----------------------------- MODULE Deployment -----------------------------
(***************************************************************************)
(* The deployment generator (core/deploy) and what becomes of its output.  *)
(* A script declares services with their endpoints, puts them and the      *)
(* databases into a Deployment and generates it; docker compose then       *)
(* starts a container for Mongo and one per service, and each of these     *)
(* runs its generated server once.                                         *)
(*                                                                         *)
(* The other world a behaviour may begin in has a program that embeds the  *)
(* server: it calls init and cleanServer itself.                           *)
(***************************************************************************)
EXTENDS Server

CONSTANTS
    Names,           \* names of services: also those of their containers
    Ports,           \* their ports
    Declarations,    \* bound: the names and ports the i-th service may get
    Databases,       \* Database objects: type, server, db ("none": not given)
    Endpoints,       \* endpoints without storage: kind, path, collection, found, resolves
    EmbeddedConfigs, \* what an embedding program calls init with; policy: can be loaded
    Program,         \* that program
    Addable,         \* bound: those of the databases that may be added
    MaxCalls,        \* bound: endpoints declared
    MaxOverrides     \* bound: settings of services that differ from the default

ASSUME DeploymentConstants ==
    /\ Program \notin Names /\ Processes = Names \cup {Program}
    /\ Declarations \in Seq(SUBSET (Names \X Ports))
    /\ {"mongodb", "localhost"} \subseteq DatabaseServers \ Files
    /\ Addable \subseteq Databases
    /\ {MaxCalls, MaxOverrides} \subseteq Nat
    /\ \A e \in Endpoints : e.kind \in {"graph", "rest"} /\ e.path \in Seq(STRING)
    /\ \A c \in EmbeddedConfigs :
          /\ c.graphlettes \in Seq(ToSet(c.graphlettes))
          /\ c.restlettes \in Seq(ToSet(c.restlettes))
          /\ c.plugins \in Seq(STRING)
          /\ \A e \in ToSet(c.graphlettes) : e.kind = "graph" /\ e.path \in Seq(STRING)

VARIABLES
    script,   \* how far the script and its output are
    services, \* the Service objects, in the order they were declared
    given,    \* those given to the Deployment
    added     \* the databases added to it

deployment == <<script, services, given, added>>
vars == <<deployment, server>>

Declared == 1 .. Len(services)

TypeOK ==
    /\ ServerTypeOK
    /\ script \in {"services", "deployment", "refused", "generated", "invalid", "running",
                   "embedded"}
    /\ Len(services) <= Len(Declarations)
    /\ \A i \in Declared :
          /\ services[i].name \in Names /\ services[i].port \in Ports
          /\ services[i].listens \in Ports
    /\ given \subseteq Declared
    /\ added \subseteq Databases

Nothing == [p \in Processes |-> NoConfig]

Init ==
    /\ services = <<>> /\ given = {} /\ added = {}
    /\ \/ script = "services" /\ ServerInit(Nothing, {"mongodb", "localhost"})
       \/ /\ script = "embedded"
          /\ \E c \in EmbeddedConfigs : ServerInit([Nothing EXCEPT ![Program] = c], {})

-----------------------------------------------------------------------------
(* The script *)

\* How many endpoints the services have, and how many settings of their own.
Calls == FoldSeq(LAMBDA s, n : n + Len(s.graphlettes) + Len(s.restlettes), 0, services)
Overrides ==
    FoldSeq(LAMBDA s, n : n + (IF s.listens = s.port THEN 0 ELSE 1)
                            + (IF s.prefix = s.name THEN 0 ELSE 1), 0, services)

\* new Service: the environment names its own port, and prefixes databases.
NewService(name, port) ==
    /\ script = "services" /\ Len(services) < Len(Declarations) /\ Calls + Overrides = 0
    /\ <<name, port>> \in Declarations[Len(services) + 1]
    /\ services' = Append(services, [name |-> name, port |-> port, listens |-> port,
                                     prefix |-> name, graphlettes |-> <<>>,
                                     restlettes |-> <<>>])
    /\ UNCHANGED <<script, given, added, server>>

\* withResolver: the target's name and port go into the url.
Url(target) == [host |-> services[target].name, port |-> services[target].port]

\* graphql and rest: an endpoint on a collection of a database.
AddEndpoint(i, e, d, targets) ==
    /\ script = "services" /\ Calls < MaxCalls
    /\ targets # {} => e.resolves
    /\ LET x == [endpoint |-> e, database |-> d, resolvers |-> {Url(t) : t \in targets}]
       IN  services' = IF e.kind = "graph"
                       THEN [services EXCEPT ![i].graphlettes = Append(@, x)]
                       ELSE [services EXCEPT ![i].restlettes = Append(@, x)]
    /\ UNCHANGED <<script, given, added, server>>

\* withEnv of PORT, and of PREFIX, which stands for PREFIX and ENV.
WithEnv(i) ==
    /\ script = "services" /\ Overrides < MaxOverrides
    /\ \/ \E port \in Ports : services' = [services EXCEPT ![i].listens = port]
       \/ \E name \in Names : services' = [services EXCEPT ![i].prefix = name]
    /\ UNCHANGED <<script, given, added, server>>

NewDeployment(objects) ==
    /\ script = "services"
    /\ script' = "deployment"
    /\ given' = objects
    /\ UNCHANGED <<services, added, server>>

WithDatabase(d) ==
    /\ script = "deployment"
    /\ added' = added \cup {d}
    /\ UNCHANGED <<script, services, given, server>>

-----------------------------------------------------------------------------
(* generate *)

\* The Deployment keeps its services in a Map: the last of a name stays.
Deployed ==
    {i \in given : \A j \in given : j > i => services[j].name # services[i].name}

Containers == {services[i].name : i \in Deployed}

\* The service whose server container p runs.
ServiceOf(p) == CHOOSE i \in Deployed : services[i].name = p

Resolvers(i) == UNION {x.resolvers : x \in ToSet(services[i].graphlettes)}

PortConflict == \E i, j \in Deployed : i # j /\ services[i].port = services[j].port

\* A plausible bug of Known: the target must only have been declared.
KnownWhenDeclared(url) == \E i \in Declared : services[i].name = url.host

\* The host of the url is a service of the deployment.
Known(url) == url.host \in Containers

\* validate finds nothing.
Accepted == ~PortConflict /\ \A i \in Deployed : \A url \in Resolvers(i) : Known(url)

HasMongo == \E d \in added : d.type = "mongo"

\* forCollection.
StorageOf(x) ==
    [type |-> x.database.type, server |-> x.database.server, db |-> x.database.db,
     collection |-> x.endpoint.collection]

\* What the emitted expressions are worth in the container of service i:
\* MONGO_URI, set when a Mongo database was added, replaces every uri, and
\* PREFIX_ENV every database that is named.  The plugins of MySQL and Postgres
\* look for a host and a table, which nobody emits: they take the container.
Uri(s) == IF Pooled(s) THEN "localhost" ELSE IF HasMongo THEN "mongodb" ELSE s.server
Db(i, s) == IF s.db = "none" THEN "none" ELSE services[i].prefix
Table(s) == IF Pooled(s) THEN "undefined" ELSE s.collection

\* The storage the entrypoint names for a graphlette.
EmittedForGraph(i, x) ==
    LET s == StorageOf(x)
    IN  [type |-> s.type, server |-> Uri(s), db |-> Db(i, s), collection |-> Table(s)]

\* A plausible bug of EmittedForRest: this copy of the code forgets the database.
EmittedWithoutDb(i, x) ==
    LET s == StorageOf(x)
    IN  [type |-> s.type, server |-> Uri(s), db |-> "none", collection |-> Table(s)]

\* For a restlette: a second copy of the code writes it.
EmittedForRest(i, x) ==
    LET s == StorageOf(x)
    IN  [type |-> s.type, server |-> Uri(s), db |-> Db(i, s), collection |-> Table(s)]

Endpoint(i, x) ==
    [kind |-> x.endpoint.kind, path |-> x.endpoint.path, found |-> x.endpoint.found,
     source |-> [database |-> x.database, collection |-> x.endpoint.collection],
     storage |-> IF x.endpoint.kind = "graph" THEN EmittedForGraph(i, x)
                 ELSE EmittedForRest(i, x)]

Written(i, xs) == [k \in 1 .. Len(xs) |-> Endpoint(i, xs[k])]

\* A plugin for each type of storage of the service.
PluginsOf(i) ==
    SetToSeq({x.database.type : x \in ToSet(services[i].graphlettes)}
             \cup {x.database.type : x \in ToSet(services[i].restlettes)})

\* generateServiceEntrypoint.  It names no policy.
Entrypoint(i) ==
    [graphlettes |-> Written(i, services[i].graphlettes),
     restlettes |-> Written(i, services[i].restlettes),
     plugins |-> PluginsOf(i), policy |-> TRUE]

Refuse ==
    /\ script = "deployment" /\ ~Accepted
    /\ script' = "refused"
    /\ UNCHANGED <<services, given, added, server>>

\* The files are written: docker-compose.yml, and a server per service.
Generate ==
    /\ script = "deployment" /\ Accepted
    /\ script' = "generated"
    /\ config' = [p \in Processes |->
          IF p \in Containers THEN Entrypoint(ServiceOf(p)) ELSE NoConfig]
    /\ UNCHANGED <<services, given, added, phase, mounted, cache, handles, probe, inits, cleans,
                   up, outages>>

-----------------------------------------------------------------------------
(* docker compose (external) *)

\* A plausible bug of Dependencies: a service waits for nothing.
NoDependencies(p) == {}

\* The depends_on of every service, healthy ones.
Dependencies(p) == {"mongodb"}

\* There is a container for Mongo only if a Mongo database was added.
ContainersWritten == Containers \cup (IF HasMongo THEN {"mongodb"} ELSE {})

\* A file whose services depend on one that it does not define is invalid.
Up ==
    /\ script = "generated"
    /\ script' = IF \A p \in Containers : Dependencies(p) \subseteq ContainersWritten
                 THEN "running" ELSE "invalid"
    /\ UNCHANGED <<services, given, added, server>>

\* Mongo answers its first health check.
MongoStarts ==
    /\ script = "running" /\ HasMongo /\ outages = 0
    /\ ComeBack("mongodb")
    /\ UNCHANGED deployment

\* The container of a service starts, once, and runs its server.
Starts(p) ==
    /\ script = "running" /\ p \in Containers /\ inits[p] = 0
    /\ Dependencies(p) \subseteq up
    /\ CallInit(p)
    /\ UNCHANGED deployment

-----------------------------------------------------------------------------
\* What a server that was started does by itself.
Runs(p) ==
    /\ Mount(p) \/ Reject(p, script = "running") \/ Listen(p) \/ AskNext(p)
    /\ UNCHANGED deployment

\* A client, or a health check, asks whether a server is ready.
Asked(p) == CheckReady(p) /\ UNCHANGED deployment

\* The embedding program, and the database servers.
Embeds ==
    /\ script = "embedded"
    /\ CallInit(Program) \/ CleanServer(Program)
    /\ UNCHANGED deployment

Fails ==
    /\ \/ script = "embedded" /\ \E d \in DatabaseServers : GoDown(d) \/ ComeBack(d)
       \/ script = "running" /\ GoDown("mongodb")
    /\ UNCHANGED deployment

Next ==
    \/ \E name \in Names, port \in Ports : NewService(name, port)
    \/ \E i \in Declared, e \in Endpoints, d \in Databases :
          \E targets \in {{}} \cup {{t} : t \in Declared \ {i}} : AddEndpoint(i, e, d, targets)
    \/ \E i \in Declared : WithEnv(i)
    \/ \E objects \in SUBSET Declared : NewDeployment(objects)
    \/ \E d \in Addable : WithDatabase(d)
    \/ Refuse \/ Generate \/ Up \/ MongoStarts
    \/ \E p \in Processes : Starts(p) \/ Runs(p) \/ Asked(p)
    \/ Embeds \/ Fails

\* Docker starts what can start, and a server goes on with what it does.  That
\* anybody asks whether it is ready is not assumed: the health check of a
\* container calls curl, which its image lacks, on the port of the service,
\* which PORT may override.
Fairness ==
    /\ WF_vars(MongoStarts)
    /\ \A p \in Processes : WF_vars(Starts(p)) /\ WF_vars(Runs(p))

Spec == Init /\ [][Next]_vars /\ Fairness

-----------------------------------------------------------------------------
(* Properties *)

\* Every url a resolver was given in an accepted deployment is the name of a
\* container that will listen on that port (validate, withResolver), as long as
\* no two services have one name and PORT is not overridden.
ResolversReachAService ==
    /\ script \in {"generated", "running"}
    /\ \A i \in Declared : services[i].listens = services[i].port
    /\ \A i, j \in Declared : services[i].name = services[j].name => i = j
    => \A i \in given : \A url \in Resolvers(i) :
          \E j \in given : services[j].name = url.host /\ services[j].listens = url.port

\* The endpoint is declared on a named database of Mongo.
OnMongo(e) == e.source.database.type = "mongo" /\ e.source.database.db # "none"

\* What one endpoint stores the other finds.
Share(p, e, q, f) ==
    Reached(p, e.storage) = Reached(q, f.storage) /\ e.storage.collection = f.storage.collection

\* Mongo endpoints of a running deployment, of any kind and of any services, share
\* their documents exactly if their services have one PREFIX and their collections
\* one name (both copies of configToTypeScript).  So a graphlette finds what the
\* restlette declared beside it stores; but two databases of one service become
\* one, and two services declared on one database have one each.
MongoSharedByPrefixAndName ==
    script = "running" /\ HasMongo =>
        \A p, q \in Containers : \A i \in 1 .. Len(mounted[p]), j \in 1 .. Len(mounted[q]) :
            LET e == mounted[p][i]
                f == mounted[q][j]
            IN  /\ phase[p] # "dead" /\ phase[q] # "dead"
                /\ OnMongo(e) /\ OnMongo(f)
                => (Share(p, e, q, f) <=>
                      /\ services[ServiceOf(p)].prefix = services[ServiceOf(q)].prefix
                      /\ e.source.collection = f.source.collection)

\* All storage is Mongo's, the graphlettes' schemas are there, and no
\* graphlette lies under one that is mounted before it.
Sound ==
    \A p \in Containers :
        LET graphs == config[p].graphlettes
        IN  /\ \A i \in 1 .. Len(Order(p)) : Order(p)[i].storage.type = "mongo"
            /\ \A i \in 1 .. Len(graphs) : graphs[i].found
            /\ \A i, j \in 1 .. Len(graphs) : i < j => ~IsStrictPrefix(graphs[i].path, graphs[j].path)

\* The server listens, and said "ready" if it was asked.
Serves(p) ==
    phase[p] = "up" /\ (probe[p] = NoProbe \/ (Checked(p) /\ probe[p].status = "ok"))

\* A sound deployment comes up: every container ends up listening, and whenever it
\* is asked whether it is ready it comes to say so, unless Mongo goes down
\* meanwhile.  A server that fails to start is not started again, so this rests
\* on the order of the starts (generateDockerCompose); the answer rests on the
\* server reaching itself and on no graphlette hiding another
\* (checkAllServicesReady).
SoundDeploymentsComeUp ==
    \A p \in Names :
        (script = "running" /\ Sound /\ p \in Containers) ~> (Serves(p) \/ outages > 0)

=============================================================================
