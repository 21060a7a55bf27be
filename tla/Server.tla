------------------------------- MODULE Server -------------------------------
(***************************************************************************)
(* Processes that run a server (core/server): init sets up one endpoint    *)
(* after the other with the storage plugins, the server listens, and       *)
(* answers readiness checks by asking its own graphlettes over HTTP.       *)
(*                                                                         *)
(* A path is the sequence of its segments.  A storage names a database     *)
(* server (or a file), a database on it and a collection or table; user    *)
(* and password belong to the server.  A plugin keeps its connections in a *)
(* cache under a key and never takes one out of it; SQLite's opens a       *)
(* handle for each endpoint and keeps none.                                *)
(***************************************************************************)
EXTENDS Integers, Sequences, FiniteSets, SequencesExt

CONSTANTS
    Processes,       \* what may run a server
    DatabaseServers, \* the servers and files a storage may name
    Files,           \* those of them that are files SQLite can open
    MaxOutages,      \* bound: how often a database server goes down
    MaxInits         \* bound: how often a process calls init

ASSUME ServerConstants ==
    /\ Files \subseteq DatabaseServers
    /\ {MaxOutages, MaxInits} \subseteq Nat

VARIABLES
    config,  \* config[p]: the endpoints and the plugins init is called with
    phase,   \* phase[p]: what p is doing
    mounted, \* mounted[p]: the endpoints set up so far, in this order
    cache,   \* cache[p]: the connections in the plugins' caches, by key
    handles, \* handles[p]: SQLite's open handles: <<the init, its endpoint>>
    probe,   \* probe[p]: the readiness check under way, or the last one
    inits,   \* inits[p]: how often p called init
    cleans,  \* cleans[p]: how often p called cleanServer
    up,      \* the database servers that answer
    outages  \* how often one went down (history)

server == <<config, phase, mounted, cache, handles, probe, inits, cleans, up, outages>>

NoConfig == [graphlettes |-> <<>>, restlettes |-> <<>>, plugins |-> <<>>, policy |-> TRUE]
NoProbe == [asked |-> 0, status |-> "none", heard |-> {}]

ServerTypeOK ==
    /\ DOMAIN config = Processes
    /\ phase \in [Processes -> {"off", "init", "up", "failed", "clean", "dead"}]
    /\ \A p \in Processes :
          /\ IsPrefix(mounted[p], config[p].graphlettes \o config[p].restlettes)
          /\ phase[p] = "up" => mounted[p] = config[p].graphlettes \o config[p].restlettes
          /\ probe[p].asked \in 0 .. Len(config[p].graphlettes)
          /\ probe[p].status \in {"none", "ok", "error"}
          /\ inits[p] \in 0 .. MaxInits /\ cleans[p] \in 0 .. inits[p]
          /\ handles[p] \subseteq (1 .. inits[p]) \X (1 .. Len(config[p].graphlettes \o config[p].restlettes))
    /\ up \subseteq DatabaseServers
    /\ outages \in 0 .. MaxOutages

\* No process runs yet, and all database servers but those in down answer.
ServerInit(configs, down) ==
    /\ config = configs
    /\ phase = [p \in Processes |-> "off"]
    /\ mounted = [p \in Processes |-> <<>>]
    /\ cache = [p \in Processes |-> <<>>]
    /\ handles = [p \in Processes |-> {}]
    /\ probe = [p \in Processes |-> NoProbe]
    /\ inits = [p \in Processes |-> 0]
    /\ cleans = [p \in Processes |-> 0]
    /\ up = DatabaseServers \ down
    /\ outages = 0

-----------------------------------------------------------------------------
(* The plugins *)

Database(s) == <<s.server, s.db>>

\* A plausible bug of Key: the database is left out of a pool's key.
KeyWithoutDatabase(s) == [type |-> s.type, server |-> s.server, db |-> "any"]

\* What the plugins find a connection by: Mongo's client by its uri, a pool
\* also by its database.
Key(s) ==
    [type |-> s.type, server |-> s.server, db |-> IF s.type = "mongo" THEN "any" ELSE s.db]

Pooled(s) == s.type \in {"mysql", "postgres"}

Cached(p, s) == Key(s) \in DOMAIN cache[p]

\* The connection of an endpoint is open.  SQLite's handles are never closed.
Open(p, s) == s.type = "sqlite" \/ (Cached(p, s) /\ cache[p][Key(s)].open)

\* The database an endpoint works on: Mongo's client serves every database of
\* its server, a pool the one it was made for.
Reached(p, s) ==
    IF Pooled(s) THEN Database(cache[p][Key(s)]) ELSE Database(s)

\* A cached client is taken as it is, a new one connects.
ClientConnects(p, s) == Cached(p, s) \/ s.server \in up

\* A pool connects when it is used, and only a repository uses it at once, to
\* create its table.
PoolServes(p, e) ==
    e.kind = "graph" \/ (e.storage.server \in up /\ (Cached(p, e.storage) => Open(p, e.storage)))

FileOpens(s) == s.server \in Files

\* createSearcher and createRepository of the plugin succeed.
Connects(p, e) ==
    CASE e.storage.type = "mongo" -> ClientConnects(p, e.storage)
      [] Pooled(e.storage) -> PoolServes(p, e)
      [] e.storage.type = "sqlite" -> FileOpens(e.storage)

HasPlugin(p, s) == s.type \in ToSet(config[p].plugins)

\* An endpoint gets a handle of its own, whether or not it can be set up then.
OpensFile(p, e) ==
    HasPlugin(p, e.storage) /\ e.storage.type = "sqlite" /\ FileOpens(e.storage)

\* What the caches hold after the attempt: a pool is cached before it is used,
\* a client after it connected.
AfterConnecting(p, e) ==
    LET s == e.storage
    IN  IF \/ ~HasPlugin(p, s) \/ s.type = "sqlite" \/ Cached(p, s)
           \/ s.type = "mongo" /\ ~Connects(p, e)
        THEN cache[p]
        ELSE [k \in DOMAIN cache[p] \cup {Key(s)} |->
                IF k = Key(s) THEN [open |-> TRUE, server |-> s.server, db |-> s.db]
                ELSE cache[p][k]]

-----------------------------------------------------------------------------
(* init and cleanServer *)

\* A plausible bug of Order: the restlettes first.
RestlettesFirst(p) == config[p].restlettes \o config[p].graphlettes

\* Graphlettes first, then restlettes.
Order(p) == config[p].graphlettes \o config[p].restlettes

NextEndpoint(p) == Order(p)[Len(mounted[p]) + 1]

\* A graphlette whose schema file is missing has a schema that does not parse.
Mountable(p, e) ==
    HasPlugin(p, e.storage) /\ Connects(p, e) /\ (e.kind = "graph" => e.found)

\* SQLite's handles after the attempt to set up the next endpoint.
AfterOpening(p) ==
    handles[p] \cup (IF OpensFile(p, NextEndpoint(p))
                     THEN {<<inits[p], Len(mounted[p]) + 1>>} ELSE {})

\* init is called: a new application, with the plugins the process has.  It
\* rejects at once if the policy of casbin cannot be loaded.
CallInit(p) ==
    /\ phase[p] \in {"off", "failed", "clean"}
    /\ inits[p] < MaxInits
    /\ phase' = [phase EXCEPT ![p] = IF config[p].policy THEN "init" ELSE "failed"]
    /\ mounted' = [mounted EXCEPT ![p] = <<>>]
    /\ probe' = [probe EXCEPT ![p] = NoProbe]
    /\ inits' = [inits EXCEPT ![p] = @ + 1]
    /\ UNCHANGED <<config, cache, handles, cleans, up, outages>>

\* processGraphlette or processRestlette of the next endpoint.
Mount(p) ==
    /\ phase[p] = "init" /\ Len(mounted[p]) < Len(Order(p))
    /\ Mountable(p, NextEndpoint(p))
    /\ mounted' = [mounted EXCEPT ![p] = Append(@, NextEndpoint(p))]
    /\ cache' = [cache EXCEPT ![p] = AfterConnecting(p, NextEndpoint(p))]
    /\ handles' = [handles EXCEPT ![p] = AfterOpening(p)]
    /\ UNCHANGED <<config, phase, probe, inits, cleans, up, outages>>

\* One endpoint fails and with it init.  A generated entrypoint and the command
\* line then exit; a program that embeds the server keeps its plugins.
Reject(p, exits) ==
    /\ phase[p] = "init" /\ Len(mounted[p]) < Len(Order(p))
    /\ ~Mountable(p, NextEndpoint(p))
    /\ phase' = [phase EXCEPT ![p] = IF exits THEN "dead" ELSE "failed"]
    /\ cache' = [cache EXCEPT ![p] = IF exits THEN <<>> ELSE AfterConnecting(p, NextEndpoint(p))]
    /\ handles' = [handles EXCEPT ![p] = IF exits THEN {} ELSE AfterOpening(p)]
    /\ UNCHANGED <<config, mounted, probe, inits, cleans, up, outages>>

\* Every endpoint is set up, and the application listens.
Listen(p) ==
    /\ phase[p] = "init" /\ Len(mounted[p]) = Len(Order(p))
    /\ phase' = [phase EXCEPT ![p] = "up"]
    /\ UNCHANGED <<config, mounted, cache, handles, probe, inits, cleans, up, outages>>

\* cleanup of the i-th plugin throws: a pool of pg cannot be ended twice.
Throws(p, i) ==
    /\ config[p].plugins[i] = "postgres"
    /\ \E k \in DOMAIN cache[p] : k.type = "postgres" /\ ~cache[p][k].open

\* A plausible bug of Cleans: only what an endpoint was set up on is closed.
CleansMounted(p, k) ==
    \E i \in 1 .. Len(mounted[p]) : Key(mounted[p][i].storage) = k

\* cleanServer closes connection k: it cleans one plugin after the other, and
\* stops at the first that throws.
Cleans(p, k) ==
    \E i \in 1 .. Len(config[p].plugins) :
        k.type = config[p].plugins[i] /\ \A j \in 1 .. i : ~Throws(p, j)

\* The connections are closed, and stay in the caches; SQLite's plugin closes
\* nothing.
CleanServer(p) ==
    /\ phase[p] \in {"up", "failed"}
    /\ phase' = [phase EXCEPT ![p] = "clean"]
    /\ cache' = [cache EXCEPT ![p] = [k \in DOMAIN @ |->
                    IF Cleans(p, k) THEN [@[k] EXCEPT !.open = FALSE] ELSE @[k]]]
    /\ cleans' = [cleans EXCEPT ![p] = @ + 1]
    /\ UNCHANGED <<config, mounted, handles, probe, inits, up, outages>>

-----------------------------------------------------------------------------
(* Readiness *)

Below(e, path) == SubSeq(path, Len(e.path) + 1, Len(path))

\* A restlette takes a GET of its own routes, of one more segment as an id, and
\* of its docs.
RestTakes(e, path) == Len(Below(e, path)) <= 1 \/ Head(Below(e, path)) = "api-docs"

\* A graphlette takes everything under its path.
Takes(e, path) == IsPrefix(e.path, path) /\ (e.kind = "graph" \/ RestTakes(e, path))

\* Express asks the routes in the order they were registered.
Taker(p, path) ==
    CHOOSE i \in 1 .. Len(mounted[p]) :
        /\ Takes(mounted[p][i], path)
        /\ \A j \in 1 .. i - 1 : ~Takes(mounted[p][j], path)

\* ready() of a searcher or a repository: the database answers a query.
Answers(p, s) == Open(p, s) /\ s.server \in up

\* What a GET of the i-th graphlette's /ready says, and which database it
\* heard.  Another graphlette that takes the path answers with an error.
ReadyAnswer(p, i) ==
    LET path == Append(config[p].graphlettes[i].path, "ready")
        e == mounted[p][Taker(p, path)]
    IN  IF Append(e.path, "ready") = path /\ Answers(p, e.storage)
        THEN [status |-> "ok", heard |-> {Database(e.storage)}]
        ELSE [status |-> "error", heard |-> {}]

\* A plausible bug of Overall: the last answer decides.
LastAnswer(status, answer) == answer

\* One error makes the whole an error.
Overall(status, answer) == IF answer = "ok" THEN status ELSE answer

\* A check has asked all graphlettes; the restlettes are not asked.
Checked(p) ==
    probe[p].status # "none" /\ probe[p].asked = Len(config[p].graphlettes)

\* Somebody asks GET /ready.
CheckReady(p) ==
    /\ phase[p] = "up"
    /\ probe[p] = NoProbe \/ Checked(p)
    /\ probe' = [probe EXCEPT ![p] = [NoProbe EXCEPT !.status = "ok"]]
    /\ UNCHANGED <<config, phase, mounted, cache, handles, inits, cleans, up, outages>>

\* The check asks the next graphlette.
AskNext(p) ==
    /\ phase[p] = "up" /\ probe[p].status # "none" /\ ~Checked(p)
    /\ LET i == probe[p].asked + 1
           answer == ReadyAnswer(p, i)
       IN  probe' = [probe EXCEPT ![p] =
                        [asked |-> i,
                         status |-> Overall(@.status, answer.status),
                         heard |-> @.heard \cup answer.heard]]
    /\ UNCHANGED <<config, phase, mounted, cache, handles, inits, cleans, up, outages>>

\* A database server goes down, and comes back.
GoDown(d) ==
    /\ d \in up \ Files /\ outages < MaxOutages
    /\ up' = up \ {d}
    /\ outages' = outages + 1
    /\ UNCHANGED <<config, phase, mounted, cache, handles, probe, inits, cleans>>

ComeBack(d) ==
    /\ d \notin up
    /\ up' = up \cup {d}
    /\ UNCHANGED <<config, phase, mounted, cache, handles, probe, inits, cleans, outages>>

-----------------------------------------------------------------------------
(* Properties *)

DistinctPaths(endpoints) == \A i, j \in 1 .. Len(endpoints) :
    endpoints[i].path = endpoints[j].path => i = j

\* The check a server answers "ready" to has, since it began, heard from the
\* database of each graphlette, however the databases come and go meanwhile
\* (checkAllServicesReady).  It says nothing of the restlettes' databases.
ReadyMeansEachAnswered ==
    \A p \in Processes :
        Checked(p) /\ probe[p].status = "ok" /\ DistinctPaths(config[p].graphlettes) =>
            \A i \in 1 .. Len(config[p].graphlettes) :
                Database(config[p].graphlettes[i].storage) \in probe[p].heard

\* Through all the sharing of cached clients and pools, every endpoint works on
\* the database its storage names (buildMongoCollection, buildMySQLPool,
\* buildPostgresPool).
EndpointsOnTheirDatabase ==
    \A p \in Processes : \A i \in 1 .. Len(mounted[p]) :
        phase[p] # "dead" =>
            Reached(p, mounted[p][i].storage) = Database(mounted[p][i].storage)

\* The endpoints the last init of p came to.
Attempted(p) ==
    {i \in 1 .. Len(Order(p)) : config[p].policy /\ i <= Len(mounted[p]) + 1}

\* The first cleanServer of a process closes every client and pool its plugins
\* ever opened, also those of an init that failed halfway.  What it leaves open
\* is SQLite's: the last init has a handle for each endpoint on a file that it
\* came to, also for one it then failed at, and has it still (SQLitePlugin:
\* nothing keeps the handles, and cleanup is empty).  A second cleanServer may
\* throw.
CleanedLeavesOnlyFilesOpen ==
    \A p \in Processes :
        phase[p] = "clean" /\ cleans[p] = 1 =>
            /\ \A k \in DOMAIN cache[p] : ~cache[p][k].open
            /\ \A i \in 1 .. Len(Order(p)) :
                  <<inits[p], i>> \in handles[p]
                     <=> i \in Attempted(p) /\ OpensFile(p, Order(p)[i])

=============================================================================
