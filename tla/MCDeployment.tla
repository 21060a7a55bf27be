---------------------------- MODULE MCDeployment ----------------------------
(***************************************************************************)
(* Small scripts and configurations for Deployment.                        *)
(***************************************************************************)
EXTENDS Deployment

\* Two databases of Mongo, a Postgres database and a SQLite file.
App == [type |-> "mongo", server |-> "outside", db |-> "app"]
MCAddable == {App}
MCDatabases ==
    {App,
     [type |-> "mongo", server |-> "outside", db |-> "archive"],
     [type |-> "postgres", server |-> "outside", db |-> "app"],
     [type |-> "sqlite", server |-> "file", db |-> "none"]}

\* The names and ports are interchangeable: the first service takes the first
\* of them, the second clashes with it in name, in port, or not at all.
MCDeclarations == <<{<<"farm", 1>>}, {<<"coop", 2>>, <<"coop", 1>>, <<"farm", 2>>}>>

Graph(path, collection, resolves, found) ==
    [kind |-> "graph", path |-> path, collection |-> collection, found |-> found,
     resolves |-> resolves]
Rest(path) ==
    [kind |-> "rest", path |-> path, collection |-> "hens", found |-> TRUE,
     resolves |-> FALSE]

\* Two graphlettes, one under the other, and a restlette beside the first.
MCEndpoints ==
    {Graph(<<"hen">>, "hens", TRUE, TRUE), Graph(<<"hen", "lay">>, "eggs", FALSE, TRUE),
     Rest(<<"api">>)}

On(e, type, database) ==
    [kind |-> e.kind, path |-> e.path, found |-> e.found,
     storage |-> IF type = "sqlite"
                 THEN [type |-> type, server |-> "file", db |-> "none", collection |-> "hens"]
                 ELSE [type |-> type, server |-> "outside", db |-> database, collection |-> "hens"]]

\* Two databases of one server under each plugin, plugins together, a schema
\* that is missing, a plugin that is, plugins that are cleaned after Postgres's,
\* and a policy that cannot be loaded.
Embedded(t, u, found, plugins, policy) ==
    [graphlettes |-> <<On(Graph(<<"hen">>, "hens", FALSE, TRUE), t, "one"),
                       On(Graph(<<"coop">>, "hens", FALSE, found), u, "two")>>,
     restlettes |-> <<On(Rest(<<"api">>), t, "two")>>,
     plugins |-> plugins, policy |-> policy]
MCEmbeddedConfigs ==
    {Embedded(t, u, found, plugins, TRUE) :
        t, u \in {"mongo", "mysql", "postgres", "sqlite"}, found \in BOOLEAN,
        plugins \in {<<"sqlite", "postgres", "mongo", "mysql">>, <<"mysql", "postgres">>}}
    \cup {Embedded("sqlite", "mongo", TRUE, <<"sqlite", "mongo">>, FALSE)}
=============================================================================
