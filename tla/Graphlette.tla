------------------------------ MODULE Graphlette ------------------------------
(***************************************************************************)
(* One GraphQL operation served by a graphlette: the resolvers of its top  *)
(* level (graph/root.ts) search the repository, and a field of the objects *)
(* they return is resolved by a sibling service (graph/dto.ts) through a   *)
(* data loader (graph/dataLoaderFactory.ts) that collects the ids asked    *)
(* for in one turn of the event loop into one call.  This is the field of  *)
(* one (url, queryName), which has one entry in the operation's map of     *)
(* data loaders.                                                           *)
(***************************************************************************)
EXTENDS Integers, Sequences, FiniteSets

CONSTANTS
    Roots,      \* the fields at the top level of the operation
    Fields,     \* the occurrences of the resolved field in its result
    Root,       \* Root[f]: the top level field whose object f belongs to
    Asked,      \* Asked[r]: the argument "at" of r, or NoAt
    Selection,  \* Selection[r]: the subfields the operation selects below r
    Keys,       \* the ids an object may refer to
    NoKey,      \* an object without the property that refers
    Absent,     \* an object the search did not return
    NoAt,
    MaxBatch,   \* maxBatchSize of the data loader (100)
    Pending, Empty, Failed,  \* as in Resolution
    MaxTime     \* bound: the clock stops here

ASSUME GraphletteConstants ==
    /\ Root \in [Fields -> Roots]
    /\ NoAt \notin Nat
    /\ Asked \in [Roots -> Nat \cup {NoAt}]
    /\ NoKey \notin Keys /\ Absent \notin Keys \cup {NoKey}
    /\ Pending \notin {Empty, Failed}
    /\ MaxBatch \in Nat \ {0}
    /\ MaxTime \in Nat

VARIABLES
    now,        \* Date.now()
    pc,         \* pc[r]: where the resolver of r stands
    at,         \* at[r]: _timestamp of the objects of r
    key,        \* key[f]: the id the object of f refers to
    loaders,    \* the data loaders made so far: the arguments of the first caller
    current,    \* index of the loader in the operation's map, 0 for none
    batches,    \* the batches of the loaders
    promise,    \* promise[f]: batch and position f waits for, <<>> before its load
    value       \* value[f]: what f has become

vars == <<now, pc, at, key, loaders, current, batches, promise, value>>

\* The times an operation may ask for.
Times == 0 .. MaxTime \cup {Asked[r] : r \in Roots}

Document == [key : Keys, at : Times, sel : {Selection[r] : r \in Roots}]

TypeOK ==
    /\ now \in Nat
    /\ pc \in [Roots -> {"start", "find", "resolve", "done"}]
    /\ at \in [Roots -> Nat]
    /\ key \in [Fields -> Keys \cup {NoKey, Absent}]
    /\ \A l \in DOMAIN loaders : loaders[l].at \in Nat
    /\ current \in 0 .. Len(loaders)
    /\ \A b \in DOMAIN batches :
          /\ batches[b].loader \in DOMAIN loaders
          /\ Len(batches[b].keys) \in 1 .. MaxBatch
          /\ batches[b].state \in {"open", "sent", "answered", "failed", "rejected"}
    /\ \A f \in Fields : promise[f] # <<>> => promise[f] \in Nat \X Nat
    /\ \A f \in Fields : value[f] \in {Pending, Empty, Failed} \/ value[f] \in Document

Init ==
    /\ now = 0
    /\ pc = [r \in Roots |-> "start"]
    /\ at = [r \in Roots |-> 0]
    /\ key = [f \in Fields |-> Absent]
    /\ loaders = <<>>
    /\ current = 0
    /\ batches = <<>>
    /\ promise = [f \in Fields |-> <<>>]
    /\ value = [f \in Fields |-> Pending]

-----------------------------------------------------------------------------
FieldsOf(r) == {f \in Fields : Root[f] = r}

\* The fields of r whose resolver has still to run.
Unresolved(r) == {f \in FieldsOf(r) : key[f] # Absent /\ promise[f] = <<>>}

\* graphql-js completes the objects of one top level field in one turn.
BetweenTurns == \A r \in Roots : pc[r] # "resolve"

\* getTimestamp(args)
Timestamp(r) == IF Asked[r] = NoAt THEN now ELSE Asked[r]

\* The resolver of r has its token, draws its timestamp and searches.
Search(r) ==
    /\ pc[r] = "start"
    /\ BetweenTurns
    /\ pc' = [pc EXCEPT ![r] = "find"]
    /\ at' = [at EXCEPT ![r] = Timestamp(r)]
    /\ UNCHANGED <<now, key, loaders, current, batches, promise, value>>

\* The search is back: fillOne gives each object its _timestamp and resolvers.
Fill(r) ==
    /\ pc[r] = "find"
    /\ BetweenTurns
    /\ \E F \in SUBSET FieldsOf(r) : \E k \in [F -> Keys \cup {NoKey}] :
          /\ key' = [f \in Fields |-> IF f \in F THEN k[f] ELSE key[f]]
          /\ pc' = [pc EXCEPT ![r] = IF F = {} THEN "done" ELSE "resolve"]
    /\ UNCHANGED <<now, at, loaders, current, batches, promise, value>>

\* A plausible bug of Keep: the new data loader is not put into the map.
Drop(l) == 0

\* contextValue.dataLoaders.set(dataLoaderKey, dataLoader)
Keep(l) == l

\* The loader of the map, or a new one made for the caller.
LoaderFor(r) ==
    IF current # 0 THEN <<current, loaders>>
    ELSE <<Len(loaders) + 1,
           Append(loaders, [at |-> at[r], sel |-> Selection[r]])>>

\* Where loader l promised id k already: its cache.  Errors of single ids stay
\* in it, the ids of a batch function that rejects leave it.
Cached(l, k) ==
    {p \in (1 .. Len(batches)) \X (1 .. MaxBatch) :
        /\ batches[p[1]].loader = l
        /\ batches[p[1]].state # "rejected"
        /\ p[2] <= Len(batches[p[1]].keys)
        /\ batches[p[1]].keys[p[2]] = k}

\* The batch of loader l that ids are collected in.
Collecting(l) ==
    {b \in DOMAIN batches :
        /\ batches[b].loader = l
        /\ batches[b].state = "open"
        /\ \A c \in DOMAIN batches : batches[c].loader = l => c <= b}

\* A plausible bug of Open: a batch is never full.
OpenUnbounded(l) == Collecting(l)

\* The batch that takes one more id, if there is one.
Open(l) == {b \in Collecting(l) : Len(batches[b].keys) < MaxBatch}

\* dataLoader.load(k) of loader l: the promise and the batches after it.
Loaded(l, k) ==
    IF Cached(l, k) # {} THEN <<CHOOSE p \in Cached(l, k) : TRUE, batches>>
    ELSE IF Open(l) # {} THEN
        LET b == CHOOSE b \in Open(l) : TRUE
        IN  <<<<b, Len(batches[b].keys) + 1>>, [batches EXCEPT ![b].keys = Append(@, k)]>>
    ELSE <<<<Len(batches) + 1, 1>>,
           Append(batches, [loader |-> l, keys |-> <<k>>, state |-> "open", data |-> <<>>])>>

\* The resolver of f runs up to the await of its load.
Resolve(f) ==
    LET r == Root[f]
        l == LoaderFor(r)
    IN  /\ pc[r] = "resolve"
        /\ f \in Unresolved(r)
        /\ loaders' = l[2]
        /\ current' = Keep(l[1])
        /\ IF key[f] = NoKey
           THEN /\ promise' = [promise EXCEPT ![f] = <<0, 0>>]
                /\ value' = [value EXCEPT ![f] = Failed]
                /\ UNCHANGED batches
           ELSE /\ promise' = [promise EXCEPT ![f] = Loaded(l[1], key[f])[1]]
                /\ batches' = Loaded(l[1], key[f])[2]
                /\ UNCHANGED value
        /\ pc' = [pc EXCEPT ![r] = IF Unresolved(r) = {f} THEN "done" ELSE @]
        /\ UNCHANGED <<now, at, key>>

-----------------------------------------------------------------------------
\* The turn is over: the ids of batch b are sent to the sibling in one query.
Dispatch(b) ==
    /\ BetweenTurns
    /\ batches[b].state = "open"
    /\ batches' = [batches EXCEPT ![b].state = "sent"]
    /\ UNCHANGED <<now, pc, at, key, loaders, current, promise, value>>

\* The document the sibling returns for item_n of batch b: addTimestampToQuery
\* and processSelectionSet take the time and the subfields from the loader.
Item(b, n) ==
    LET l == loaders[batches[b].loader]
    IN  [key |-> batches[b].keys[n], at |-> l.at, sel |-> l.sel]

\* A plausible bug of Results: the items that are null are left out, and the
\* others move up.
ResultsMoved(b, found) ==
    LET S == SelectSeq([n \in 1 .. Len(found) |-> n], LAMBDA n : found[n])
    IN  [n \in 1 .. Len(found) |-> IF n <= Len(S) THEN Item(b, S[n]) ELSE Empty]

\* What batch b resolves to when the sibling found the items found says.
Results(b, found) == [n \in 1 .. Len(found) |-> IF found[n] THEN Item(b, n) ELSE Empty]

\* The sibling answers batch b.
Answered(b) ==
    /\ BetweenTurns
    /\ batches[b].state = "sent"
    /\ \E found \in [1 .. Len(batches[b].keys) -> BOOLEAN] :
          batches' = [batches EXCEPT ![b].state = "answered", ![b].data = Results(b, found)]
    /\ UNCHANGED <<now, pc, at, key, loaders, current, promise, value>>

\* The call of batch b fails, or its answer is no JSON or has errors: every id
\* of it gets the error.  When the connection breaks amid the answer the batch
\* function itself rejects.
Fails(b) ==
    /\ BetweenTurns
    /\ batches[b].state = "sent"
    /\ \E s \in {"failed", "rejected"} : batches' = [batches EXCEPT ![b].state = s]
    /\ UNCHANGED <<now, pc, at, key, loaders, current, promise, value>>

\* The promise of f is settled, and its resolver returns.
Deliver(f) ==
    /\ BetweenTurns
    /\ value[f] = Pending /\ promise[f] # <<>>
    /\ LET b == batches[promise[f][1]]
       IN  \/ /\ b.state = "answered"
              /\ value' = [value EXCEPT ![f] = b.data[promise[f][2]]]
           \/ /\ b.state \in {"failed", "rejected"}
              /\ value' = [value EXCEPT ![f] = Failed]
    /\ UNCHANGED <<now, pc, at, key, loaders, current, batches, promise>>

Tick ==
    /\ now < MaxTime
    /\ BetweenTurns
    /\ now' = now + 1
    /\ UNCHANGED <<pc, at, key, loaders, current, batches, promise, value>>

\* Every field has its value: the operation is answered.
Finished ==
    /\ \A r \in Roots : pc[r] = "done"
    /\ \A f \in Fields : promise[f] # <<>> => value[f] # Pending
    /\ UNCHANGED vars

Run ==
    \/ \E r \in Roots : Search(r) \/ Fill(r)
    \/ \E f \in Fields : Resolve(f) \/ Deliver(f)
    \/ \E b \in DOMAIN batches : Dispatch(b) \/ Answered(b) \/ Fails(b)

Next == Run \/ Tick \/ Finished

\* Node runs what can run, a search comes back, and the sibling answers or the
\* call fails: fetch gives up when no answer comes for some minutes.
Fairness == WF_vars(Run)

Spec == Init /\ [][Next]_vars /\ Fairness

-----------------------------------------------------------------------------
\* What the resolver of f asks for, were it on its own.
OwnCall(f) == [key |-> key[f], at |-> at[Root[f]], sel |-> Selection[Root[f]]]

\* What the resolvers have asked for so far.
Called ==
    [f \in Fields |-> IF promise[f] = <<>> THEN Pending
                     ELSE IF key[f] = NoKey THEN Failed ELSE OwnCall(f)]

Direct == INSTANCE Resolution WITH Calls <- Document, call <- Called, value <- value

\* The data loader changes no answer: each resolver gets what a call of its own
\* would have got, in an operation whose top level fields have one time and
\* one selection, and every field that is asked for is answered
\* (assignResolver with and without data loaders).
ResolvesAsDirectCalls == Direct!Spec

\* The sibling is asked for an id once in an operation, and again only when
\* the call that asked for it broke (createSubgraphDataLoader: cache).
AskedOncePerOperation ==
    \A b, c \in DOMAIN batches :
        b < c /\ batches[b].state # "rejected" =>
            \A m \in DOMAIN batches[b].keys, n \in DOMAIN batches[c].keys :
                batches[b].keys[m] # batches[c].keys[n]

\* A document below an object is the one of that object's time ("Pass
\* timestamps to next layer", core/cert/features/e2e/farm.feature).
AnswersAtOwnTime ==
    \A f \in Fields : value[f] \in Document => value[f].at = at[Root[f]]
=============================================================================
