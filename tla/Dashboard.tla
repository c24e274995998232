------------------------------ MODULE Dashboard ------------------------------
(***************************************************************************)
(* The endpoints of tkati-dashboard (app.py): each request loads its flow  *)
(* anew (Dataflow) and then answers with the graph, or looks at the topic  *)
(* of one of its nodes (TopicLookup).  Requests share no state, so one at  *)
(* a time stands for all that run at once.                                 *)
(***************************************************************************)
EXTENDS TopicLookup

CONSTANTS
    Endpoint,    \* of "graph", "lag", "snapshot", "topic-stats"
    NodeId       \* the nodes a request may ask about

ASSUME DashboardConstants ==
    Endpoint \subseteq {"graph", "lag", "snapshot", "topic-stats"}

VARIABLES
    request,     \* the request being answered, None when there is none
    quiet        \* history: nothing has changed or failed since it came

vars == <<diskVars, loadVars, changes, topicVars, lookVars, request, quiet>>

Request == [endpoint : Endpoint, node : NodeId]

Init ==
    /\ DataflowInit
    /\ TopicInit
    /\ request = None
    /\ quiet = TRUE

Receive(r) ==
    /\ request = None
    /\ request' = r
    /\ StartLoad
    /\ UNCHANGED <<topicVars, lookVars, quiet>>

Load ==
    /\ LoadStep
    /\ UNCHANGED <<topicVars, lookVars, request, quiet>>

-----------------------------------------------------------------------------
\* _get_node and _require_kafka_connection, for every endpoint but the graph.
Gate ==
    LET defs == {x[2] : x \in {y \in nodes : y[1] = request.node}}
    IN  IF defs = {} \/ \A d \in defs : d.type # "kafka-topic" THEN 404
        ELSE IF \A d \in defs : ~d.connected THEN 422 ELSE 200

PastGate ==
    /\ request # None
    /\ request.endpoint # "graph"
    /\ loading = "done"
    /\ status = 200
    /\ looking = "no"
    /\ IF Gate = 200 THEN StartLook /\ UNCHANGED <<loadVars>>
       ELSE Refuse(Gate) /\ UNCHANGED <<paths, topicVars, lookVars>>
    /\ UNCHANGED <<diskVars, changes, request, quiet>>

\* Only a 200 goes on to the broker.
Resolve ==
    /\ looking = "metadata"
    /\ LookTo(CASE request.endpoint = "lag" -> "committed"
                [] request.endpoint = "snapshot" -> "tails"
                [] request.endpoint = "topic-stats" -> "config")
    /\ UNCHANGED <<ask, behind>>

LookStep ==
    \/ Resolve \/ FetchConfig \/ FetchCommitted \/ PollNothing
    \/ \E p \in Partition : FetchLag(p) \/ FetchTail(p) \/ PollMessage(p) \/ PollResets(p)

Look ==
    /\ LookStep
    /\ UNCHANGED <<diskVars, loadVars, changes, request, quiet>>

\* The broker does not answer: a gateway error where the lookup expects it, and
\* an uncaught exception where it does not.
LookFails ==
    /\ Looking /\ looking # "poll"
    /\ Change
    /\ Refuse(IF looking \in {"metadata", "config", "committed"} THEN 502 ELSE 500)
    /\ LookTo("done")
    /\ quiet' = FALSE
    /\ UNCHANGED <<diskVars, paths, ask, behind, request>>

TimeUp ==
    /\ Deadline
    /\ quiet' = FALSE
    /\ UNCHANGED <<diskVars, loadVars, changes, request>>

\* What the response is made of is there.
Responding ==
    /\ request # None
    /\ loading = "done"
    /\ request.endpoint = "graph" \/ status # 200 \/ looking = "done"

\* It has been sent.
Respond ==
    /\ Responding
    /\ request' = None
    /\ quiet' = TRUE
    /\ EndLoad
    /\ EndLook

Surroundings ==
    /\ \/ /\ \E r \in Places, f \in Names : Edit(r, f)
          /\ UNCHANGED <<topicVars, lookVars>>
       \/ /\ \E p \in Partition : Produced(p) \/ Committed(p) \/ Deleted(p)
          /\ UNCHANGED <<diskVars, loadVars>>
    /\ quiet' = FALSE
    /\ UNCHANGED request

Next ==
    \/ \E r \in Request : Receive(r)
    \/ Load \/ PastGate \/ Look \/ LookFails \/ TimeUp \/ Respond
    \/ Surroundings

\* The server's thread runs; a poll's time is up sooner or later.
Server == Load \/ PastGate \/ Look \/ Respond

Spec == Init /\ [][Next]_vars
FairSpec == Spec /\ WF_vars(Server) /\ WF_vars(TimeUp)

-----------------------------------------------------------------------------
TypeOK ==
    /\ disk \in [Places -> [Names -> Fragment \cup {Absent, Broken}]]
    /\ loading \in {"no", "scan", "list", "read", "done"}
    /\ toScan \in Seq(Places) /\ found \in Places \cup {None}
    /\ paths \subseteq Names
    /\ status \in {200, 404, 422, 500, 502}
    /\ changes \in 0 .. MaxChanges
    /\ log \in Seq(Partition) /\ low \in [Partition -> Nat]
    /\ Stamped
    /\ committed \in [Partition -> Nat \cup {None}]
    /\ looking \in {"no", "metadata", "config", "committed", "lag", "tails", "poll", "done"}
    /\ ask \subseteq Partition
    /\ current \in [Partition -> Nat \cup {None}] /\ total \in Nat
    /\ next \in [Partition -> Nat] /\ want \in Nat
    /\ messages \subseteq DOMAIN log /\ behind \subseteq DOMAIN log
    /\ request \in Request \cup {None}
    /\ quiet \in BOOLEAN

\* The graph a directory's files mean, whatever their order: a single node is
\* the same as an entry under "nodes" with its id as the key.
Fragments(r) == {disk[r][f] : f \in Present(r)}
Meant(x) == x.nodes \cup {<<n.id, n.def>> : n \in x.node}
AllMeant(r) == UNION {Meant(x) : x \in Fragments(r)}
AllEdges(r) == UNION {ToSet(x.edges) : x \in Fragments(r)}

IsDataflow(r) ==
    /\ Fragments(r) # {}
    /\ Broken \notin Fragments(r)
    /\ \A x \in Fragments(r) : ~Invalid(x) /\ \A n \in x.node : n.id # None
    /\ Functional(AllMeant(r))
    /\ \A x \in AllMeant(r) : x[2].schema # "unknown"
    /\ \A e \in AllEdges(r) : ToSet(e) \subseteq {x[1] : x \in AllMeant(r)}

\* A node that is given as a single node and as an entry under "nodes".
BothForms(r) ==
    \E x, y \in Fragments(r) \ {Broken} :
        \E d \in x.nodes, n \in y.node : d[1] = n.id

\* The "id" of a single node is no part of its definition.
Bare(pairs) == {<<x[1], [x[2] EXCEPT !.extra = @ \ {"id"}]>> : x \in pairs}

\* The directories the request's name may mean.
Candidates == {r \in Places : r \in Fixed \/ Present(r) # {}}

\* The messages retention has left, and the last of them in each partition.
Available == {i \in DOMAIN log : OffsetOf(i) >= low[log[i]]}
LastOfEach ==
    {i \in Available : Cardinality({j \in Available : log[j] = log[i] /\ j > i}) < Limit}

\* Timestamps rise along each partition: the broker sets them, or the producers'
\* clocks keep to the order of the log.
Chronological ==
    \A i, j \in DOMAIN log : log[i] = log[j] /\ i < j => stamp[i] <= stamp[j]

\* A request that nothing happens to is answered exactly: the flow it names if
\* that is one directory, the union of its fragments in whatever order they
\* are read and split over the files, or the error its files deserve; a lag that
\* counts just what the group has not read; and a snapshot of the last messages
\* of each partition, of which it shows the latest of the whole topic if the
\* timestamps are chronological.  One thing is not as docs/dataflow-serialization.md
\* has it (lines 170-171 and 259): the same definition in both forms is refused
\* (flows.list_flows, dataflow.load_dataflow, lag.fetch_consumer_lag,
\* snapshot.fetch_kafka_snapshot).
QuietIsExact ==
    Responding /\ quiet =>
        /\ status = 404 => Candidates = {} \/ request.endpoint # "graph"
        /\ Candidates = {} => status = 404
        /\ Cardinality(Candidates) > 1 => status = 500
        /\ \A r \in Candidates : Cardinality(Candidates) = 1 =>
            /\ IsDataflow(r) /\ BothForms(r) => status = 422
            /\ IsDataflow(r) /\ ~BothForms(r) =>
                /\ Bare(nodes) = Bare(AllMeant(r))
                /\ ToSet(edges) = AllEdges(r)
                /\ request.endpoint = "graph" => status = 200
            /\ status = 200 /\ ~BothForms(r) => IsDataflow(r)
        /\ status = 200 /\ request.endpoint = "lag" =>
             total = Cardinality(Unread)
        /\ status = 200 /\ request.endpoint = "snapshot" =>
             /\ messages = LastOfEach
             /\ Chronological => Shown(messages) \subseteq Shown(Available)

\* However the files change while they are read one after another, a flow that
\* is served is the union of one content of each file, which the file held at
\* some moment of the request, defines no node twice and has no edge to a node
\* it lacks: no file is counted twice, or passed over that was there and did not
\* parse.  Whether such a content was a whole file, only its editor knows: what
\* a write in place has truncated or half written is one (load_dataflow).
ServedFromHeldFiles ==
    Responding /\ status = 200 =>
        /\ Functional(nodes)
        /\ Sound
        /\ \E version \in [Names -> Fragment \cup {Absent}] :
            /\ \A f \in Names : version[f] \in seen[found][f]
            /\ LET read == {version[f] : f \in Names} \ {Absent}
               IN  /\ nodes = UNION {Definitions(x) : x \in read}
                   /\ ToSet(edges) = UNION {ToSet(x.edges) : x \in read}

\* Offsets first, watermarks after, one partition at a time, with nodes that
\* produce and commit in between: the lag served counts every message that the
\* group had not read when its offsets were fetched and that is still there,
\* so that "no lag" never hides one (fetch_consumer_lag).
LagIsNeverUnderstated ==
    Responding /\ status = 200 /\ request.endpoint = "lag" =>
        total >= Cardinality({i \in behind : OffsetOf(i) >= low[log[i]]})

\* Every request is answered: also the snapshot that waits for messages which
\* retention removes after it has counted them (fetch_kafka_snapshot).
EveryRequestEnds == request # None ~> request = None
=============================================================================
