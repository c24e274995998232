------------------------------- MODULE Dataflow -------------------------------
(***************************************************************************)
(* How tkati-dashboard finds and loads a dataflow, for every request       *)
(* afresh: flows.py resolves the flow's id to a directory, scanning the    *)
(* roots one after another, and dataflow.py lists the directory's          *)
(* fragments, reads them one by one, merges and validates them.  Nothing   *)
(* is locked or cached: an editor may change any file between two of these *)
(* steps.  One that writes in place leaves other contents on the way: an   *)
(* empty file, which is a fragment of nothing, a part that parses, and one *)
(* that does not.  The loader cannot tell a part from a whole file.        *)
(*                                                                         *)
(* `disk[r]` is the directory with the flow's name under root r; for a     *)
(* directory named on the command line (Fixed), that directory itself.     *)
(* One with no fragments stands for a missing one too.  The other flows of *)
(* the scan are left out: two of them with one name refuse every request.  *)
(***************************************************************************)
EXTENDS Integers, Sequences, SequencesExt

CONSTANTS
    None,
    Root,         \* the directories named, then the roots, in the order given
    Fixed,        \* which of them is a directory named on the command line
    File,         \* the fragments' names, sorted
    Fragment,     \* what a file that parses may hold: nodes, a single node, edges
    Absent,       \* no such file
    Broken,       \* a file that does not parse, or is no JSON object
    Disks,        \* what the disk may hold at first
    MaxChanges    \* bound: changes of the surroundings in a behaviour

Names  == ToSet(File)
Places == ToSet(Root)

\* main.py refuses two directories of one name on the command line.
ASSUME FlowConstants ==
    /\ MaxChanges \in Nat
    /\ Root \in Seq(Places)
    /\ \A r, s \in Fixed : r = s
    /\ Fixed \subseteq Places
    /\ Disks \subseteq [Places -> [Names -> Fragment \cup {Absent, Broken}]]

\* What an empty file is read as.
NoGraph == [nodes |-> {}, node |-> {}, edges |-> <<>>]

\* The edges of a fragment are a list.  A single node's "id" is its id, the rest
\* of the object its definition.
ASSUME FragmentsAreGraphs ==
    /\ NoGraph \in Fragment
    /\ \A x \in Fragment :
        /\ x.edges \in Seq(ToSet(x.edges))
        /\ \A n \in x.node :
            /\ n.def = [type |-> n.def.type, schema |-> n.def.schema,
                        connected |-> n.def.connected, extra |-> n.def.extra]
            /\ "id" \notin n.def.extra

ASSUME DistinctValues ==
    /\ {Absent, Broken} \cap Fragment = {}
    /\ Absent # Broken
    /\ None \notin Places

VARIABLES
    disk,         \* what each file holds
    loading,      \* where the load is: "no", "scan", "list", "read", "done"
    toScan,       \* the roots list_flows() has not looked at
    found,        \* the flow's directory, None while there is none
    paths,        \* the fragments listed and not yet read, in the order of File
    nodes,        \* merged so far: pairs of an id and its definition
    edges,        \* so far, in order
    status,       \* of the response: 200, 404, 422, 500, 502
    seen,         \* history: what each file has held since the load began
    changes

loadVars == <<loading, toScan, found, paths, nodes, edges, status>>
diskVars == <<disk, seen>>

Present(r) == {f \in Names : disk[r][f] # Absent}

Change == changes < MaxChanges /\ changes' = changes + 1

NothingSeen == [r \in Places |-> [f \in Names |-> {}]]

DataflowInit ==
    /\ disk \in Disks
    /\ loading = "no"
    /\ toScan = <<>> /\ found = None /\ paths = {}
    /\ nodes = {} /\ edges = <<>> /\ status = 200
    /\ seen = NothingSeen
    /\ changes = 0

\* The editor replaces or removes a file, truncates it, or writes some more of it,
\* while a load is under way: at other times that only gives the next request
\* another disk to start from.
Edit(r, f) ==
    /\ loading \notin {"no", "done"}
    /\ Change
    /\ \E content \in Fragment \cup {Absent, Broken} :
        /\ disk' = [disk EXCEPT ![r][f] = content]
        /\ seen' = [seen EXCEPT ![r][f] = @ \cup {content}]
    /\ UNCHANGED loadVars

-----------------------------------------------------------------------------
\* A request asks for the flow.
StartLoad ==
    /\ loading' = "scan"
    /\ toScan' = Root
    /\ found' = None /\ paths' = {}
    /\ nodes' = {} /\ edges' = <<>> /\ status' = 200
    /\ seen' = [r \in Places |-> [f \in Names |-> {disk[r][f]}]]
    /\ UNCHANGED <<disk, changes>>

\* Nothing of a load outlives its request.
EndLoad ==
    /\ loading' = "no"
    /\ toScan' = <<>> /\ found' = None /\ paths' = {}
    /\ nodes' = {} /\ edges' = <<>> /\ status' = 200
    /\ seen' = NothingSeen
    /\ UNCHANGED <<disk, changes>>

\* The load raises, and the request ends with this status.
Refuse(code) ==
    /\ loading' = "done"
    /\ status' = code
    /\ UNCHANGED <<toScan, found, nodes, edges>>

\* list_flows(): a directory named is there whatever it holds; one under a root
\* only with a fragment in it.  Two directories of one name are ambiguous.
Scan ==
    /\ loading = "scan"
    /\ toScan # <<>>
    /\ LET r == Head(toScan)
           discovered == r \in Fixed \/ Present(r) # {}
           ambiguous  == discovered /\ found \notin {None, r}
       IN  \/ /\ ambiguous
              /\ Refuse(500)
           \/ /\ ~ambiguous
              /\ found' = IF discovered THEN r ELSE found
              /\ toScan' = Tail(toScan)
              /\ UNCHANGED <<loading, nodes, edges, status>>
    /\ UNCHANGED <<diskVars, paths, changes>>

Resolved ==
    /\ loading = "scan"
    /\ toScan = <<>>
    /\ IF found = None THEN Refuse(404)
       ELSE /\ loading' = "list"
            /\ UNCHANGED <<toScan, found, nodes, edges, status>>
    /\ UNCHANGED <<diskVars, paths, changes>>

\* find_fragment_paths: one look at the directory.
List ==
    /\ loading = "list"
    /\ paths' = Present(found)
    /\ IF paths' = {} THEN Refuse(422)
       ELSE /\ loading' = "read"
            /\ UNCHANGED <<toScan, found, nodes, edges, status>>
    /\ UNCHANGED <<diskVars, changes>>

\* The single form keeps its "id" among the definition's extra keys.
Definitions(fragment) ==
    fragment.nodes \cup
        {<<n.id, [n.def EXCEPT !.extra = @ \cup {"id"}]>> : n \in fragment.node}

Functional(pairs) == \A x, y \in pairs : x[1] = y[1] => x = y

\* A definition with no type, or an edge with no end, is pydantic's error, which
\* the endpoints do not catch.
Invalid(fragment) ==
    \/ \E x \in Definitions(fragment) : x[2].type = None
    \/ \E i \in DOMAIN fragment.edges : None \in ToSet(fragment.edges[i])

\* Mutation of Mergeable: a second definition of a node is not compared.
MergeableUnchecked(fragment) == \A n \in fragment.node : n.id # None

Mergeable(fragment) ==
    /\ \A n \in fragment.node : n.id # None
    /\ Functional(nodes \cup Definitions(fragment))

\* The listed fragments are read in the order of their names.
IsNext(f) ==
    /\ f \in paths
    /\ \E i \in DOMAIN File : File[i] = f /\ \A j \in 1 .. i - 1 : File[j] \notin paths

\* Mutation of ReadFragment: a file that does not parse is passed over.
ReadFragmentLenient ==
    /\ loading = "read"
    /\ \E f \in Names :
        /\ IsNext(f)
        /\ paths' = paths \ {f}
        /\ LET content == disk[found][f]
           IN  \/ content \in Fragment /\ ~Mergeable(content) /\ Refuse(422)
               \/ content \in Fragment /\ Invalid(content) /\ Refuse(500)
               \/ /\ content \in Fragment => Mergeable(content) /\ ~Invalid(content)
                  /\ nodes' = nodes \cup (IF content \in Fragment THEN Definitions(content) ELSE {})
                  /\ edges' = edges \o (IF content \in Fragment THEN content.edges ELSE <<>>)
                  /\ UNCHANGED <<loading, toScan, found, status>>
    /\ UNCHANGED <<diskVars, changes>>

\* Read and merge the next fragment.  Of several errors in one file, the first
\* one met decides.
ReadFragment ==
    /\ loading = "read"
    /\ \E f \in Names :
        /\ IsNext(f)
        /\ paths' = paths \ {f}
        /\ LET content == disk[found][f]
           IN  \/ content \in {Absent, Broken} /\ Refuse(422)
               \/ content \in Fragment /\ ~Mergeable(content) /\ Refuse(422)
               \/ content \in Fragment /\ Invalid(content) /\ Refuse(500)
               \/ /\ content \in Fragment
                  /\ Mergeable(content)
                  /\ ~Invalid(content)
                  /\ nodes' = nodes \cup Definitions(content)
                  /\ edges' = edges \o content.edges
                  /\ UNCHANGED <<loading, toScan, found, status>>
    /\ UNCHANGED <<diskVars, changes>>

\* The whole graph is checked once everything is merged.
Sound ==
    /\ \A x \in nodes : x[2].schema # "unknown"
    /\ \A i \in DOMAIN edges : ToSet(edges[i]) \subseteq {x[1] : x \in nodes}

Validate ==
    /\ loading = "read"
    /\ paths = {}
    /\ IF Sound
       THEN loading' = "done" /\ UNCHANGED <<toScan, found, nodes, edges, status>>
       ELSE Refuse(422)
    /\ UNCHANGED <<diskVars, paths, changes>>

LoadStep == Scan \/ Resolved \/ List \/ ReadFragment \/ Validate

=============================================================================
