------------------------------ MODULE MCDashboard ------------------------------
(***************************************************************************)
(* The instance of Dashboard for TLC: a flow of one topic and one worker,  *)
(* in up to two files, under a directory named on the command line or a    *)
(* root, and a topic of two partitions the group has read a part of.       *)
(***************************************************************************)
EXTENDS Dashboard

CONSTANTS r1, r2, f1, f2, p1, p2, a, b

Topic  == [type |-> "kafka-topic", schema |-> "known", connected |-> TRUE, extra |-> {}]
Worker == [type |-> "processing-node", schema |-> "none", connected |-> FALSE, extra |-> {}]

\* Good fragments: the topic, the worker and their edge, and the topic in the
\* form of a single node.
Topics == [NoGraph EXCEPT !.nodes = {<<a, Topic>>}]
Wiring == [NoGraph EXCEPT !.nodes = {<<b, Worker>>}, !.edges = <<<<a, b>>>>]
Single == [NoGraph EXCEPT !.node = {[id |-> a, def |-> Topic]}]

\* Ones that do not fit: another definition of the topic, without a connection;
\* a field of no known type; a node with no type.
Moved    == [NoGraph EXCEPT !.nodes = {<<a, [Topic EXCEPT !.connected = FALSE]>>}]
Mistyped == [NoGraph EXCEPT !.nodes = {<<a, [Topic EXCEPT !.schema = "unknown"]>>}]
Untyped  == [NoGraph EXCEPT !.nodes = {<<b, [Worker EXCEPT !.type = None]>>}]

\* A part of Wiring, as an editor that writes in place leaves it; Moved is one of
\* Topics, and NoGraph of both.
Unwired == [NoGraph EXCEPT !.nodes = {<<b, Worker>>}]

Contents == {Topics, Wiring, Single, Moved, Mistyped, Untyped, Unwired, NoGraph}
Roots == <<r1, r2>>
Files == <<f1, f2>>

FirstFile  == {Topics, Single, Mistyped, Broken}
SecondFile == {Wiring, Moved, Absent}

OneFlow(xs, ys) ==
    {[r \in {r1, r2} |-> [f \in {f1, f2} |->
        IF r = r2 THEN Absent ELSE IF f = f1 THEN x ELSE y]] : x \in xs, y \in ys}

\* The last one has the topic in both forms, one in each file.
InitialDisks == OneFlow(FirstFile, SecondFile) \cup OneFlow({Topics}, {Single})

\* A partition longer than the limit.  The timestamps rise along each partition,
\* and not along the topic; what is produced later has one that is out of order.
InitialLogs    == {<<p1, p2, p1, p1>>}
InitialStamps  == {<<2, 3, 2, 4>>}
InitialOffsets == {[p \in {p1, p2} |-> IF p = p1 THEN 1 ELSE None]}

=============================================================================
