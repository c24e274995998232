-------------------------- MODULE ClickhouseProducer --------------------------
(***************************************************************************)
(* ClickhouseProducer of tkati_core/clickhouse/producer.py: inserts one    *)
(* batch, retries what is not the rows' fault, and splits a rejected batch *)
(* until the bad rows are alone and go to the dead-letter queue.           *)
(*                                                                         *)
(* Rows are 1..Rows.  An insert carries a token: the call it belongs to,   *)
(* then the place of its chunk in the split.  The recursion is a list of   *)
(* the chunks still to be inserted, the children of a chunk in its place.  *)
(*                                                                         *)
(* The server is external.  It writes an insert's rows in order and can    *)
(* stop on the way, at a bad row, which it rejects, or when it fails: what *)
(* it has written stays.  Of an insert it ignores the rows it has of its   *)
(* token.  An insert that failed for the client may still land later.  A   *)
(* node whose call raises rewinds its batch and calls again.               *)
(*                                                                         *)
(* The DLQ is a producer too.  A Kafka one takes the rows into its queue   *)
(* and hears of each later, that it is delivered or that it is lost; one   *)
(* over ClickHouse hears at once.                                          *)
(***************************************************************************)
EXTENDS Naturals, Sequences, FiniteSets

CONSTANTS
    Rows,           \* rows of the batch
    Bad,            \* the rows ClickHouse rejects
    SplitFactors,   \* the values of split_factor a process may be given
    MaxDepth,       \* the interpreter's recursion limit, in nested chunks
    HasDlq,         \* dlq_producer is not None
    InsertAttempts, \* _INSERT_ATTEMPTS
    MaxFaults,      \* bound: failed or half done inserts, failed and lost DLQ sends
    MaxCalls        \* bound: calls for the batch

\* The settings accept any split_factor.  No factor that makes chunks smaller
\* meets the recursion limit.
ASSUME ClickhouseConstants ==
    /\ Rows \in Nat \ {0}
    /\ Bad \subseteq 1..Rows
    /\ SplitFactors \subseteq Nat
    /\ MaxDepth \in Nat /\ MaxDepth > Rows
    /\ HasDlq \in BOOLEAN
    /\ InsertAttempts \in Nat \ {0}
    /\ MaxFaults \in Nat
    /\ MaxCalls \in Nat \ {0}

VARIABLES
    splitFactor, \* _split_factor
    pc,        \* where the call is, or how the last one ended
    call,      \* its number: every call draws a fresh token
    work,      \* the chunks to insert, the next one first
    attempt,   \* which attempt of _insert_with_retry is next
    table,     \* the rows in the table, each with the chunk it came in
    limbo,     \* inserts the client has given up and the server has not
    dlq,       \* the rows handed to the DLQ: the call, and "out", "there" or "lost"
    faults     \* how many of MaxFaults are spent

vars == <<splitFactor, pc, call, work, attempt, table, limbo, dlq, faults>>

RowsOf(chunk) == chunk.first .. (chunk.first + chunk.len - 1)

Whole(n) == [first |-> 1, len |-> Rows, token |-> <<n>>]

Init ==
    /\ splitFactor \in SplitFactors
    /\ pc = "direct"
    /\ call = 1
    /\ work = <<Whole(1)>>
    /\ attempt = 1
    /\ table = {} /\ limbo = {}
    /\ dlq = <<>>
    /\ faults = 0

Fault == faults < MaxFaults /\ faults' = faults + 1

-----------------------------------------------------------------------------
(***************************************************************************)
(* The server.                                                             *)
(***************************************************************************)
Rejects(chunk) == RowsOf(chunk) \cap Bad # {}

\* What the server may have written of an insert when it stops: its first rows,
\* none of them bad.
Written(chunk) ==
    {rows \in {chunk.first .. k : k \in 0..Rows} : rows \subseteq RowsOf(chunk) \ Bad}

\* A row that is there, by the token and its place in the insert.
Known(chunk, row) ==
    \E x \in table :
        /\ x.chunk.token = chunk.token
        /\ x.row + chunk.first = row + x.chunk.first

Store(chunk, rows) ==
    table' = table \cup
        {[row |-> row, chunk |-> chunk] : row \in {n \in rows : ~Known(chunk, n)}}

\* An insert the client has given up on lands after all.
LandLate ==
    \E chunk \in limbo :
        /\ \E rows \in Written(chunk) : Store(chunk, rows)
        /\ limbo' = limbo \ {chunk}
        /\ UNCHANGED <<splitFactor, pc, call, work, attempt, dlq, faults>>

-----------------------------------------------------------------------------
(***************************************************************************)
(* _insert_with_retry, for the first chunk of the list.                    *)
(***************************************************************************)
Inserting == pc \in {"direct", "descend"}

\* The call is over: produce_arrow returns, or raises.
Ends(how) ==
    /\ pc' = how
    /\ work' = <<>>
    /\ attempt' = 1

\* What follows a chunk that is dealt with: the rest of the list, and the flush
\* of the DLQ after the last.  The direct insert has nothing after it.
Proceed ==
    IF pc = "direct" THEN Ends("returned")
    ELSE /\ work' = Tail(work)
         /\ attempt' = 1
         /\ pc' = IF Len(work) = 1 THEN "flush" ELSE "descend"

InsertOk ==
    /\ Inserting
    /\ ~Rejects(Head(work))
    /\ Store(Head(work), RowsOf(Head(work)))
    /\ Proceed
    /\ UNCHANGED <<splitFactor, call, limbo, dlq, faults>>

\* Mutation of InsertFails: a retry draws a token of its own.
InsertFailsNewToken ==
    /\ Inserting
    /\ Fault
    /\ LET chunk == Head(work)
       IN /\ \E rows \in Written(chunk) : Store(chunk, rows)
          /\ limbo' \in {limbo, limbo \cup {chunk}}
          /\ IF attempt < InsertAttempts
               THEN /\ attempt' = attempt + 1
                    /\ work' = <<[chunk EXCEPT !.token = Append(@, attempt)]>> \o Tail(work)
                    /\ UNCHANGED pc
               ELSE Ends("raised")
    /\ UNCHANGED <<splitFactor, call, dlq>>

\* Anything but a data error: the rows may have landed, all or some, may still
\* land, or are gone.  Retried with the same token, and after the last attempt
\* raised through every frame of the split.
InsertFails ==
    /\ Inserting
    /\ Fault
    /\ LET chunk == Head(work)
       IN /\ \E rows \in Written(chunk) : Store(chunk, rows)
          /\ limbo' \in {limbo, limbo \cup {chunk}}
    /\ IF attempt < InsertAttempts
         THEN attempt' = attempt + 1 /\ UNCHANGED <<pc, work>>
         ELSE Ends("raised")
    /\ UNCHANGED <<splitFactor, call, dlq>>

-----------------------------------------------------------------------------
(***************************************************************************)
(* A data error is not retried.                                            *)
(***************************************************************************)

\* The rows in front of the bad one may be in the table by then.
Rejected(chunk) ==
    /\ Rejects(chunk)
    /\ \/ UNCHANGED <<table, faults>>
       \/ Fault /\ \E rows \in Written(chunk) : Store(chunk, rows)

\* Mutation of DirectRejected: a data error is raised, DLQ or not.
DirectRejectedRaises ==
    /\ pc = "direct"
    /\ Rejected(Head(work))
    /\ Ends("raised")
    /\ UNCHANGED <<splitFactor, call, limbo, dlq>>

\* produce_arrow hands the whole batch to the fallback, which inserts it again
\* with the same token, or raises if there is no DLQ.
DirectRejected ==
    /\ pc = "direct"
    /\ Rejected(Head(work))
    /\ IF HasDlq THEN pc' = "descend" /\ attempt' = 1 /\ UNCHANGED work
                 ELSE Ends("raised")
    /\ UNCHANGED <<splitFactor, call, limbo, dlq>>

\* _table_slices, with the tokens of the slices.
Slices(chunk) ==
    LET share == chunk.len \div splitFactor
        size  == IF share = 0 THEN 1 ELSE share
        count == (chunk.len + size - 1) \div size
    IN  [i \in 1..count |->
            [first |-> chunk.first + (i - 1) * size,
             len   |-> IF i < count THEN size ELSE chunk.len - (count - 1) * size,
             token |-> Append(chunk.token, i - 1)]]

\* A chunk's token names the chunks it was split from: the depth of the recursion.
Depth(chunk) == Len(chunk.token)

SplitChunk ==
    /\ pc = "descend"
    /\ Rejected(Head(work))
    /\ Head(work).len > 1
    /\ splitFactor # 0
    /\ Depth(Head(work)) < MaxDepth
    /\ work' = Slices(Head(work)) \o Tail(work)
    /\ attempt' = 1
    /\ UNCHANGED <<splitFactor, pc, call, limbo, dlq>>

\* The split divides by zero, or has split a chunk into itself down to the
\* recursion limit: neither error is a data error, and every frame passes it on.
SplitFails ==
    /\ pc = "descend"
    /\ Rejected(Head(work))
    /\ Head(work).len > 1
    /\ splitFactor = 0 \/ Depth(Head(work)) = MaxDepth
    /\ Ends("raised")
    /\ UNCHANGED <<splitFactor, call, limbo, dlq>>

HandToDlq(row) ==
    dlq' = Append(dlq, [call |-> call, row |-> row, fate |-> "out"])

\* Mutation of ToDlq: a single row goes to the DLQ whatever its insert says.
ToDlqUnasked ==
    /\ pc = "descend"
    /\ Head(work).len = 1
    /\ HandToDlq(Head(work).first)
    /\ Proceed
    /\ UNCHANGED <<splitFactor, call, table, limbo, faults>>

\* A single bad row goes to the DLQ's producer.
ToDlq ==
    /\ pc = "descend"
    /\ Rejects(Head(work))
    /\ Head(work).len = 1
    /\ HandToDlq(Head(work).first)
    /\ Proceed
    /\ UNCHANGED <<splitFactor, call, table, limbo, faults>>

\* The DLQ refuses the row, and the call raises.
DlqFails ==
    /\ pc = "descend"
    /\ Rejects(Head(work))
    /\ Head(work).len = 1
    /\ Fault
    /\ Ends("raised")
    /\ UNCHANGED <<splitFactor, call, table, limbo, dlq>>

\* The DLQ's producer hears of a row.  The rows carry no tag, so nobody is told
\* of one that is lost.
ReportDlq ==
    \E i \in 1..Len(dlq) :
        /\ dlq[i].fate = "out"
        /\ \/ dlq' = [dlq EXCEPT ![i].fate = "there"] /\ UNCHANGED faults
           \/ dlq' = [dlq EXCEPT ![i].fate = "lost"] /\ Fault
        /\ UNCHANGED <<splitFactor, pc, call, work, attempt, table, limbo>>

\* Mutation of FlushDlq: produce_arrow does not flush the DLQ.
FlushDlqAtOnce ==
    /\ pc = "flush"
    /\ Ends("returned")
    /\ UNCHANGED <<splitFactor, call, table, limbo, dlq, faults>>

\* dlq_producer.flush(): waits until every row is reported, delivered or not.
FlushDlq ==
    /\ pc = "flush"
    /\ \A i \in 1..Len(dlq) : dlq[i].fate # "out"
    /\ Ends("returned")
    /\ UNCHANGED <<splitFactor, call, table, limbo, dlq, faults>>

\* The node's loop fails, the batch is rewound, read and sent again.
CallAgain ==
    /\ pc = "raised"
    /\ call < MaxCalls
    /\ call' = call + 1
    /\ work' = <<Whole(call + 1)>>
    /\ attempt' = 1
    /\ pc' = "direct"
    /\ UNCHANGED <<splitFactor, table, limbo, dlq, faults>>

-----------------------------------------------------------------------------
Producer ==
    \/ InsertOk
    \/ DirectRejected
    \/ SplitChunk
    \/ SplitFails
    \/ ToDlq
    \/ FlushDlq
    \/ CallAgain

Next == Producer \/ ReportDlq \/ LandLate \/ InsertFails \/ DlqFails

Spec == Init /\ [][Next]_vars

\* The call runs on, and the DLQ's producer hears of every row it holds; the
\* server need not ever get to a block it was left with.
FairSpec == Spec /\ WF_vars(Producer) /\ WF_vars(ReportDlq)

-----------------------------------------------------------------------------
(***************************************************************************)
(* Properties.                                                             *)
(***************************************************************************)
Chunk == [first : 1..Rows, len : 1..Rows, token : Seq(Nat)]

TypeOK ==
    /\ splitFactor \in SplitFactors
    /\ pc \in {"direct", "descend", "flush", "returned", "raised"}
    /\ call \in 1..MaxCalls
    /\ work \in Seq(Chunk)
    /\ Inserting => work # <<>>
    /\ attempt \in 1..InsertAttempts
    /\ table \subseteq [row : 1..Rows, chunk : Chunk] /\ limbo \subseteq Chunk
    /\ dlq \in Seq([call : 1..MaxCalls, row : 1..Rows,
                    fate : {"out", "there", "lost"}])
    /\ faults \in 0..MaxFaults

OfCall(x, n) == x.chunk.token[1] = n

\* One chunk was rejected, and the other split from it.
SplitFrom(parent, child) ==
    /\ Rejects(parent)
    /\ Len(parent.token) < Len(child.token)
    /\ \A i \in 1..Len(parent.token) : child.token[i] = parent.token[i]

\* One call puts a row into the table once, whatever was retried, sent again as
\* a whole, or landed after the client gave it up, with one exception: a chunk
\* the server rejects after it has written some of its rows, which go in again
\* with a chunk split from it (produce_arrow: "One identity per logical insert,
\* shared by every retry"; _insert_with_dlq_fallback: a token for each child).
OnceUnlessSplit ==
    \A x, y \in table :
        x # y /\ x.row = y.row /\ x.chunk.token[1] = y.chunk.token[1] =>
            SplitFrom(x.chunk, y.chunk) \/ SplitFrom(y.chunk, x.chunk)

\* Only rows ClickHouse rejected are filed in the DLQ, each once per call: a
\* failing server never empties good rows into it
\* (_insert_with_dlq_fallback).
DlqHoldsBadRows ==
    /\ \A i \in 1..Len(dlq) : dlq[i].row \in Bad
    /\ \A i, j \in 1..Len(dlq) :
          dlq[i].call = dlq[j].call /\ dlq[i].row = dlq[j].row => i = j

DlqRows(n, fates) ==
    {dlq[i].row : i \in {j \in 1..Len(dlq) : dlq[j].call = n /\ dlq[j].fate \in fates}}

\* A call that returns has put every row in its place, the good ones in the
\* table and the bad ones in the DLQ, although the slices of an uneven split
\* differ in length, a failure cuts the descent short, and reports of an earlier
\* call are still coming.  No report of a bad row is out: it is delivered, or
\* was lost (the node commits on it: wait_delivered is always True).
ReturnedMeansPlaced ==
    pc = "returned" =>
        /\ {x.row : x \in {y \in table : OfCall(y, call)}} = (1..Rows) \ Bad
        /\ DlqRows(call, {"there", "lost"}) = Bad

\* With a split_factor that makes chunks smaller, the split ends and the batch is
\* placed, once failures have stopped.
BatchIsPlaced == splitFactor >= 2 ~> pc = "returned"

\* When a call returns, so that the batch is committed, every bad row has reached
\* the DLQ, in this call or an earlier one: "the DLQ is at-least-once, like the
\* output" (tkati-core/README.md:459).
DlqAtLeastOnce ==
    pc = "returned" => Bad \subseteq UNION {DlqRows(n, {"there"}) : n \in 1..call}

=============================================================================
