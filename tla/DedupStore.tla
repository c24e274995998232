------------------------------ MODULE DedupStore ------------------------------
(***************************************************************************)
(* BucketedDedupStore of tkati_node_dedup/store.py: the keys a node has    *)
(* seen, in one RocksDB database per span of wall-clock time, kept for as  *)
(* long as the span is inside the window.  RocksDB is external: a database *)
(* that is closed in order keeps its keys, one whose process is killed may *)
(* lose those it had not flushed.                                          *)
(*                                                                         *)
(* Time passes in ticks.  A failure of RocksDB is logged and means "not    *)
(* seen" or "not stored", it is never raised.                              *)
(***************************************************************************)
EXTENDS Naturals

CONSTANTS
    Key,           \* dedup keys
    BucketTicks,   \* bucket_seconds
    WindowTicks,   \* window_hours, in the same unit
    MaxTime        \* bound: the clock stops here

ASSUME StoreConstants ==
    /\ BucketTicks \in Nat \ {0}
    /\ WindowTicks \in Nat \ {0}
    /\ MaxTime \in Nat

VARIABLES
    now,       \* _now()
    open,      \* _dbs: the buckets with an open database
    dirs,      \* the bucket directories on disk
    stored,    \* the keys of each bucket, as a lookup finds them
    flushed    \* those of them a killed process does not lose

storeVars == <<now, open, dirs, stored, flushed>>

BucketIndex(t) == t \div BucketTicks
Bucket == 0 .. BucketIndex(MaxTime)

\* math.ceil(window_hours / bucket_hours)
NumBuckets == (WindowTicks + BucketTicks - 1) \div BucketTicks

\* min_live = current - num_buckets + 1, without going below zero
Live(b) == b + NumBuckets > BucketIndex(now)

StoreTypeOK ==
    /\ now \in 0..MaxTime
    /\ dirs \subseteq Bucket
    /\ open \subseteq dirs
    /\ stored \in [Bucket -> SUBSET Key]
    /\ flushed \in [Bucket -> SUBSET Key]

StoreInit ==
    /\ now = 0
    /\ open = {} /\ dirs = {}
    /\ stored = [b \in Bucket |-> {}]
    /\ flushed = [b \in Bucket |-> {}]

-----------------------------------------------------------------------------
\* The keys of the buckets that stay; a deleted bucket has none.
KeepOnly(kept) ==
    /\ dirs' = kept
    /\ stored' = [b \in Bucket |-> IF b \in kept THEN stored[b] ELSE {}]
    /\ flushed' = [b \in Bucket |-> IF b \in kept THEN flushed[b] ELSE {}]

\* _recover_existing_buckets: stale buckets are deleted, the others opened, but
\* for those in broken.
Recover(broken) ==
    /\ KeepOnly({b \in dirs : Live(b)})
    /\ open' = dirs' \ broken
    /\ UNCHANGED now

\* cleanup_expired: closes and deletes what fell out of the window, and sweeps
\* the directories it has not open.
CleanupExpired ==
    /\ open' = {b \in open : Live(b)}
    /\ KeepOnly({b \in dirs : Live(b)})
    /\ UNCHANGED now

\* _batch_contains: a bucket whose lookup fails is skipped.
Seen(k, broken) == \E b \in open \ broken : k \in stored[b]

\* add_many, into the bucket of this moment, which is opened if need be.
AddMany(keys) ==
    LET b == BucketIndex(now)
    IN  IF keys = {} THEN UNCHANGED storeVars
        ELSE /\ open' = open \cup {b}
             /\ dirs' = dirs \cup {b}
             /\ stored' = [stored EXCEPT ![b] = @ \cup keys]
             /\ UNCHANGED <<now, flushed>>

\* add_many when the write fails: the bucket may have been opened all the same.
AddManyFails ==
    /\ \/ UNCHANGED <<open, dirs>>
       \/ /\ open' = open \cup {BucketIndex(now)}
          /\ dirs' = dirs \cup {BucketIndex(now)}
    /\ UNCHANGED <<now, stored, flushed>>

\* Mutation of CloseStore: the buckets are closed without a flush.
CloseStoreUnflushed ==
    /\ stored' = flushed
    /\ open' = {}
    /\ UNCHANGED <<now, dirs, flushed>>

\* close() flushes every open bucket before it closes it.
CloseStore ==
    /\ flushed' = [b \in Bucket |-> IF b \in open THEN stored[b] ELSE flushed[b]]
    /\ stored' = flushed'
    /\ open' = {}
    /\ UNCHANGED <<now, dirs>>

\* The process is killed: of what was not flushed, RocksDB may have written any
\* part by itself.
KillStore ==
    /\ stored' \in [Bucket -> SUBSET Key]
    /\ \A b \in Bucket : flushed[b] \subseteq stored'[b] /\ stored'[b] \subseteq stored[b]
    /\ flushed' = stored'
    /\ open' = {}
    /\ UNCHANGED <<now, dirs>>

=============================================================================
