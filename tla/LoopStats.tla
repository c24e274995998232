------------------------------- MODULE LoopStats -------------------------------
(***************************************************************************)
(* PhaseStats and LoopStats of tkati_core/stats.py: what a node counts     *)
(* about itself.  The loop thread counts rows after each commit without    *)
(* the lock and, when a report is due, logs the interval and folds it into *)
(* the running totals under the lock.  Two more threads meet it there: a   *)
(* node's reader records the phases of `read_stats`, which the loop thread *)
(* resets, and the metrics server reads the totals of `stats`.  The module *)
(* gives one object both.                                                  *)
(*                                                                         *)
(* Every batch counts RowsIn rows in and RowsOut rows out, every recorded  *)
(* phase takes one second, so what was lost or counted twice shows.        *)
(***************************************************************************)
EXTENDS Naturals

CONSTANTS
    RowsIn, RowsOut,   \* rows of one batch, in and out
    MaxBatches,        \* bound: batches committed
    MaxRecords,        \* bound: phases recorded
    MaxReports,        \* bound: reports logged
    MaxScrapes         \* bound: scrapes answered

ASSUME StatsConstants ==
    /\ RowsIn \in Nat /\ RowsOut \in Nat
    /\ MaxBatches \in Nat /\ MaxRecords \in Nat
    /\ MaxReports \in Nat /\ MaxScrapes \in Nat

VARIABLES
    lock,        \* _lock: which thread holds it, "free" if none
    interval,    \* rows_in, rows_out and phase_sec since the last reset
    total,       \* _total_rows_in, _total_rows_out, _total_phase_sec
    loop,        \* where the loop thread is
    recorder,    \* where the recording thread is
    recorded,    \* the sum record() has read and not yet written back
    scraper,     \* where the metrics server is
    scrape,      \* what its totals() has read so far
    last,        \* the scrape answered before
    \* What really happened, for the properties: the code does not keep it.
    batches, records, reports, scrapes, logged, since

statsVars == <<lock, interval, total, loop, recorder, recorded, scraper, scrape,
               last, batches, records, reports, scrapes, logged, since>>

loopVars     == <<loop, batches, reports, logged>>
recorderVars == <<recorder, recorded, records>>
scrapeVars   == <<scraper, scrape, last, scrapes, since>>

Zero == [in |-> 0, out |-> 0, sec |-> 0]
Plus(a, b) == [in |-> a.in + b.in, out |-> a.out + b.out, sec |-> a.sec + b.sec]

StatsInit ==
    /\ lock = "free"
    /\ interval = Zero /\ total = Zero
    /\ loop = "idle" /\ recorder = "idle" /\ scraper = "idle"
    /\ recorded = 0
    /\ scrape = Zero /\ last = Zero
    /\ batches = 0 /\ records = 0 /\ reports = 0 /\ scrapes = 0
    /\ logged = Zero /\ since = Zero

Acquire(thread) == lock = "free" /\ lock' = thread
Release == lock' = "free"

-----------------------------------------------------------------------------
(***************************************************************************)
(* The loop thread.                                                        *)
(***************************************************************************)

\* After the commit of a batch: rows_in, and then rows_out.
CountIn ==
    /\ loop = "idle"
    /\ batches < MaxBatches
    /\ interval' = [interval EXCEPT !.in = @ + RowsIn]
    /\ loop' = "counting"
    /\ UNCHANGED <<lock, total, recorderVars, scrapeVars, batches, reports, logged>>

CountOut ==
    /\ loop = "counting"
    /\ interval' = [interval EXCEPT !.out = @ + RowsOut]
    /\ batches' = batches + 1
    /\ loop' = "idle"
    /\ UNCHANGED <<lock, total, recorderVars, scrapeVars, reports, logged>>

\* report(): the interval is logged without the lock, and then reset.
LogInterval ==
    /\ loop = "idle"
    /\ reports < MaxReports
    /\ reports' = reports + 1
    /\ logged' = Plus(logged, interval)
    /\ loop' = "reset"
    /\ UNCHANGED <<lock, interval, total, recorderVars, scrapeVars, batches>>

\* reset() takes the lock, folds the phases and restarts them, adds the rows to
\* the totals, and restarts their counters.
FoldPhases ==
    /\ loop = "reset"
    /\ Acquire("loop")
    /\ total' = [total EXCEPT !.sec = @ + interval.sec]
    /\ interval' = [interval EXCEPT !.sec = 0]
    /\ loop' = "fold"
    /\ UNCHANGED <<recorderVars, scrapeVars, batches, reports, logged>>

FoldRows ==
    /\ loop = "fold"
    /\ total' = [total EXCEPT !.in = @ + interval.in, !.out = @ + interval.out]
    /\ loop' = "restart"
    /\ UNCHANGED <<lock, interval, recorderVars, scrapeVars, batches, reports,
                   logged>>

\* Mutation of RestartRows: rows_out goes on counting.
RestartRowsIn ==
    /\ loop = "restart"
    /\ interval' = [interval EXCEPT !.in = 0]
    /\ Release
    /\ loop' = "idle"
    /\ UNCHANGED <<total, recorderVars, scrapeVars, batches, reports, logged>>

RestartRows ==
    /\ loop = "restart"
    /\ interval' = [interval EXCEPT !.in = 0, !.out = 0]
    /\ Release
    /\ loop' = "idle"
    /\ UNCHANGED <<total, recorderVars, scrapeVars, batches, reports, logged>>

-----------------------------------------------------------------------------
(***************************************************************************)
(* The thread that records a phase: get, then set, under the lock.         *)
(***************************************************************************)
\* Mutation of RecordGet: the sum is read without the lock.
RecordGetUnlocked ==
    /\ recorder = "idle"
    /\ records < MaxRecords
    /\ recorded' = interval.sec
    /\ recorder' = "set"
    /\ UNCHANGED <<lock, interval, total, loopVars, scrapeVars, records>>

RecordGet ==
    /\ recorder = "idle"
    /\ records < MaxRecords
    /\ Acquire("recorder")
    /\ recorded' = interval.sec
    /\ recorder' = "set"
    /\ UNCHANGED <<interval, total, loopVars, scrapeVars, records>>

RecordSet ==
    /\ recorder = "set"
    /\ interval' = [interval EXCEPT !.sec = recorded + 1]
    /\ Release
    /\ records' = records + 1
    /\ recorder' = "idle"
    /\ UNCHANGED <<total, loopVars, scrapeVars, recorded>>

-----------------------------------------------------------------------------
(***************************************************************************)
(* The metrics server: totals() reads one thing after another.             *)
(***************************************************************************)

\* All that has been counted, whatever the object says.
Counted ==
    [in  |-> RowsIn * (batches + IF loop = "counting" THEN 1 ELSE 0),
     out |-> RowsOut * batches,
     sec |-> records]

\* Mutation of ScrapePhases: the totals are read without the lock.
ScrapePhasesUnlocked ==
    /\ scraper = "idle"
    /\ scrapes < MaxScrapes
    /\ scrape' = [Zero EXCEPT !.sec = total.sec + interval.sec]
    /\ since' = Counted
    /\ scraper' = "in"
    /\ UNCHANGED <<lock, interval, total, loopVars, recorderVars, last, scrapes>>

ScrapePhases ==
    /\ scraper = "idle"
    /\ scrapes < MaxScrapes
    /\ Acquire("scraper")
    /\ scrape' = [Zero EXCEPT !.sec = total.sec + interval.sec]
    /\ since' = Counted
    /\ scraper' = "in"
    /\ UNCHANGED <<interval, total, loopVars, recorderVars, last, scrapes>>

ScrapeIn ==
    /\ scraper = "in"
    /\ scrape' = [scrape EXCEPT !.in = total.in + interval.in]
    /\ scraper' = "out"
    /\ UNCHANGED <<lock, interval, total, loopVars, recorderVars, last, scrapes,
                   since>>

ScrapeOut ==
    /\ scraper = "out"
    /\ scrape' = [scrape EXCEPT !.out = total.out + interval.out]
    /\ Release
    /\ scraper' = "answer"
    /\ UNCHANGED <<interval, total, loopVars, recorderVars, last, scrapes, since>>

Answer ==
    /\ scraper = "answer"
    /\ last' = scrape
    /\ scrapes' = scrapes + 1
    /\ scraper' = "idle"
    /\ UNCHANGED <<lock, interval, total, loopVars, recorderVars, scrape, since>>

-----------------------------------------------------------------------------
StatsNext ==
    \/ CountIn
    \/ CountOut
    \/ LogInterval
    \/ FoldPhases
    \/ FoldRows
    \/ RestartRows
    \/ RecordGet
    \/ RecordSet
    \/ ScrapePhases
    \/ ScrapeIn
    \/ ScrapeOut
    \/ Answer

StatsSpec == StatsInit /\ [][StatsNext]_statsVars

-----------------------------------------------------------------------------
(***************************************************************************)
(* Properties.                                                             *)
(***************************************************************************)
Counts == [in : Nat, out : Nat, sec : Nat]

AtMost(a, b) == a.in <= b.in /\ a.out <= b.out /\ a.sec <= b.sec

StatsTypeOK ==
    /\ lock \in {"free", "loop", "recorder", "scraper"}
    /\ interval \in Counts /\ total \in Counts
    /\ loop \in {"idle", "counting", "reset", "fold", "restart"}
    /\ recorder \in {"idle", "set"}
    /\ recorded \in Nat
    /\ scraper \in {"idle", "in", "out", "answer"}
    /\ scrape \in Counts /\ last \in Counts
    /\ batches \in 0..MaxBatches /\ records \in 0..MaxRecords
    /\ reports \in 0..MaxReports /\ scrapes \in 0..MaxScrapes
    /\ logged \in Counts /\ since \in Counts

\* Whenever no fold is going on, interval and totals together are what was
\* counted: no phase and no row is lost or kept twice by a reset that races
\* record() (PhaseStats.record, PhaseStats.reset).
NothingLostOrTwice ==
    loop \notin {"fold", "restart"} =>
        Plus(total, interval) = Counted

\* A scrape reports what had been counted at some moment of it: no less than
\* when it began, no more than there is now, so an interval that is just being
\* folded is in it exactly once (LoopStats.totals).
ScrapeIsCurrent ==
    scraper = "answer" => AtMost(since, scrape) /\ AtMost(scrape, Counted)

\* The rows a perf line calls dropped are exact: each line counts whole
\* batches, in and out, and no batch is in two lines or in none
\* (LoopStats.report, _NodeBase._commit).
LoggedRowsAreExact ==
    loop = "idle" =>
        /\ logged.in = total.in /\ logged.out = total.out
        /\ \E n \in 0..batches : logged.in = n * RowsIn /\ logged.out = n * RowsOut

=============================================================================
