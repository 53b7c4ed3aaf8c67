---------------------------- MODULE IngestBatch ----------------------------
(***************************************************************************)
(* The archive loops of ingest-worker: ticks (main) and bars               *)
(* (runKlineArchive) into ClickHouse, alerts (runAlertArchive) into Doris. *)
(* Each reads its topic into a batch and inserts it when it is long        *)
(* enough; for ticks and bars a timer goroutine inserts the same slice as  *)
(* well, with no lock.  The loops share nothing, so a behaviour is that of *)
(* one of them, of the kind chosen in Init.                                *)
(*                                                                         *)
(* A flush is: take the slice -> insert -> on success empty the slice      *)
(* (-> bars: commit the last message read).                                *)
(***************************************************************************)
EXTENDS Integers, FiniteSets, Sequences, FiniteSetsExt

CONSTANTS
    Partitions,
    Log,            \* Log[p]: "row" or "bad" for each message
    BatchSize,
    MaxFaults       \* bound: failing calls, exits

ASSUME IngestAssumption ==
    /\ \A p \in Partitions : Log[p] \in Seq({"row", "bad"})
    /\ BatchSize \in Nat \ {0} /\ MaxFaults \in Nat

Kinds == {"ticks", "bars", "alerts"}

Messages == UNION {{p} \X DOMAIN Log[p] : p \in Partitions}

VARIABLES
    kind,
    pos, committed, \* messages fetched and committed of each partition
    pc, hand, seen, \* loop: where it is, its message, the slice it appends to
    batch,
    pending,        \* ticks: pending; bars, alerts: {last}, or {}
    flush, rows,    \* flush[f], rows[f]: the flush of the loop and of the timer
    sink,           \* does the process have a store? (ticks go on without one)
    stored,         \* messages whose row is in ClickHouse or Doris
    overlapped,     \* messages appended while a flush was running
    unstored,       \* messages of a failed insert, or flushed without a store
    faults          \* what is left of the bound

log    == <<pos, committed>>
loop   == <<pc, hand, seen>>
flows  == <<flush, rows>>
ghosts == <<overlapped, unstored>>
vars   == <<kind, log, loop, batch, pending, flows, sink, stored, ghosts, faults>>

Flushers == {"loop", "timer"}
NoMessage == <<>>
Idle == [f \in Flushers |-> "idle"]

Init ==
    /\ kind \in Kinds
    /\ pos = [p \in Partitions |-> 0] /\ committed = pos
    /\ pc = "fetch" /\ hand = NoMessage /\ seen = {}
    /\ batch = {} /\ pending = {}
    /\ flush = Idle /\ rows = [f \in Flushers |-> {}]
    /\ sink = TRUE
    /\ stored = {} /\ overlapped = {} /\ unstored = {}
    /\ faults = MaxFaults

Fault == faults > 0 /\ faults' = faults - 1

\* CommitMessages: the highest message of each partition.
Commits(M) == committed' = [p \in Partitions |->
                              Max({committed[p]} \cup {m[2] : m \in {m \in M : m[1] = p}})]

\* ... its error is dropped.
TryCommit(M) == \/ Commits(M) /\ UNCHANGED faults
                \/ Fault /\ UNCHANGED committed
-----------------------------------------------------------------------------
(* The consuming loop                                                      *)

\* FetchMessage; what cannot be decoded is committed at once.
Fetch(p) ==
    /\ pc = "fetch" /\ pos[p] < Len(Log[p])
    /\ pos' = [pos EXCEPT ![p] = @ + 1]
    /\ LET m == <<p, pos[p] + 1>>
       IN \/ /\ Log[p][m[2]] = "bad" /\ TryCommit({m})
             /\ UNCHANGED loop
          \/ /\ Log[p][m[2]] = "row"
             /\ hand' = m /\ seen' = batch /\ pc' = "append"
             /\ UNCHANGED <<committed, faults>>
    /\ UNCHANGED <<kind, batch, pending, flows, sink, stored, ghosts>>

\* batch = append(batch, row): the slice it read, and the row, whatever the
\* timer has done to the variable in between.
AppendRow ==
    /\ pc = "append" /\ pc' = "check"
    /\ batch' = seen \cup {hand}
    /\ pending' = IF kind = "ticks" THEN pending \cup {hand} ELSE {hand}
    /\ overlapped' = IF flush = Idle THEN overlapped ELSE overlapped \cup {hand}
    /\ hand' = NoMessage /\ seen' = {}
    /\ UNCHANGED <<kind, log, flows, sink, stored, unstored, faults>>

Start(f) == /\ flush' = [flush EXCEPT ![f] = "insert"]
            /\ rows' = [rows EXCEPT ![f] = batch]
            /\ UNCHANGED <<batch, unstored>>

\* flush without ClickHouse: the batch is dropped.
DropBatch == batch' = {} /\ unstored' = unstored \cup batch /\ UNCHANGED flows

\* A batch that is long enough is flushed; only then ticks are committed.
Check ==
    /\ pc = "check"
    /\ IF Cardinality(batch) < BatchSize
       THEN pc' = "fetch" /\ UNCHANGED <<flows, batch, unstored>>
       ELSE IF sink THEN pc' = "flush" /\ Start("loop")
                    ELSE pc' = "commit" /\ DropBatch
    /\ UNCHANGED <<kind, log, hand, seen, pending, sink, stored, overlapped, faults>>

\* The context is done: ticks are flushed, with that context, and committed;
\* the other loops return.
Stop ==
    /\ kind = "ticks" /\ pc = "fetch" /\ Fault
    /\ IF batch = {} THEN pc' = "commit last" /\ UNCHANGED <<flows, batch, unstored>>
       ELSE IF sink THEN pc' = "flush last" /\ Start("loop")
                    ELSE pc' = "commit last" /\ DropBatch
    /\ UNCHANGED <<kind, log, hand, seen, pending, sink, stored, overlapped>>

\* commitAll
CommitAll ==
    /\ kind = "ticks" /\ pc \in {"commit", "commit last"}
    /\ TryCommit(pending) /\ pending' = {}
    /\ pc' = IF pc = "commit" THEN "fetch" ELSE "stopped"
    /\ UNCHANGED <<kind, pos, hand, seen, batch, flows, sink, stored, ghosts>>
-----------------------------------------------------------------------------
(* flush                                                                   *)

Stopping == pc \in {"flush last", "commit last", "stopped"}

FullBatch == Cardinality(batch) >= BatchSize   \* (mutant) the timer waits as well
SomeBatch == batch # {}

TimerFlush ==
    /\ kind # "alerts" /\ flush["timer"] = "idle" /\ SomeBatch /\ ~Stopping
    /\ IF sink THEN Start("timer") ELSE DropBatch
    /\ UNCHANGED <<kind, log, loop, pending, sink, stored, overlapped, faults>>

\* The loop goes on once its own flush is over.
Then(f, next) == pc' = IF f = "timer" THEN pc
                       ELSE IF pc = "flush last" THEN "commit last" ELSE next

Becomes(f, l) == flush' = [flush EXCEPT ![f] = l] /\ rows' = [rows EXCEPT ![f] = {}]

\* batch[:0]: with whatever was appended since the slice was taken.
Inserted(f) ==
    /\ flush[f] = "insert"
    /\ stored' = stored \cup rows[f]
    /\ batch' = {}
    /\ IF kind = "bars" THEN Becomes(f, "commit") /\ UNCHANGED pc
                        ELSE Becomes(f, "idle") /\ Then(f, "commit")
    /\ UNCHANGED <<kind, log, hand, seen, pending, sink, ghosts, faults>>

FailedCommits == "commit"     \* (mutant) a failed batch is committed
FailedNext == IF kind = "ticks" THEN "commit" ELSE "fetch"

\* The batch is kept.  The error may come from the answer alone, and the last
\* flush has a context that is done.
InsertFails(f) ==
    /\ flush[f] = "insert"
    /\ IF pc = "flush last" /\ f = "loop" THEN UNCHANGED faults ELSE Fault
    /\ stored' \in {stored, stored \cup rows[f]}
    /\ unstored' = unstored \cup rows[f]
    /\ Becomes(f, "idle") /\ Then(f, FailedNext)
    /\ UNCHANGED <<kind, log, hand, seen, batch, pending, sink, overlapped>>

\* CommitMessages(last): bars by whoever flushed, alerts by the loop.
CommitLast(f) ==
    /\ \/ kind = "bars" /\ flush[f] = "commit"
       \/ kind = "alerts" /\ f = "loop" /\ pc = "commit"
    /\ TryCommit(pending)
    /\ Becomes(f, "idle") /\ Then(f, "fetch")
    /\ UNCHANGED <<kind, pos, hand, seen, batch, pending, sink, stored, ghosts>>
-----------------------------------------------------------------------------
\* A stopped or crashed process is started again, with ClickHouse or without.
Restart ==
    /\ \/ pc = "stopped" /\ flush["timer"] = "idle" /\ UNCHANGED faults
       \/ pc # "stopped" /\ Fault
    /\ sink' \in IF kind = "ticks" THEN BOOLEAN ELSE {TRUE}
    /\ pos' = committed
    /\ pc' = "fetch" /\ hand' = NoMessage /\ seen' = {}
    /\ batch' = {} /\ pending' = {}
    /\ flush' = Idle /\ rows' = [f \in Flushers |-> {}]
    /\ UNCHANGED <<kind, committed, stored, ghosts>>

Loop == (\E p \in Partitions : Fetch(p)) \/ AppendRow \/ Check \/ CommitAll
        \/ Inserted("loop") \/ InsertFails("loop") \/ CommitLast("loop")
Timer == TimerFlush \/ Inserted("timer") \/ InsertFails("timer") \/ CommitLast("timer")

Next == Loop \/ Timer \/ Stop \/ Restart

Spec == Init /\ [][Next]_vars

\* Goroutines run, the ticker fires, and the stores answer.
FairSpec == Spec /\ WF_vars(Loop) /\ WF_vars(Timer)
-----------------------------------------------------------------------------
Covered(m) == m[2] <= committed[m[1]]
IsRow(m) == Log[m[1]][m[2]] = "row"

\* A bad message was committed over it (the loops commit it at once, with
\* whatever rows are in the batch).
BadAfter(m) == \E o \in (m[2] + 1)..committed[m[1]] : Log[m[1]][o] = "bad"

\* These are all the ways to lose a row whose offset is committed: a bad
\* message behind it, an append that overlapped a flush, or (ticks only) an
\* insert that failed or was left out.
LossIsExplained ==
    \A m \in Messages : IsRow(m) /\ Covered(m) =>
        \/ m \in stored \/ BadAfter(m)
        \/ m \in overlapped /\ kind # "alerts"
        \/ m \in unstored /\ kind = "ticks"

\* Once nothing fails, the timer stores what the batch is too short for:
\* every tick and bar in it, unless its append overlapped a flush.
BatchIsStored ==
    \A m \in Messages :
        faults = 0 /\ m \in batch /\ kind # "alerts" /\ sink /\ ~Stopping ~> m \in stored \cup overlapped
=============================================================================
