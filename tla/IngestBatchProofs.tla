------------------------- MODULE IngestBatchProofs -------------------------
(***************************************************************************)
(* A theorem about IngestBatch, for any partitions, logs and batch size,   *)
(* and any number of faults.                                               *)
(***************************************************************************)
EXTENDS IngestBatch, WellFoundedInduction, TLAPS

-----------------------------------------------------------------------------
Types ==
    /\ kind \in Kinds
    /\ pos \in [Partitions -> Nat] /\ committed \in [Partitions -> Nat]
    /\ flush \in [Flushers -> {"idle", "insert", "commit"}]
    /\ rows \in [Flushers -> SUBSET Messages]
    /\ batch \subseteq Messages /\ seen \subseteq Messages
    /\ pending \subseteq Messages

\* Where the loop is: it has a message and the slice to append to only on its
\* way to the append, and then no flush of its own; the timer has none for
\* alerts, and only ticks do without a store.
LoopInv ==
    /\ pc = "append" => /\ hand \in Messages /\ hand[2] = pos[hand[1]]
                        /\ flush["loop"] = "idle"
                        /\ batch \in {{}, seen}
    /\ pc # "append" => hand = NoMessage /\ seen = {}
    /\ flush["loop"] # "idle" => pc \in {"flush", "flush last"}
    /\ kind = "alerts" => flush["timer"] = "idle" /\ overlapped = {}
    /\ kind # "ticks" => sink
    /\ pc \in {"flush last", "commit last"} => kind = "ticks"

\* What may be committed has been fetched and is not in hand.
PendingInv ==
    \A m \in pending : m[2] <= pos[m[1]] /\ (hand # NoMessage => m # hand)

\* A row that is stored, or that the loss of is explained by.
Excused ==
    stored \cup (IF kind = "alerts" THEN {} ELSE overlapped)
           \cup (IF kind = "ticks" THEN unstored ELSE {})

\* What a flush that ends well empties is what it inserted, or excused; once
\* it has, nothing else is left.
FlushInv ==
    \A f \in Flushers :
        /\ flush[f] = "insert" => batch \cup seen \subseteq rows[f] \cup Excused
        /\ flush[f] = "commit" => batch \cup seen \subseteq Excused

\* Ticks and alerts are committed when what is left in the batch is excused.
CommitInv ==
    pc \in {"commit", "commit last"} => batch \subseteq Excused

Accounted(m) == m \in Excused \/ BadAfter(m)

\* Every row that was fetched is accounted for or still in the process; one
\* that is committed is accounted for.
RowInv ==
    \A m \in Messages : IsRow(m) =>
        /\ m[2] <= pos[m[1]] => Accounted(m) \/ m \in batch \cup seen \cup {hand}
        /\ m[2] <= committed[m[1]] => Accounted(m)

LossInv == Types /\ LoopInv /\ PendingInv /\ FlushInv /\ CommitInv /\ RowInv

-----------------------------------------------------------------------------
(* Numbers and messages                                                    *)

LEMMA LeastNat == ASSUME NEW S \in SUBSET Nat, S # {}
                  PROVE  \E x \in S : \A y \in S : x <= y
<1>. DEFINE Less == {ss \in Nat \X Nat : ss[1] < ss[2]}
<1>1. IsWellFoundedOn(Less, Nat)
  BY NatLessThanWellFounded DEF OpToRel
<1>. HIDE DEF Less
<1>2. PICK x \in S : \A y \in S : ~ (<<y, x>> \in Less)
  BY <1>1, WFMin
<1>3. ASSUME NEW y \in S PROVE ~(y < x)
  <2>1. y < x => <<y, x>> \in Less
    BY DEF Less
  <2>. QED
    BY <1>2, <2>1
<1>. QED
  BY <1>3

LEMMA MaxOfBounded ==
  ASSUME NEW n \in Nat, NEW S \in SUBSET (0..n), S # {}
  PROVE  Max(S) \in S /\ \A y \in S : Max(S) >= y
<1>. DEFINE T == {n - x : x \in S}
<1>1. T \in SUBSET Nat /\ T # {}
  <2>1. PICK x \in S : TRUE
    OBVIOUS
  <2>2. n - x \in T
    BY <2>1
  <2>3. \A y \in S : n - y \in Nat
    OBVIOUS
  <2>. QED
    BY <2>2, <2>3
<1>2. \E t \in T : \A u \in T : t <= u
  <2>. HIDE DEF T
  <2>. QED
    BY <1>1, LeastNat
<1>3. PICK x \in S : \A y \in S : n - x <= n - y
  BY <1>2
<1>4. ASSUME NEW y \in S PROVE x >= y
  BY <1>3
<1>. QED
  BY <1>4 DEF Max

LEMMA MessageType ==
  ASSUME NEW m \in Messages
  PROVE  /\ m[1] \in Partitions /\ m[2] \in Nat /\ m = <<m[1], m[2]>>
         /\ m # NoMessage
         /\ Len(Log[m[1]]) \in Nat /\ m[2] <= Len(Log[m[1]])
<1>1. PICK p \in Partitions : \E o \in DOMAIN Log[p] : m = <<p, o>>
  BY DEF Messages
<1>2. PICK o \in DOMAIN Log[p] : m = <<p, o>>
  BY <1>1
<1>3. Log[p] \in Seq({"row", "bad"})
  BY IngestAssumption
<1>4. o \in 1..Len(Log[p]) /\ Len(Log[p]) \in Nat
  BY <1>3
<1>. QED
  BY <1>2, <1>4 DEF NoMessage

LEMMA FetchedIsMessage ==
  ASSUME NEW p \in Partitions, pos[p] \in Nat, pos[p] < Len(Log[p])
  PROVE  <<p, pos[p] + 1>> \in Messages
<1>1. Log[p] \in Seq({"row", "bad"})
  BY IngestAssumption
<1>2. pos[p] + 1 \in DOMAIN Log[p]
  BY <1>1
<1>. QED
  BY <1>2 DEF Messages

\* CommitMessages never goes back, and where it goes on it ends at one of the
\* messages.
LEMMA CommitForward ==
  ASSUME Types, NEW M \in SUBSET Messages, TryCommit(M)
  PROVE  /\ committed' \in [Partitions -> Nat]
         /\ \A p \in Partitions :
               \/ committed'[p] = committed[p]
               \/ /\ committed'[p] > committed[p]
                  /\ \E m \in M : m[1] = p /\ m[2] = committed'[p]
<1>1. CASE UNCHANGED committed
  BY <1>1 DEF Types
<1>2. CASE Commits(M)
  <2>1. ASSUME NEW p \in Partitions
        PROVE  /\ committed'[p] \in Nat
               /\ \/ committed'[p] = committed[p]
                  \/ /\ committed'[p] > committed[p]
                     /\ \E m \in M : m[1] = p /\ m[2] = committed'[p]
    <3>. DEFINE S == {committed[p]} \cup {m[2] : m \in {m \in M : m[1] = p}}
                n == committed[p] + Len(Log[p])
    <3>1. committed[p] \in Nat
      BY DEF Types
    <3>2. Len(Log[p]) \in Nat
      <4>1. Log[p] \in Seq({"row", "bad"})
        BY IngestAssumption
      <4>. QED
        BY <4>1
    <3>3. ASSUME NEW m \in M, m[1] = p PROVE m[2] \in 0..n
      BY <3>1, <3>2, <3>3, MessageType
    <3>4. S \in SUBSET (0..n) /\ n \in Nat /\ committed[p] \in S
      BY <3>1, <3>2, <3>3
    <3>5. committed'[p] = Max(S)
      BY <1>2 DEF Commits
    <3>. HIDE DEF n
    <3>6. Max(S) \in S /\ Max(S) \in Nat /\ Max(S) >= committed[p]
      <4>. HIDE DEF S
      <4>1. Max(S) \in S /\ \A y \in S : Max(S) >= y
        BY <3>4, MaxOfBounded
      <4>2. Max(S) \in 0..n
        BY <3>4, <4>1
      <4>3. Max(S) >= committed[p]
        BY <3>4, <4>1
      <4>. QED
        BY <3>4, <4>1, <4>2, <4>3
    <3>7. Max(S) # committed[p] => \E m \in M : m[1] = p /\ m[2] = Max(S)
      BY <3>6
    <3>. HIDE DEF S
    <3>. QED
      BY <3>1, <3>5, <3>6, <3>7
  <2>2. committed' = [p \in Partitions |-> committed'[p]]
    BY <1>2 DEF Commits
  <2>. QED
    BY <2>1, <2>2
<1>. QED
  BY <1>1, <1>2 DEF TryCommit

-----------------------------------------------------------------------------
(* The parts of the invariant, step by step                                *)

LEMMA LossInit == Init => LossInv
<1> SUFFICES ASSUME Init PROVE LossInv
  OBVIOUS
<1>1. Types
  BY DEF Init, Types, Idle, Kinds, Flushers
<1>2. LoopInv /\ PendingInv /\ FlushInv /\ CommitInv
  BY DEF Init, LoopInv, PendingInv, FlushInv, CommitInv, Idle, Flushers
<1>3. RowInv
  <2> SUFFICES ASSUME NEW m \in Messages PROVE ~(m[2] <= 0) /\ m[1] \in Partitions
    BY DEF Init, RowInv
  <2>1. PICK p \in Partitions : \E o \in DOMAIN Log[p] : m = <<p, o>>
    BY DEF Messages
  <2>2. Log[p] \in Seq({"row", "bad"})
    BY IngestAssumption
  <2>. QED
    BY <2>1, <2>2
<1>. QED
  BY <1>1, <1>2, <1>3 DEF LossInv

\* What excuses a row is never taken back.
LEMMA ExcusedGrows == [Next]_vars => kind' = kind /\ Excused \subseteq Excused'
<1> SUFFICES ASSUME [Next]_vars PROVE kind' = kind /\ Excused \subseteq Excused'
  OBVIOUS
<1>. DEFINE Kept == /\ kind' = kind /\ stored \subseteq stored'
                   /\ overlapped \subseteq overlapped' /\ unstored \subseteq unstored'
<1>1. Kept
  <2>1. ASSUME NEW p \in Partitions, Fetch(p) PROVE Kept
    BY <2>1 DEF Fetch, ghosts
  <2>2. CASE AppendRow
    BY <2>2 DEF AppendRow
  <2>3. CASE Check \/ Stop \/ TimerFlush
    BY <2>3 DEF Check, Stop, TimerFlush, Start, DropBatch
  <2>4. CASE CommitAll \/ Restart \/ UNCHANGED vars
    BY <2>4 DEF CommitAll, Restart, ghosts, vars
  <2>5. ASSUME NEW f \in Flushers, Inserted(f) \/ InsertFails(f) \/ CommitLast(f)
        PROVE  Kept
    BY <2>5 DEF Inserted, InsertFails, CommitLast, ghosts
  <2>. QED
    BY <2>1, <2>2, <2>3, <2>4, <2>5 DEF Next, Loop, Timer, Flushers
<1>. QED
  BY <1>1 DEF Excused

LEMMA TypesStep == LossInv /\ [Next]_vars => Types'
<1> SUFFICES ASSUME LossInv, [Next]_vars PROVE Types'
  OBVIOUS
<1>. USE DEF LossInv
<1>0. Types /\ hand \in {NoMessage} \cup Messages
  BY DEF LoopInv
<1>1. ASSUME NEW p \in Partitions, Fetch(p) PROVE Types'
  <2>1. pos' \in [Partitions -> Nat] /\ <<p, pos[p] + 1>> \in Messages
    BY <1>1, FetchedIsMessage DEF Fetch, Types
  <2>2. committed' \in [Partitions -> Nat]
    <3>1. CASE UNCHANGED committed
      BY <3>1 DEF Types
    <3>2. CASE TryCommit({<<p, pos[p] + 1>>})
      BY <2>1, <3>2, CommitForward
    <3>. QED
      BY <1>1, <3>1, <3>2 DEF Fetch
  <2>3. seen' \subseteq Messages
    BY <1>1 DEF Fetch, Types, loop
  <2>. QED
    BY <1>1, <2>1, <2>2, <2>3 DEF Fetch, Types, flows
<1>2. CASE AppendRow
  <2>1. hand \in Messages
    BY <1>2 DEF AppendRow, LoopInv
  <2>. QED
    BY <1>2, <2>1 DEF AppendRow, Types, log, flows
<1>3. CASE Check \/ Stop \/ TimerFlush
  <2>1. UNCHANGED <<kind, log, seen, pending>>
    BY <1>3 DEF Check, Stop, TimerFlush, loop
  <2>2. batch' \in {batch, {}}
    BY <1>3 DEF Check, Stop, TimerFlush, Start, DropBatch
  <2>3. \/ UNCHANGED flows
        \/ Start("loop") \/ Start("timer")
    BY <1>3 DEF Check, Stop, TimerFlush, DropBatch
  <2>4. flush' \in [Flushers -> {"idle", "insert", "commit"}] /\ rows' \in [Flushers -> SUBSET Messages]
    BY <2>3 DEF Start, flows, Types, Flushers
  <2>. QED
    BY <2>1, <2>2, <2>4 DEF Types, log
<1>4. CASE CommitAll
  <2>1. TryCommit(pending) /\ pending \in SUBSET Messages
    BY <1>4 DEF CommitAll, Types
  <2>2. committed' \in [Partitions -> Nat]
    BY <2>1, CommitForward
  <2>. QED
    BY <1>4, <2>2 DEF CommitAll, Types, flows
<1>5. ASSUME NEW f \in Flushers, Inserted(f) \/ InsertFails(f) PROVE Types'
  <2>1. UNCHANGED <<kind, log, seen, pending>> /\ batch' \in {batch, {}}
    BY <1>5 DEF Inserted, InsertFails
  <2>2. Becomes(f, "idle") \/ Becomes(f, "commit")
    BY <1>5 DEF Inserted, InsertFails
  <2>3. flush' \in [Flushers -> {"idle", "insert", "commit"}] /\ rows' \in [Flushers -> SUBSET Messages]
    BY <2>2 DEF Becomes, Types
  <2>. QED
    BY <2>1, <2>3 DEF Types, log
<1>6. ASSUME NEW f \in Flushers, CommitLast(f) PROVE Types'
  <2>1. TryCommit(pending) /\ pending \in SUBSET Messages
    BY <1>6 DEF CommitLast, Types
  <2>2. committed' \in [Partitions -> Nat]
    BY <2>1, CommitForward
  <2>3. flush' \in [Flushers -> {"idle", "insert", "commit"}] /\ rows' \in [Flushers -> SUBSET Messages]
    BY <1>6 DEF CommitLast, Becomes, Types
  <2>. QED
    BY <1>6, <2>2, <2>3 DEF CommitLast, Types
<1>7. CASE Restart
  BY <1>7 DEF Restart, Types, Idle
<1>8. CASE UNCHANGED vars
  BY <1>8 DEF vars, log, loop, flows, Types
<1>. QED
  BY <1>1, <1>2, <1>3, <1>4, <1>5, <1>6, <1>7, <1>8 DEF Next, Loop, Timer, Flushers

LEMMA LoopStep == LossInv /\ [Next]_vars => LoopInv'
<1> SUFFICES ASSUME LossInv, [Next]_vars PROVE LoopInv'
  OBVIOUS
<1>. USE DEF LossInv, LoopInv
<1>0. flush \in [Flushers -> {"idle", "insert", "commit"}] /\ Flushers = {"loop", "timer"}
  BY DEF Types, Flushers
<1>1. ASSUME NEW p \in Partitions, Fetch(p) PROVE LoopInv'
  <2>1. pc = "fetch" /\ flush["loop"] = "idle"
    BY <1>1, <1>0 DEF Fetch
  <2>2. UNCHANGED <<kind, batch, flush, sink, overlapped>>
    BY <1>1 DEF Fetch, flows, ghosts
  <2>3. CASE UNCHANGED loop
    BY <2>1, <2>2, <2>3 DEF loop
  <2>4. CASE hand' = <<p, pos[p] + 1>> /\ seen' = batch /\ pc' = "append"
    <3>1. <<p, pos[p] + 1>> \in Messages /\ pos'[p] = pos[p] + 1
      BY <1>1, FetchedIsMessage DEF Fetch, Types
    <3>. QED
      BY <2>1, <2>2, <2>4, <3>1
  <2>. QED
    BY <1>1, <2>3, <2>4 DEF Fetch
<1>2. CASE AppendRow
  <2>1. flush' = flush /\ kind' = kind /\ sink' = sink
        /\ pc' = "check" /\ hand' = NoMessage /\ seen' = {}
    BY <1>2 DEF AppendRow, flows
  <2>2. pc = "append" /\ overlapped' = IF flush = Idle THEN overlapped ELSE overlapped \cup {hand}
    BY <1>2 DEF AppendRow
  <2>3. kind = "alerts" => flush = Idle
    BY <1>0, <2>2 DEF Idle
  <2>. QED
    BY <1>0, <2>1, <2>2, <2>3
<1>3. CASE Check
  BY <1>0, <1>3 DEF Check, Start, DropBatch, log, flows
<1>4. CASE Stop
  BY <1>0, <1>4 DEF Stop, Start, DropBatch, log, flows
<1>5. CASE TimerFlush
  <2>1. /\ UNCHANGED <<kind, pos, pc, hand, seen, sink, overlapped>>
        /\ batch # {} /\ kind # "alerts"
    BY <1>5 DEF TimerFlush, SomeBatch, log, loop
  <2>2. batch' \in {batch, {}} /\ flush'["loop"] = flush["loop"]
    BY <1>5, <1>0 DEF TimerFlush, Start, DropBatch, flows
  <2>. QED
    BY <2>1, <2>2
<1>6. CASE CommitAll
  BY <1>6, <1>0 DEF CommitAll, flows, ghosts
<1>7. ASSUME NEW f \in Flushers, Inserted(f) \/ InsertFails(f) PROVE LoopInv'
  <2>1. /\ UNCHANGED <<kind, pos, hand, seen, sink, overlapped>>
        /\ flush[f] = "insert" /\ batch' \in {batch, {}}
    BY <1>7 DEF Inserted, InsertFails, log, ghosts
  <2>2. \/ flush' = [flush EXCEPT ![f] = "idle"] /\ (Then(f, "commit") \/ Then(f, FailedNext))
        \/ flush' = [flush EXCEPT ![f] = "commit"] /\ pc' = pc
    BY <1>7 DEF Inserted, InsertFails, Becomes
  <2>3. CASE f = "timer"
    BY <1>0, <2>1, <2>2, <2>3 DEF Then
  <2>4. CASE f = "loop"
    <3>1. pc \in {"flush", "flush last"}
      BY <2>1, <2>4
    <3>2. CASE flush' = [flush EXCEPT !["loop"] = "commit"] /\ pc' = pc
      BY <1>0, <2>1, <2>4, <3>1, <3>2
    <3>3. CASE /\ flush' = [flush EXCEPT !["loop"] = "idle"]
               /\ Then("loop", "commit") \/ Then("loop", FailedNext)
      <4>1. pc' \in {"commit last", "commit", "fetch"} /\ (pc' = "commit last" => pc = "flush last")
        BY <3>1, <3>3 DEF Then, FailedNext
      <4>. QED
        BY <1>0, <2>1, <2>4, <3>1, <3>3, <4>1
    <3>. QED
      BY <2>2, <2>4, <3>2, <3>3
  <2>. QED
    BY <1>0, <2>3, <2>4
<1>8. ASSUME NEW f \in Flushers, CommitLast(f) PROVE LoopInv'
  <2>1. /\ UNCHANGED <<kind, pos, hand, seen, sink, batch, overlapped>>
        /\ kind # "ticks" /\ flush' = [flush EXCEPT ![f] = "idle"] /\ Then(f, "fetch")
        /\ f = "loop" => pc \in {"flush", "flush last", "commit"}
    BY <1>8 DEF CommitLast, ghosts, Becomes
  <2>2. CASE f = "timer"
    BY <1>0, <2>1, <2>2 DEF Then
  <2>3. CASE f = "loop"
    <3>1. pc' = "fetch"
      BY <2>1, <2>3 DEF Then
    <3>. QED
      BY <1>0, <2>1, <2>3, <3>1
  <2>. QED
    BY <1>0, <2>2, <2>3
<1>9. CASE Restart
  <2>1. sink' \in IF kind = "ticks" THEN BOOLEAN ELSE {TRUE}
    BY <1>9 DEF Restart
  <2>. QED
    BY <1>0, <1>9, <2>1 DEF Restart, Idle, ghosts
<1>10. CASE UNCHANGED vars
  BY <1>10 DEF vars, log, loop, flows, ghosts
<1>. QED
  BY <1>1, <1>2, <1>3, <1>4, <1>5, <1>6, <1>7, <1>8, <1>9, <1>10 DEF Next, Loop, Timer, Flushers

LEMMA PendingStep == LossInv /\ [Next]_vars => PendingInv'
<1> SUFFICES ASSUME LossInv, [Next]_vars PROVE PendingInv'
  OBVIOUS
<1>. USE DEF LossInv, PendingInv
<1>1. CASE pending' \in {pending, {}} /\ UNCHANGED <<pos, hand>>
  BY <1>1
<1>2. ASSUME NEW p \in Partitions, Fetch(p) PROVE PendingInv'
  <2> SUFFICES ASSUME NEW m \in pending
               PROVE  m[2] <= pos'[m[1]] /\ (hand' # NoMessage => m # hand')
    BY <1>2 DEF Fetch
  <2>1. m[1] \in Partitions /\ m[2] \in Nat /\ m[2] <= pos[m[1]]
    BY MessageType DEF Types
  <2>2. pos[p] \in Nat /\ pos[m[1]] \in Nat /\ pos' = [pos EXCEPT ![p] = pos[p] + 1]
    BY <1>2, <2>1 DEF Fetch, Types
  <2>3. pos'[m[1]] >= pos[m[1]]
    BY <2>1, <2>2 DEF Types
  <2>4. hand' \in {hand, <<p, pos[p] + 1>>} /\ pc = "fetch"
    BY <1>2 DEF Fetch, loop
  <2>5. hand = NoMessage
    BY <2>4 DEF LoopInv
  <2>6. m # <<p, pos[p] + 1>>
    BY <2>1, <2>2
  <2>. QED
    BY <2>1, <2>2, <2>3, <2>4, <2>5, <2>6
<1>3. CASE AppendRow
  <2>1. /\ pending' \subseteq pending \cup {hand} /\ hand' = NoMessage /\ pos' = pos
        /\ hand \in Messages /\ hand[2] = pos[hand[1]]
    BY <1>3 DEF AppendRow, LoopInv, log
  <2>2. hand[1] \in Partitions /\ hand[2] \in Nat
    BY <2>1, MessageType
  <2>. QED
    BY <2>1, <2>2
<1>4. CASE Check \/ Stop \/ TimerFlush
  BY <1>1, <1>4 DEF Check, Stop, TimerFlush, log, loop
<1>5. CASE CommitAll
  BY <1>1, <1>5 DEF CommitAll
<1>6. ASSUME NEW f \in Flushers, Inserted(f) \/ InsertFails(f) \/ CommitLast(f)
      PROVE  PendingInv'
  BY <1>1, <1>6 DEF Inserted, InsertFails, CommitLast, log
<1>7. CASE Restart
  BY <1>7 DEF Restart
<1>8. CASE UNCHANGED vars
  BY <1>1, <1>8 DEF vars, log, loop
<1>. QED
  BY <1>2, <1>3, <1>4, <1>5, <1>6, <1>7, <1>8 DEF Next, Loop, Timer, Flushers

\* A slice taken while the loop is before its append is the one it read.
LEMMA SeenIsTaken == LossInv /\ batch # {} => seen \subseteq batch
BY DEF LossInv, LoopInv

LEMMA FlushStep == LossInv /\ [Next]_vars => FlushInv'
<1> SUFFICES ASSUME LossInv, [Next]_vars PROVE FlushInv'
  OBVIOUS
<1>. USE DEF LossInv, FlushInv
<1>0. /\ flush \in [Flushers -> {"idle", "insert", "commit"}]
      /\ rows \in [Flushers -> SUBSET Messages]
      /\ Flushers = {"loop", "timer"}
      /\ Excused \subseteq Excused'
  BY ExcusedGrows DEF Types, Flushers
<1>1. CASE UNCHANGED flows /\ batch' \cup seen' \subseteq batch \cup seen
  BY <1>0, <1>1 DEF flows
<1>2. ASSUME NEW p \in Partitions, Fetch(p) PROVE FlushInv'
  BY <1>2, <1>1 DEF Fetch, loop
<1>3. CASE AppendRow
  <2>1. batch' = seen \cup {hand} /\ seen' = {} /\ UNCHANGED flows
    BY <1>3 DEF AppendRow
  <2>2. ASSUME NEW f \in Flushers, flush[f] # "idle" PROVE hand \in Excused'
    <3>1. flush # Idle
      BY <2>2 DEF Idle
    <3>2. overlapped' = overlapped \cup {hand} /\ kind' = kind /\ pc = "append"
      BY <1>3, <3>1 DEF AppendRow
    <3>3. kind # "alerts"
      BY <1>0, <2>2, <3>2 DEF LoopInv
    <3>. QED
      BY <3>2, <3>3 DEF Excused
  <2>. QED
    BY <1>0, <2>1, <2>2 DEF flows
<1>4. ASSUME NEW g \in Flushers, Start(g), seen \subseteq batch, seen' = seen PROVE FlushInv'
  BY <1>0, <1>4 DEF Start
<1>5. CASE Check
  <2>1. seen' = seen /\ seen = {}
    BY <1>5 DEF Check, LoopInv
  <2>. QED
    BY <1>0, <1>1, <1>4, <1>5, <2>1 DEF Check, DropBatch
<1>6. CASE Stop
  <2>1. seen' = seen /\ seen = {}
    BY <1>6 DEF Stop, LoopInv
  <2>. QED
    BY <1>0, <1>1, <1>4, <1>6, <2>1 DEF Stop, DropBatch
<1>7. CASE TimerFlush
  <2>1. seen' = seen /\ seen \subseteq batch
    BY <1>7, SeenIsTaken DEF TimerFlush, SomeBatch, loop
  <2>. QED
    BY <1>0, <1>1, <1>4, <1>7, <2>1 DEF TimerFlush, DropBatch
<1>8. CASE CommitAll
  BY <1>1, <1>8 DEF CommitAll
<1>9. ASSUME NEW g \in Flushers, Inserted(g) PROVE FlushInv'
  <2>1. /\ batch' = {} /\ seen' = seen /\ stored' = stored \cup rows[g]
        /\ flush[g] = "insert" /\ (Becomes(g, "commit") \/ Becomes(g, "idle"))
    BY <1>9 DEF Inserted
  <2>2. seen \subseteq Excused'
    BY <1>0, <2>1 DEF Excused
  <2>. QED
    BY <1>0, <2>1, <2>2 DEF Becomes
<1>10. ASSUME NEW g \in Flushers, InsertFails(g) \/ CommitLast(g) PROVE FlushInv'
  <2>1. UNCHANGED <<batch, seen>> /\ Becomes(g, "idle")
    BY <1>10 DEF InsertFails, CommitLast
  <2>. QED
    BY <1>0, <2>1 DEF Becomes
<1>11. CASE Restart
  BY <1>11 DEF Restart, Idle
<1>12. CASE UNCHANGED vars
  BY <1>1, <1>12 DEF vars, loop
<1>. QED
  BY <1>2, <1>3, <1>5, <1>6, <1>7, <1>8, <1>9, <1>10, <1>11, <1>12
     DEF Next, Loop, Timer, Flushers

LEMMA CommitStep == LossInv /\ [Next]_vars => CommitInv'
<1> SUFFICES ASSUME LossInv, [Next]_vars PROVE CommitInv'
  OBVIOUS
<1>. USE DEF LossInv, CommitInv
<1>0. Excused \subseteq Excused'
  BY ExcusedGrows
<1>1. CASE pc' \notin {"commit", "commit last"} \/ batch' = {}
  BY <1>1
<1>2. CASE pc' = pc /\ batch' \subseteq batch
  BY <1>0, <1>2
<1>3. ASSUME NEW p \in Partitions, Fetch(p) PROVE CommitInv'
  BY <1>1, <1>3 DEF Fetch, loop
<1>4. CASE AppendRow \/ Restart
  BY <1>1, <1>4 DEF AppendRow, Restart
<1>5. CASE Check \/ Stop
  BY <1>1, <1>5 DEF Check, Stop, DropBatch
<1>6. CASE TimerFlush
  BY <1>2, <1>6 DEF TimerFlush, Start, DropBatch, loop
<1>7. CASE CommitAll
  BY <1>1, <1>7 DEF CommitAll
<1>8. ASSUME NEW f \in Flushers, Inserted(f) PROVE CommitInv'
  BY <1>1, <1>8 DEF Inserted
<1>9. CASE InsertFails("timer") \/ CommitLast("timer")
  BY <1>2, <1>9 DEF InsertFails, CommitLast, Then
<1>10. CASE InsertFails("loop")
  <2>1. /\ batch' = batch /\ kind' = kind /\ unstored' = unstored \cup rows["loop"]
        /\ batch \subseteq rows["loop"] \cup Excused
        /\ Then("loop", FailedNext)
    BY <1>10 DEF InsertFails, FlushInv, Flushers
  <2>2. CASE kind = "ticks"
    BY <1>0, <2>1, <2>2 DEF Excused
  <2>3. CASE kind # "ticks"
    <3>1. flush["loop"] = "insert"
      BY <1>10 DEF InsertFails
    <3>2. pc = "flush"
      BY <2>3, <3>1 DEF LoopInv
    <3>3. pc' = "fetch"
      BY <2>1, <2>3, <3>2 DEF Then, FailedNext
    <3>. QED
      BY <1>1, <3>3
  <2>. QED
    BY <2>2, <2>3
<1>11. CASE CommitLast("loop")
  <2>1. kind # "ticks" /\ pc # "flush last"
    BY <1>11 DEF CommitLast, LoopInv
  <2>. QED
    BY <1>1, <1>11, <2>1 DEF CommitLast, Then
<1>12. CASE UNCHANGED vars
  BY <1>2, <1>12 DEF vars, loop
<1>. QED
  BY <1>3, <1>4, <1>5, <1>6, <1>7, <1>8, <1>9, <1>10, <1>11, <1>12
     DEF Next, Loop, Timer, Flushers

\* No commit goes back.
Forward == \A p \in Partitions :
              committed[p] \in Nat /\ committed'[p] \in Nat /\ committed[p] <= committed'[p]

LEMMA AccountedStays ==
  ASSUME Excused \subseteq Excused', Forward, NEW m \in Messages, Accounted(m)
  PROVE  Accounted(m)'
<1>1. m[1] \in Partitions /\ m[2] \in Nat
  BY MessageType
<1>2. ASSUME BadAfter(m) PROVE BadAfter(m)'
  <2>1. PICK o \in (m[2] + 1)..committed[m[1]] : Log[m[1]][o] = "bad"
    BY <1>2 DEF BadAfter
  <2>2. o \in (m[2] + 1)..committed'[m[1]]
    BY <1>1, <2>1 DEF Forward
  <2>. QED
    BY <2>1, <2>2 DEF BadAfter
<1>. QED
  BY <1>2 DEF Accounted

\* A step that fetches nothing keeps RowInv if it drops nothing but what is
\* excused, and commits nothing but what is accounted for.
LEMMA RowKeeps ==
  ASSUME RowInv, Excused \subseteq Excused', Forward, pos' = pos,
         batch \cup seen \cup {hand} \subseteq
             Excused' \cup batch' \cup seen' \cup {hand', NoMessage},
         \A m \in Messages : IsRow(m) /\ committed[m[1]] < m[2] /\ m[2] <= committed'[m[1]]
                                => Accounted(m)'
  PROVE  RowInv'
<1> SUFFICES ASSUME NEW m \in Messages, IsRow(m)
             PROVE  /\ m[2] <= pos[m[1]] => Accounted(m)' \/ m \in batch' \cup seen' \cup {hand'}
                    /\ m[2] <= committed'[m[1]] => Accounted(m)'
  BY DEF RowInv, IsRow
<1>1. m # NoMessage /\ m[1] \in Partitions /\ m[2] \in Nat
  BY MessageType
<1>2. Accounted(m) => Accounted(m)'
  BY AccountedStays
<1>3. m \in Excused' => Accounted(m)'
  BY DEF Accounted
<1>4. m[2] <= pos[m[1]] => Accounted(m) \/ m \in batch \cup seen \cup {hand}
  BY DEF RowInv
<1>5. m[2] <= committed[m[1]] => Accounted(m)
  BY DEF RowInv
<1>6. committed[m[1]] < m[2] \/ m[2] <= committed[m[1]]
  BY <1>1 DEF Forward
<1>. QED
  BY <1>1, <1>2, <1>3, <1>4, <1>5, <1>6

\* A commit of what is pending, with the slice excused: what it newly covers
\* has been fetched, is not in hand, and so is accounted for.
LEMMA PendingCommit ==
  ASSUME LossInv, TryCommit(pending), batch \cup seen \subseteq Excused,
         Excused \subseteq Excused', pos' = pos, hand' = hand, batch' = batch, seen' = seen
  PROVE  RowInv'
<1>1. /\ committed \in [Partitions -> Nat] /\ pending \in SUBSET Messages
      /\ pos \in [Partitions -> Nat]
  BY DEF LossInv, Types
<1>2. /\ committed' \in [Partitions -> Nat]
      /\ \A p \in Partitions :
            \/ committed'[p] = committed[p]
            \/ /\ committed'[p] > committed[p]
               /\ \E m \in pending : m[1] = p /\ m[2] = committed'[p]
  BY <1>1, CommitForward DEF LossInv
<1>3. Forward
  BY <1>1, <1>2 DEF Forward
<1>4. ASSUME NEW m \in Messages, IsRow(m), committed[m[1]] < m[2], m[2] <= committed'[m[1]]
      PROVE  Accounted(m)'
  <2>1. m[1] \in Partitions /\ m[2] \in Nat
    BY MessageType
  <2>2. PICK l \in pending : l[1] = m[1] /\ l[2] = committed'[m[1]]
    BY <1>1, <1>2, <1>4, <2>1
  <2>3. l[2] <= pos[l[1]] /\ (hand # NoMessage => l # hand)
    BY DEF LossInv, PendingInv
  <2>4. m[2] <= pos[m[1]]
    BY <1>1, <1>2, <1>4, <2>1, <2>2, <2>3
  <2>5. m # hand
    <3>1. SUFFICES ASSUME m = hand PROVE FALSE
      OBVIOUS
    <3>2. m # NoMessage /\ m = <<m[1], m[2]>> /\ l = <<l[1], l[2]>>
      BY <1>1, MessageType
    <3>3. hand[2] = pos[hand[1]]
      BY <3>1, <3>2 DEF LossInv, LoopInv
    <3>4. l[2] = m[2]
      BY <1>1, <1>2, <1>4, <2>1, <2>2, <2>3, <3>1, <3>3
    <3>. QED
      BY <2>2, <2>3, <3>1, <3>2, <3>4
  <2>6. Accounted(m) \/ m \in batch \cup seen
    BY <1>4, <2>4, <2>5 DEF LossInv, RowInv
  <2>7. Accounted(m)
    BY <2>6 DEF Accounted
  <2>. QED
    BY <1>3, <2>7, AccountedStays
<1>. QED
  BY <1>3, <1>4, RowKeeps DEF LossInv

LEMMA RowStep == LossInv /\ [Next]_vars => RowInv'
<1> SUFFICES ASSUME LossInv, [Next]_vars PROVE RowInv'
  OBVIOUS
<1>0. /\ Excused \subseteq Excused' /\ RowInv
      /\ committed \in [Partitions -> Nat] /\ pos \in [Partitions -> Nat]
  BY ExcusedGrows DEF LossInv, Types
<1>1. ASSUME UNCHANGED log,
             batch \cup seen \cup {hand} \subseteq
                 Excused' \cup batch' \cup seen' \cup {hand', NoMessage}
      PROVE  RowInv'
  <2>1. Forward /\ pos' = pos /\ committed' = committed
    BY <1>0, <1>1 DEF log, Forward
  <2>2. ASSUME NEW m \in Messages, committed[m[1]] < m[2], m[2] <= committed'[m[1]]
        PROVE  FALSE
    BY <1>0, <2>1, <2>2, MessageType
  <2>. QED
    BY <1>0, <1>1, <2>1, <2>2, RowKeeps
<1>2. ASSUME NEW p \in Partitions, Fetch(p) PROVE RowInv'
  <2>. DEFINE n == <<p, pos[p] + 1>>
  <2>1. /\ n \in Messages /\ pos[p] \in Nat /\ pos' = [pos EXCEPT ![p] = pos[p] + 1]
        /\ batch' = batch /\ pc = "fetch"
    BY <1>0, <1>2, FetchedIsMessage DEF Fetch
  <2>2. hand = NoMessage /\ seen = {}
    BY <2>1 DEF LossInv, LoopInv
  <2>3. ASSUME NEW m \in Messages, m[2] <= pos'[m[1]]
        PROVE  m[2] <= pos[m[1]] \/ m = n
    <3>1. m[1] \in Partitions /\ m[2] \in Nat /\ m = <<m[1], m[2]>>
      BY MessageType
    <3>2. pos'[m[1]] = IF m[1] = p THEN pos[p] + 1 ELSE pos[m[1]]
      BY <1>0, <2>1, <3>1
    <3>. QED
      BY <1>0, <2>1, <2>3, <3>1, <3>2
  <2>4. CASE IsRow(n) /\ hand' = n /\ UNCHANGED committed
    <3>1. Forward
      BY <1>0, <2>4 DEF Forward
    <3> SUFFICES ASSUME NEW m \in Messages, IsRow(m)
                 PROVE  /\ m[2] <= pos'[m[1]] => Accounted(m)' \/ m \in batch' \cup seen' \cup {hand'}
                        /\ m[2] <= committed'[m[1]] => Accounted(m)'
      BY DEF RowInv, IsRow
    <3>2. Accounted(m) => Accounted(m)'
      BY <1>0, <3>1, AccountedStays
    <3>3. m # NoMessage
      BY MessageType
    <3>. HIDE DEF n
    <3>. QED
      BY <1>0, <2>1, <2>2, <2>3, <2>4, <3>2, <3>3 DEF RowInv
  <2>5. CASE ~IsRow(n) /\ TryCommit({n}) /\ UNCHANGED loop
    <3>. HIDE DEF n
    <3>1. /\ committed' \in [Partitions -> Nat]
          /\ \A q \in Partitions :
                \/ committed'[q] = committed[q]
                \/ /\ committed'[q] > committed[q]
                   /\ \E m \in {n} : m[1] = q /\ m[2] = committed'[q]
      BY <2>1, <2>5, CommitForward DEF LossInv
    <3>2. Forward
      BY <1>0, <3>1 DEF Forward
    <3> SUFFICES ASSUME NEW m \in Messages, IsRow(m)
                 PROVE  /\ m[2] <= pos'[m[1]] => Accounted(m)' \/ m \in batch' \cup seen' \cup {hand'}
                        /\ m[2] <= committed'[m[1]] => Accounted(m)'
      BY DEF RowInv, IsRow
    <3>3. Accounted(m) => Accounted(m)'
      BY <1>0, <3>2, AccountedStays
    <3>4. m # NoMessage /\ m # n /\ m[1] \in Partitions /\ m[2] \in Nat
      BY <2>5, MessageType
    <3>5. m[2] <= pos'[m[1]] => Accounted(m)' \/ m \in batch' \cup seen' \cup {hand'}
      BY <1>0, <2>1, <2>2, <2>3, <3>3, <3>4 DEF RowInv
    <3>6. ASSUME m[2] <= committed'[m[1]] PROVE Accounted(m)'
      <4>1. CASE committed'[m[1]] = committed[m[1]]
        BY <1>0, <3>3, <3>6, <4>1 DEF RowInv
      <4>2. CASE n[1] = m[1] /\ n[2] = committed'[m[1]]
        <5>1. n[2] # m[2] /\ n[2] \in Nat
          BY <2>1, <3>4, <4>2, MessageType
        <5>2. n[2] \in (m[2] + 1)..committed'[m[1]]
          BY <3>1, <3>4, <3>6, <4>2, <5>1
        <5>3. n \in Messages /\ Log[n[1]][n[2]] = "bad"
          <6>1. Log[n[1]] \in Seq({"row", "bad"}) /\ n[2] \in 1..Len(Log[n[1]])
            <7>1. Log[p] \in Seq({"row", "bad"}) /\ pos[p] < Len(Log[p])
              BY <1>2, IngestAssumption DEF Fetch
            <7>. QED
              BY <2>1, <7>1 DEF n
          <6>2. Log[n[1]][n[2]] \in {"row", "bad"}
            BY <6>1
          <6>. QED
            BY <2>1, <2>5, <6>2 DEF IsRow
        <5>. QED
          BY <4>2, <5>2, <5>3 DEF Accounted, BadAfter
      <4>. QED
        BY <3>1, <3>4, <4>1, <4>2
    <3>. QED
      BY <3>5, <3>6
  <2>6. \/ IsRow(n) /\ hand' = n /\ UNCHANGED committed
        \/ ~IsRow(n) /\ TryCommit({n}) /\ UNCHANGED loop
    BY <1>2 DEF Fetch, IsRow
  <2>. QED
    BY <2>4, <2>5, <2>6
<1>3. CASE AppendRow
  <2>1. batch' = seen \cup {hand} /\ hand' = NoMessage /\ batch \in {{}, seen} /\ UNCHANGED log
    BY <1>3 DEF AppendRow, LossInv, LoopInv
  <2>. QED
    BY <1>1, <2>1
<1>4. CASE Check \/ Stop \/ TimerFlush
  <2>1. UNCHANGED <<log, hand, seen>>
    BY <1>4 DEF Check, Stop, TimerFlush, loop
  <2>2. \/ batch' = batch
        \/ unstored' = unstored \cup batch /\ ~sink /\ kind' = kind
    BY <1>4 DEF Check, Stop, TimerFlush, Start, DropBatch
  <2>3. batch \subseteq batch' \cup Excused'
    BY <2>2 DEF LossInv, LoopInv, Excused
  <2>. QED
    BY <1>1, <2>1, <2>3
<1>5. CASE CommitAll
  <2>1. /\ pc \in {"commit", "commit last"} /\ TryCommit(pending)
        /\ UNCHANGED <<pos, hand, seen, batch>>
    BY <1>5 DEF CommitAll
  <2>2. batch \cup seen \subseteq Excused
    BY <2>1 DEF LossInv, CommitInv, LoopInv
  <2>. QED
    BY <1>0, <2>1, <2>2, PendingCommit
<1>6. ASSUME NEW f \in Flushers, Inserted(f) PROVE RowInv'
  <2>1. /\ UNCHANGED <<log, hand, seen, kind>> /\ flush[f] = "insert"
        /\ stored' = stored \cup rows[f]
    BY <1>6 DEF Inserted
  <2>2. batch \subseteq Excused'
    BY <1>0, <2>1 DEF LossInv, FlushInv, Excused
  <2>. QED
    BY <1>1, <2>1, <2>2
<1>7. ASSUME NEW f \in Flushers, InsertFails(f) PROVE RowInv'
  BY <1>1, <1>7 DEF InsertFails
<1>8. ASSUME NEW f \in Flushers, CommitLast(f) PROVE RowInv'
  <2>1. /\ TryCommit(pending) /\ UNCHANGED <<pos, hand, seen, batch>>
        /\ flush[f] = "commit" \/ pc = "commit"
    BY <1>8 DEF CommitLast
  <2>2. batch \cup seen \subseteq Excused
    BY <2>1 DEF LossInv, CommitInv, FlushInv, LoopInv
  <2>. QED
    BY <1>0, <2>1, <2>2, PendingCommit
<1>9. CASE Restart
  <2>1. UNCHANGED committed /\ pos' = committed
    BY <1>9 DEF Restart
  <2>2. Forward
    BY <1>0, <2>1 DEF Forward
  <2>3. ASSUME NEW m \in Messages, IsRow(m), m[2] <= committed[m[1]] PROVE Accounted(m)'
    <3>1. Accounted(m)
      BY <1>0, <2>3 DEF RowInv
    <3>. QED
      BY <1>0, <2>2, <3>1, AccountedStays
  <2>. QED
    BY <2>1, <2>3 DEF RowInv, IsRow
<1>10. CASE UNCHANGED vars
  BY <1>1, <1>10 DEF vars, loop
<1>. QED
  BY <1>2, <1>3, <1>4, <1>5, <1>6, <1>7, <1>8, <1>9, <1>10 DEF Next, Loop, Timer, Flushers

-----------------------------------------------------------------------------
\* What ingest-worker commits and does not store is lost in one of the ways
\* LossIsExplained lists, however its loop, its timer goroutine, failing
\* calls and restarts interleave.
THEOREM LossSafe == Spec => []LossIsExplained
<1>1. LossInv /\ [Next]_vars => LossInv'
  BY TypesStep, LoopStep, PendingStep, FlushStep, CommitStep, RowStep DEF LossInv
<1>2. LossInv => LossIsExplained
  BY DEF LossInv, RowInv, Accounted, Excused, LossIsExplained, Covered
<1>. QED
  BY LossInit, <1>1, <1>2, PTL DEF Spec
=============================================================================
