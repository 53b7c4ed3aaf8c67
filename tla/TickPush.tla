------------------------------ MODULE TickPush ------------------------------
(***************************************************************************)
(* quote-push.  Four goroutines share a merger, a buffer of offsets and a  *)
(* router:                                                                 *)
(*   - the consumer adds ticks to the merger and marks their offsets;      *)
(*   - the committer takes the marked message and commits it;              *)
(*   - the flusher drains the merger, writes the Redis snapshots, resolves *)
(*     the routes and publishes to ws_push;                                *)
(*   - the K-line loop does all that for one bar at a time.                *)
(* Kafka is a log per partition, read from the committed offset after a    *)
(* restart.  An undecodable message has the symbol NoSymbol.               *)
(***************************************************************************)
EXTENDS QuoteRouter, Sequences

CONSTANTS
    Partitions,
    TickLog,        \* TickLog[p]: the messages of tick_raw
    BarLog,         \* the messages of snapshot_kline
    NoSymbol,
    MaxEvents       \* bound: exits, failing calls, changes of the index, ticks of the clock

ASSUME TickPushAssumption ==
    /\ NoSymbol \notin Symbols
    /\ \A p \in Partitions : TickLog[p] \in Seq([sym : Symbols \cup {NoSymbol}, ts : Nat])
    /\ BarLog \in Seq([sym : Symbols \cup {NoSymbol}, ts : Nat])
    /\ MaxEvents \in Nat

VARIABLES
    pos, hand,      \* consumer: next offsets, the message not yet marked
    latest,         \* Merger.latest: newest ts of each symbol, or 0
    pending,        \* offsetPending.last
    taken,          \* committer: message being committed
    committed,      \* offsets the broker has
    fpc, win,       \* flusher: where it is, the items it drained
    route, todo,    \* what Resolve returned, targets to publish to
    snap,           \* Redis: snap:{symbol}
    pushed,         \* newest ts published in this life of the process
    bpc, bpos, bcommitted, barCur,  \* K-line loop, and Redis: kline:cur
    merged,         \* offsets that have been in the merger, or were skipped
    snapLost, barLost,  \* symbols with a failed write since the last start
    events          \* what is left of the bound

consumer == <<pos, hand, latest, merged>>
offsets  == <<pending, taken, committed>>
flusher  == <<fpc, win, route, todo, snap, pushed, snapLost>>
bars     == <<bpc, bpos, bcommitted, barCur, barLost>>
vars     == <<routing, consumer, offsets, flusher, bars, events>>

None == <<>>
NoItems == [s \in Symbols |-> 0]

Init ==
    /\ RouterInit
    /\ pos = [p \in Partitions |-> 0] /\ hand = None
    /\ latest = NoItems
    /\ pending = None /\ taken = None
    /\ committed = pos
    /\ fpc = "idle" /\ win = NoItems /\ route = [s \in {} |-> {}] /\ todo = {}
    /\ snap = NoItems /\ pushed = NoItems
    /\ bpc = "fetch" /\ bpos = 0 /\ bcommitted = 0 /\ barCur = NoItems
    /\ merged = {} /\ snapLost = {} /\ barLost = {}
    /\ events = MaxEvents

Event == events > 0 /\ events' = events - 1
-----------------------------------------------------------------------------
(* The consumer                                                            *)

\* Merger.Add: the newer one stays.
Add(m) ==
    latest' = IF m.sym = NoSymbol \/ latest[m.sym] >= m.ts THEN latest
              ELSE [latest EXCEPT ![m.sym] = m.ts]

\* FetchMessage, then Add if it can be decoded.
Consume(p) ==
    /\ hand = None
    /\ pos[p] < Len(TickLog[p])
    /\ Add(TickLog[p][pos[p] + 1])
    /\ hand' = <<p, pos[p]>>
    /\ pos' = [pos EXCEPT ![p] = @ + 1]
    /\ merged' = merged \cup {<<p, pos[p]>>}
    /\ UNCHANGED <<routing, offsets, flusher, bars, events>>

\* offsetPending.Mark: one message, that with the highest offset.
Marked(m) == IF pending = None \/ m[2] > pending[2] THEN m ELSE pending

Mark ==
    /\ hand # None
    /\ pending' = Marked(hand)
    /\ hand' = None
    /\ UNCHANGED <<routing, pos, latest, merged, taken, committed,
                   flusher, bars, events>>
-----------------------------------------------------------------------------
(* The committer                                                           *)

Take ==
    /\ taken = None /\ pending # None
    /\ taken' = pending /\ pending' = None
    /\ UNCHANGED <<routing, consumer, committed, flusher, bars, events>>

CommittedTwo(m) == [committed EXCEPT ![m[1]] = m[2] + 2]  \* (mutant) one too far

\* CommitMessages: the offset after m, in m's partition.
Commits(m) == [committed EXCEPT ![m[1]] = m[2] + 1]

\* commitWithTimeout: an error, or five seconds, and the consumer goes on.
Commit ==
    /\ taken # None
    /\ taken' = None
    /\ \/ committed' = Commits(taken) /\ UNCHANGED events
       \/ Event /\ UNCHANGED committed
    /\ UNCHANGED <<routing, consumer, pending, flusher, bars>>
-----------------------------------------------------------------------------
(* The flusher                                                             *)

InWindow == {s \in Symbols : win[s] > 0}

EndFlush == /\ fpc' = "idle" /\ win' = NoItems
            /\ route' = [s \in {} |-> {}] /\ todo' = {}

NewerOnly(ok) ==        \* (mutant) an older tick does not replace a newer one
    [s \in Symbols |-> IF s \in ok THEN Max({latest[s], snap[s]}) ELSE snap[s]]

Written(ok) == [s \in Symbols |-> IF s \in ok THEN latest[s] ELSE snap[s]]

\* merger.Flush and WriteSnapshots, a pipeline without a transaction whose
\* error is logged.  (The window is the flusher's own from here on: an exit
\* between the two is one before this step.)
Flush ==
    /\ fpc = "idle" /\ latest # NoItems
    /\ win' = latest /\ latest' = NoItems
    /\ fpc' = "resolve"
    /\ LET drained == {s \in Symbols : latest[s] > 0}
       IN \/ snap' = Written(drained) /\ UNCHANGED <<snapLost, events>>
          \/ /\ Event
             /\ \E ok \in SUBSET drained \ {drained} :
                    snap' = Written(ok) /\ snapLost' = snapLost \cup (drained \ ok)
    /\ UNCHANGED <<routing, pos, hand, merged, offsets, route, todo, pushed, bars>>

\* Resolve and Fanout; on an error the window is given up.
ResolveWindow ==
    /\ fpc = "resolve"
    /\ UNCHANGED <<now, index, moved>>
    /\ \/ /\ Fill(ReadFor(InWindow))
          /\ route' = Resolved(InWindow)
          /\ todo' = UNION {Targets(s) : s \in InWindow}
          /\ fpc' = "publish"
          /\ UNCHANGED <<win, events>>
       \/ Event /\ ResolveFails(InWindow) /\ EndFlush
    /\ UNCHANGED <<consumer, offsets, snap, pushed, snapLost, bars>>

\* PublishProto of one batch; an error is logged.
Publish(t) ==
    /\ fpc = "publish" /\ t \in todo
    /\ todo' = todo \ {t}
    /\ \/ /\ pushed' = [s \in Symbols |->
                          IF s \in InWindow /\ t \in route[s] THEN win[s] ELSE pushed[s]]
          /\ UNCHANGED events
       \/ Event /\ UNCHANGED pushed
    /\ UNCHANGED <<routing, consumer, offsets, fpc, win, route, snap, snapLost, bars>>

Flushed ==
    /\ fpc = "publish" /\ todo = {}
    /\ EndFlush
    /\ UNCHANGED <<routing, consumer, offsets, snap, pushed, snapLost, bars, events>>
-----------------------------------------------------------------------------
(* The K-line loop                                                         *)

Bar == BarLog[bpos + 1]

IfAbsent(bar) ==        \* (mutant) the bar that is there stays
    IF bar.sym = NoSymbol \/ barCur[bar.sym] > 0 THEN barCur
    ELSE [barCur EXCEPT ![bar.sym] = bar.ts]

Current(bar) ==
    IF bar.sym = NoSymbol THEN barCur ELSE [barCur EXCEPT ![bar.sym] = bar.ts]

\* FetchMessage and WriteKlineCur, its error dropped.
WriteBar ==
    /\ bpc = "fetch" /\ bpos < Len(BarLog)
    /\ bpc' = "commit"
    /\ \/ barCur' = Current(Bar) /\ UNCHANGED <<barLost, events>>
       \/ /\ Event /\ Bar.sym # NoSymbol
          /\ barLost' = barLost \cup {Bar.sym}
          /\ UNCHANGED barCur
    /\ UNCHANGED <<routing, consumer, offsets, flusher, bpos, bcommitted>>

\* Resolve, publish and commit: whatever fails, the bar is committed.  (An
\* exit before the commit is one before this step.)
PushBar ==
    /\ bpc = "commit" /\ bpc' = "fetch"
    /\ bpos' = bpos + 1
    /\ UNCHANGED <<now, index, moved>>
    /\ \/ /\ Fill(IF Bar.sym = NoSymbol THEN {} ELSE ReadFor({Bar.sym}))
          /\ \/ bcommitted' = bpos + 1 /\ UNCHANGED events
             \/ Event /\ UNCHANGED bcommitted
       \/ /\ Event /\ Bar.sym # NoSymbol /\ ResolveFails({Bar.sym})
          /\ bcommitted' = bpos + 1
    /\ UNCHANGED <<consumer, offsets, flusher, barCur, barLost>>
-----------------------------------------------------------------------------
(* The process                                                             *)

CommitOf(m, c) == IF m = None THEN c ELSE [c EXCEPT ![m[1]] = m[2] + 1]

\* A crash, or a stop: the consumer commits what is pending on its way out,
\* while the committer may be in a commit of its own; the merger is not
\* flushed.  Another process starts from the committed offsets.
Restart ==
    /\ Event
    /\ \E c \in {committed, CommitOf(taken, committed)} \cup
                IF hand # None THEN {}
                ELSE {CommitOf(pending, CommitOf(taken, committed)),
                      CommitOf(taken, CommitOf(pending, committed))} :
          committed' = c /\ pos' = c
    /\ hand' = None /\ pending' = None /\ taken' = None
    /\ latest' = NoItems
    /\ EndFlush
    /\ pushed' = NoItems /\ snapLost' = {}
    /\ bpc' = "fetch" /\ bpos' = bcommitted
    /\ ForgetRoutes
    /\ UNCHANGED <<merged, snap, bcommitted, barCur, barLost>>

\* Time, and the gateways' own changes of the index.
Environment ==
    /\ Event
    /\ \/ Tick
       \/ \E s \in Symbols, G \in SUBSET Gateways : Move(s, G)
       \/ \E g \in Gateways, K \in SUBSET Slots : Move(g, K)
    /\ UNCHANGED <<consumer, offsets, flusher, bars>>

Consumer == Mark \/ \E p \in Partitions : Consume(p)
Flusher == Flush \/ ResolveWindow \/ Flushed
           \/ \E t \in Gateways \X Slots : Publish(t)
BarLoop == WriteBar \/ PushBar

Next == Consumer \/ Take \/ Commit \/ Flusher \/ BarLoop \/ Restart \/ Environment

Spec == Init /\ [][Next]_vars
-----------------------------------------------------------------------------
\* No tick is skipped: what a restart does not read again, an earlier or the
\* present process has had in its merger (Add comes before Mark, Mark before
\* the commit, and a commit covers nothing that is not yet fetched).
CommittedWasMerged ==
    \A p \in Partitions : \A o \in 0..(committed[p] - 1) : <<p, o>> \in merged

\* An index that has not changed for more than the cache's lifetime is
\* obeyed: every subscribed instance that holds a slot gets the quote, at its
\* least slot, and no other instance does (Resolve, routeCache).
SettledIndexIsObeyed ==
    [][fpc = "resolve" /\ fpc' = "publish" =>
        \A s \in InWindow, g \in Gateways :
            moved[s] < now - TTL /\ moved[g] < now - TTL =>
                \A k \in Slots : <<g, k>> \in route'[s] <=>
                    g \in index[s] /\ k \in index[g] /\ \A j \in index[g] : k <= j
      ]_vars

\* A client that is pushed a quote and then reads the snapshot does not see
\* an older one: what is published is in Redis, unless that write failed.
PublishedIsInSnapshot ==
    [][\A s \in Symbols : pushed'[s] \notin {pushed[s], 0} =>
                            snap[s] = pushed'[s] \/ s \in snapLost]_vars

\* kline:cur is never older than the bars whose offset is committed, however
\* often the loop restarts, unless a write of it failed.
CommittedBarIsCurrent ==
    \A i \in 1..bcommitted : LET bar == BarLog[i] IN
        bar.sym # NoSymbol => barCur[bar.sym] >= bar.ts \/ bar.sym \in barLost
=============================================================================
