----------------------------- MODULE AlertInbox -----------------------------
(***************************************************************************)
(* services/notify: the consumers of alert_event and notify_retry, the     *)
(* alert_record inbox in MySQL they write, and the three others that touch *)
(* a row: the pulling client, the acknowledging client, the expiry scan.   *)
(*                                                                         *)
(* A partition of either topic is read by one goroutine, named after it.   *)
(* One message is handled at a time, in the steps of HandleAlertEvent:     *)
(*                                                                         *)
(*   lookup -> lock -> insert -> notify -> route -> publish -> mark        *)
(*                                                                         *)
(* and every error leads to "fail", which passes the message to the retry  *)
(* topic (or the dead letters); the offset is committed at the end.  The   *)
(* delivery id is event_id + user_id and a rule has one user, so a         *)
(* delivery is named by its event.                                         *)
(***************************************************************************)
EXTENDS Integers, Sequences, FiniteSets

CONSTANTS
    Events,           \* event ids Flink emits
    Users,
    OwnerOf,          \* OwnerOf[e]: the user of the event's rule
    AlertParts,       \* partitions of alert_event
    RetryParts,       \* partitions of notify_retry
    NoWorker,         \* "nobody holds the lock on alert_cursor_seq"
    MaxRetry,         \* cfg.MaxRetry (NOTIFY_MAX_RETRY)
    PullLimit,        \* the limit of a pull
    ProducerMayFail,  \* may publishRetry / DeadLetter fail to write?
    MaxEmits,         \* bound: messages put into alert_event
    MaxFaults,        \* bound: failing calls
    MaxCrashes        \* bound: worker crashes

Parts == AlertParts \cup RetryParts

ASSUME InboxAssumption ==
    /\ IsFiniteSet(Events)
    /\ OwnerOf \in [Events -> Users]
    /\ AlertParts \cap RetryParts = {}
    /\ RetryParts # {}
    /\ NoWorker \notin Parts
    /\ {MaxRetry, MaxEmits, MaxFaults, MaxCrashes} \subseteq Nat
    /\ PullLimit \in Nat \ {0}
    /\ ProducerMayFail \in BOOLEAN

VARIABLES
    log,        \* log[p]: the messages of partition p
    pos,        \* pos[p]: messages fetched; the last one is in hand
    committed,  \* committed[p]: the group's offset
    pc,         \* pc[p]: where the worker of p is
    next,       \* next[p]: the cursor id its transaction has read
    seqLock,    \* who holds the row lock of alert_cursor_seq
    nextCursor, \* alert_cursor_seq.next_cursor_id
    status,     \* alert_record.status, "NONE" if there is no row
    cursor,     \* alert_record.cursor_id, 0 if there is no row
    gone,       \* events whose alert_rule row has been deleted
    stale,      \* events whose trigger_at has left the window
    notified,   \* events dispatched to the channels (mail, SMS, IM, webhook)
    pushed,     \* deliveries written to ws_push
    seen,       \* deliveries the client has received
    at,         \* at[u]: the cursor the client pulls from
    dead,       \* events in dead_letter
    emits, faults, crashes   \* what is left of the bounds

kafka  == <<log, pos, committed>>
worker == <<pc, next, seqLock>>
inbox  == <<nextCursor, status, cursor>>
client == <<seen, at>>
budget == <<emits, faults, crashes>>
vars   == <<kafka, worker, inbox, gone, stale, notified, pushed, client, dead, budget>>

Message == [ev : Events, hdr : Seq(Nat)]
Labels  == {"idle", "lookup", "lock", "insert", "notify",
            "route", "publish", "mark", "fail", "commit"}
Open    == {"PENDING", "SENT"}

InHand(p) == log[p][pos[p]]
Event(p)  == InHand(p).ev
-----------------------------------------------------------------------------
\* The row the migration inserts into alert_cursor_seq.
FirstCursorZero == 0      \* (mutant) seeded with 0, the default cursor of a pull
FirstCursor == 1

Init ==
    /\ log = [p \in Parts |-> <<>>]
    /\ pos = [p \in Parts |-> 0]
    /\ committed = [p \in Parts |-> 0]
    /\ pc = [p \in Parts |-> "idle"]
    /\ next = [p \in Parts |-> 0]
    /\ seqLock = NoWorker
    /\ nextCursor = FirstCursor
    /\ status = [e \in Events |-> "NONE"]
    /\ cursor = [e \in Events |-> 0]
    /\ gone = {} /\ stale = {} /\ notified = {} /\ pushed = {}
    /\ seen = {} /\ dead = {}
    /\ at = [u \in Users |-> 0]
    /\ emits = MaxEmits /\ faults = MaxFaults /\ crashes = MaxCrashes

Fault == faults > 0 /\ faults' = faults - 1

Goto(p, l) == pc' = [pc EXCEPT ![p] = l]
At(p, l)   == p \in Parts /\ pc[p] = l
-----------------------------------------------------------------------------
(* The environment: Flink emits (at least once: the same event may come    *)
(* again), a rule row is deleted, time passes.                             *)

Emit(p, e) ==
    /\ emits > 0 /\ emits' = emits - 1
    /\ log' = [log EXCEPT ![p] = Append(@, [ev |-> e, hdr |-> <<>>])]
    /\ UNCHANGED <<pos, committed, worker, inbox, gone, stale, notified,
                   pushed, client, dead, faults, crashes>>

DeleteRule(e) ==
    /\ e \notin gone
    /\ gone' = gone \cup {e}
    /\ UNCHANGED <<kafka, worker, inbox, stale, notified, pushed, client, dead, budget>>

Age(e) ==
    /\ e \notin stale
    /\ stale' = stale \cup {e}
    /\ UNCHANGED <<kafka, worker, inbox, gone, notified, pushed, client, dead, budget>>
-----------------------------------------------------------------------------
(* One message, from FetchMessage to CommitMessages.                       *)

Fetch(p) ==
    /\ At(p, "idle")
    /\ pos[p] < Len(log[p])
    /\ pos' = [pos EXCEPT ![p] = @ + 1]
    /\ Goto(p, "lookup")
    /\ UNCHANGED <<log, committed, next, seqLock, inbox, gone, stale, notified,
                   pushed, client, dead, budget>>

\* RuleByID: no row ends the handling without an error.
Lookup(p) ==
    /\ At(p, "lookup")
    /\ \/ Event(p) \in gone    /\ Goto(p, "commit") /\ UNCHANGED faults
       \/ Event(p) \notin gone /\ Goto(p, "lock")   /\ UNCHANGED faults
       \/ Fault /\ Goto(p, "fail")
    /\ UNCHANGED <<kafka, next, seqLock, inbox, gone, stale, notified, pushed,
                   client, dead, emits, crashes>>

LockIgnored == TRUE       \* (mutant) SELECT without FOR UPDATE
LockFree == seqLock = NoWorker

\* SELECT next_cursor_id ... FOR UPDATE: waits for the row lock.
LockCursor(p) ==
    /\ At(p, "lock")
    /\ \/ /\ LockFree
          /\ seqLock' = p
          /\ next' = [next EXCEPT ![p] = nextCursor]
          /\ Goto(p, "insert")
          /\ UNCHANGED faults
       \/ /\ Fault /\ Goto(p, "fail")
          /\ UNCHANGED <<seqLock, next>>
    /\ UNCHANGED <<kafka, inbox, gone, stale, notified, pushed, client, dead,
                   emits, crashes>>

\* INSERT IGNORE and the new next_cursor_id become visible together.
StoreRecord(p) ==
    LET e == Event(p) IN
    IF status[e] = "NONE"
    THEN /\ status' = [status EXCEPT ![e] = "PENDING"]
         /\ cursor' = [cursor EXCEPT ![e] = next[p]]
         /\ nextCursor' = next[p] + 1
    ELSE /\ nextCursor' = next[p]
         /\ UNCHANGED <<status, cursor>>

CommitNotifiesNew(p) ==   \* (mutant) no dispatch when the row was there
    LET after == IF status[Event(p)] = "NONE" THEN "notify" ELSE "route" IN
    /\ At(p, "insert")
    /\ seqLock' = NoWorker
    /\ \/ StoreRecord(p)  /\ Goto(p, after)  /\ UNCHANGED faults
       \/ UNCHANGED inbox /\ Goto(p, "fail") /\ Fault
       \/ StoreRecord(p)  /\ Goto(p, "fail") /\ Fault
    /\ UNCHANGED <<kafka, next, gone, stale, notified, pushed, client, dead,
                   emits, crashes>>

\* tx.Commit: done, rolled back, or done with the answer lost.
CommitInsert(p) ==
    /\ At(p, "insert")
    /\ seqLock' = NoWorker
    /\ \/ StoreRecord(p)  /\ Goto(p, "notify") /\ UNCHANGED faults
       \/ UNCHANGED inbox /\ Goto(p, "fail")   /\ Fault
       \/ StoreRecord(p)  /\ Goto(p, "fail")   /\ Fault
    /\ UNCHANGED <<kafka, next, gone, stale, notified, pushed, client, dead,
                   emits, crashes>>

\* onDeliver: mail, SMS, IM, webhook; it reports no error to the inbox.
Notify(p) ==
    /\ At(p, "notify")
    /\ notified' = notified \cup {Event(p)}
    /\ Goto(p, "route")
    /\ UNCHANGED <<kafka, next, seqLock, inbox, gone, stale, pushed, client,
                   dead, budget>>

RouteMarks(p) ==          \* (mutant) SENT before the message is written
    /\ At(p, "route") /\ Goto(p, "mark")
    /\ UNCHANGED <<kafka, next, seqLock, inbox, gone, stale, notified, pushed,
                   client, dead, budget>>

\* GatewayOfUser and SlotsOfGateway: on line with a slot, or left PENDING.
Route(p) ==
    /\ At(p, "route")
    /\ \/ Goto(p, "publish") /\ UNCHANGED faults
       \/ Goto(p, "commit")  /\ UNCHANGED faults
       \/ Goto(p, "fail")    /\ Fault
    /\ UNCHANGED <<kafka, next, seqLock, inbox, gone, stale, notified, pushed,
                   client, dead, emits, crashes>>

\* PublishAlert: written, not written, or written with the answer lost.
Publish(p) ==
    LET written == pushed' = pushed \cup {Event(p)} IN
    /\ At(p, "publish")
    /\ \/ written          /\ Goto(p, "mark") /\ UNCHANGED faults
       \/ written          /\ Goto(p, "fail") /\ Fault
       \/ UNCHANGED pushed /\ Goto(p, "fail") /\ Fault
    /\ UNCHANGED <<kafka, next, seqLock, inbox, gone, stale, notified, client,
                   dead, emits, crashes>>

SentAlways(e) == status' = [status EXCEPT ![e] = "SENT"]   \* (mutant) no WHERE status

\* UPDATE ... SET status = 'SENT' WHERE status = 'PENDING'.
Sent(e) ==
    status' = IF status[e] = "PENDING" THEN [status EXCEPT ![e] = "SENT"] ELSE status

\* Its transaction: done, rolled back, or done with the answer lost.
MarkSent(p) ==
    /\ At(p, "mark")
    /\ \/ Sent(Event(p))   /\ Goto(p, "commit") /\ UNCHANGED faults
       \/ UNCHANGED status /\ Goto(p, "fail")   /\ Fault
       \/ Sent(Event(p))   /\ Goto(p, "fail")   /\ Fault
    /\ UNCHANGED <<kafka, next, seqLock, nextCursor, cursor, gone, stale,
                   notified, pushed, client, dead, emits, crashes>>

\* retryCount: the FIRST x-retry-count header of the message.
RetryCount(m) == IF m.hdr = <<>> THEN 0 ELSE Head(m.hdr)

\* publishRetry keeps the headers and appends one more x-retry-count.
RetryMessage(m) == [ev |-> m.ev, hdr |-> Append(m.hdr, RetryCount(m) + 1)]

\* Only the retry loop counts against MaxRetry.
Exhausted(p) == p \in RetryParts /\ RetryCount(InHand(p)) + 1 > MaxRetry

FailDrops(p) ==           \* (mutant) the error path commits without a retry
    /\ At(p, "fail")
    /\ Goto(p, "commit")
    /\ UNCHANGED <<kafka, next, seqLock, inbox, gone, stale, notified, pushed,
                   client, dead, budget>>

\* The error path of both loops; what the two publishers return is dropped.
Fail(p) ==
    /\ At(p, "fail")
    /\ \/ /\ ~Exhausted(p)
          /\ \E r \in RetryParts :
                log' = [log EXCEPT ![r] = Append(@, RetryMessage(InHand(p)))]
          /\ UNCHANGED <<dead, faults>>
       \/ /\ Exhausted(p)
          /\ dead' = dead \cup {Event(p)}
          /\ UNCHANGED <<log, faults>>
       \/ /\ ProducerMayFail /\ Fault
          /\ UNCHANGED <<log, dead>>
    /\ Goto(p, "commit")
    /\ UNCHANGED <<pos, committed, next, seqLock, inbox, gone, stale, notified,
                   pushed, client, emits, crashes>>

\* CommitMessages; its error is dropped and the reader goes on.
CommitOffset(p) ==
    /\ At(p, "commit")
    /\ \/ committed' = [committed EXCEPT ![p] = pos[p]] /\ UNCHANGED faults
       \/ UNCHANGED committed /\ Fault
    /\ Goto(p, "idle")
    /\ UNCHANGED <<log, pos, next, seqLock, inbox, gone, stale, notified,
                   pushed, client, dead, emits, crashes>>

\* The process stops anywhere: its transaction rolls back, and the next
\* owner of the partition starts from the committed offset.
Crash(p) ==
    /\ crashes > 0 /\ crashes' = crashes - 1
    /\ pc[p] # "idle" \/ pos[p] # committed[p]
    /\ Goto(p, "idle")
    /\ pos' = [pos EXCEPT ![p] = committed[p]]
    /\ seqLock' = IF seqLock = p THEN NoWorker ELSE seqLock
    /\ UNCHANGED <<log, committed, next, inbox, gone, stale, notified, pushed,
                   client, dead, emits, faults>>
-----------------------------------------------------------------------------
(* The others that read or move a row.                                     *)

\* PullPending: open rows of the window behind no cursor, the first ones.
Pullable(u) == {e \in Events : /\ OwnerOf[e] = u
                               /\ status[e] \in Open
                               /\ e \notin stale
                               /\ cursor[e] > at[u]}

Page(u) == {e \in Pullable(u) :
              Cardinality({f \in Pullable(u) : cursor[f] < cursor[e]}) < PullLimit}

\* The client goes on from next_cursor; an empty page answers next_cursor 0.
Pull(u) ==
    /\ seen' = seen \cup Page(u)
    /\ IF Page(u) = {}
       THEN \E c \in {0, at[u]} : at' = [at EXCEPT ![u] = c]
       ELSE \E last \in Page(u) :
              /\ \A e \in Page(u) : cursor[e] <= cursor[last]
              /\ at' = [at EXCEPT ![u] = cursor[last]]
    /\ UNCHANGED <<kafka, worker, inbox, gone, stale, notified, pushed, dead, budget>>

\* ws-gateway hands a pushed alert to the client; it may also drop it.
WsDeliver(e) ==
    /\ e \in pushed /\ e \notin seen
    /\ seen' = seen \cup {e}
    /\ UNCHANGED <<kafka, worker, inbox, gone, stale, notified, pushed, at, dead, budget>>

\* The client acknowledges only what it has received.
Ack(e) ==
    /\ e \in seen
    /\ status[e] \in Open
    /\ status' = [status EXCEPT ![e] = "ACKED"]
    /\ UNCHANGED <<kafka, worker, nextCursor, cursor, gone, stale, notified,
                   pushed, client, dead, budget>>

ExpirableSent == {e \in stale : status[e] = "SENT"}   \* (mutant) PENDING is left

\* ExpireStale: one UPDATE for all rows out of the window.
Expirable == {e \in stale : status[e] \in Open}

ExpireStale ==
    /\ Expirable # {}
    /\ status' = [e \in Events |-> IF e \in Expirable THEN "EXPIRED" ELSE status[e]]
    /\ UNCHANGED <<kafka, worker, nextCursor, cursor, gone, stale, notified,
                   pushed, client, dead, budget>>
-----------------------------------------------------------------------------
Work(p) ==
    \/ Fetch(p) \/ Lookup(p) \/ LockCursor(p) \/ CommitInsert(p) \/ Notify(p)
    \/ Route(p) \/ Publish(p) \/ MarkSent(p) \/ Fail(p) \/ CommitOffset(p)

Next ==
    \/ \E p \in AlertParts, e \in Events : Emit(p, e)
    \/ \E e \in Events : DeleteRule(e) \/ Age(e) \/ WsDeliver(e) \/ Ack(e)
    \/ \E u \in Users : Pull(u)
    \/ \E p \in Parts : Work(p) \/ Crash(p)
    \/ ExpireStale

Spec == Init /\ [][Next]_vars

\* The reader goroutines loop for ever, the expiry scan has a ticker, and
\* time passes.
Fairness ==
    /\ \A p \in Parts : WF_vars(Work(p))
    /\ WF_vars(ExpireStale)
    /\ \A e \in Events : WF_vars(Age(e))

FairSpec == Spec /\ Fairness
-----------------------------------------------------------------------------
KafkaOK ==
    /\ log \in [Parts -> Seq(Message)]
    /\ pos \in [Parts -> Nat]
    /\ committed \in [Parts -> Nat]

WorkerOK ==
    /\ pc \in [Parts -> Labels]
    /\ next \in [Parts -> Nat]
    /\ seqLock \in Parts \cup {NoWorker}

InboxOK ==
    /\ nextCursor \in Nat \ {0}
    /\ status \in [Events -> {"NONE", "PENDING", "SENT", "ACKED", "EXPIRED"}]
    /\ cursor \in [Events -> Nat]

MarksOK ==
    /\ gone \subseteq Events /\ stale \subseteq Events /\ pushed \subseteq Events
    /\ seen \subseteq Events /\ dead \subseteq Events
    /\ notified \subseteq Events
    /\ at \in [Users -> Nat]

BudgetOK == emits \in Nat /\ faults \in Nat /\ crashes \in Nat

TypeOK == KafkaOK /\ WorkerOK /\ InboxOK /\ MarksOK /\ BudgetOK

\* Two rows never share a cursor id, whichever workers stored them and
\* however often they retried (InsertAlertRecords: the seq row's lock).
CursorsDistinct ==
    \A e, f \in Events :
        e # f /\ status[e] # "NONE" /\ status[f] # "NONE" => cursor[e] # cursor[f]

\* The pull cursor skips nothing: a row at or before the client's cursor
\* that could still be pulled has been received.  It would break if a row
\* could commit behind a cursor a client has already passed.
PullSkipsNothing ==
    \A e \in Events :
        status[e] \in Open /\ e \notin stale /\ cursor[e] <= at[OwnerOf[e]]
            => e \in seen

\* An event is handled once it has a row, was given up on (dead letter), or
\* has no rule left to deliver for.
Handled(e) == status[e] # "NONE" \/ e \in dead \/ e \in gone

\* e waits in notify_retry beyond what the group has committed.
Queued(e) == \E r \in RetryParts : \E i \in DOMAIN log[r] :
                i > committed[r] /\ log[r][i].ev = e

\* "处理成功后再提交 offset" (cmd/notify/main.go:123): behind a committed offset
\* no event is lost; it is handled, or it waits in the retry topic.
NoEventLost ==
    \A p \in Parts : \A i \in DOMAIN log[p] :
        i <= committed[p] => Handled(log[p][i].ev) \/ Queued(log[p][i].ev)

\* SENT says that the delivery really is in ws_push, and ACKED that the
\* client has it, although a retry, a pull or an early ACK may race MarkSent.
StatusIsTrue ==
    \A e \in Events : /\ status[e] = "SENT"  => e \in pushed
                      /\ status[e] = "ACKED" => e \in seen

\* The inbox implements the delivery state machine of the domain package.
Delivery == INSTANCE AlertDelivery WITH Deliveries <- Events
ImplementsDelivery == Delivery!Spec

\* Every emitted event is eventually handled, although calls fail and
\* workers crash (a bounded number of times).
EveryEventHandled ==
    \A e \in Events :
        (\E p \in AlertParts : \E i \in DOMAIN log[p] : log[p][i].ev = e) ~> Handled(e)

\* Every stored alert is dispatched to the channels, although the handling
\* that stored it may fail before it gets there: a retry that meets the row
\* dispatches all the same (inbox.go:115), unless it was given up on.
EveryAlertNotified ==
    \A e \in Events :
        (status[e] # "NONE") ~> (e \in notified \/ e \in dead \/ e \in gone)

\* Every stored delivery reaches one of the two final states.
EveryDeliveryEnds ==
    \A e \in Events : (status[e] # "NONE") ~> (status[e] \in {"ACKED", "EXPIRED"})
=============================================================================
