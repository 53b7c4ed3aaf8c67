---------------------------- MODULE GatewaySlots ----------------------------
(***************************************************************************)
(* One slot of ws_push, a fixed partition of that topic, and the           *)
(* ws-gateway instances that compete for it:                               *)
(*                                                                         *)
(*   LeaseManager.tick   acquires, renews or loses gwslease:{slot} and     *)
(*                       keeps the slot in gwidslots:{gateway}             *)
(*   SlotConsumer        started and cancelled by the manager's callbacks, *)
(*                       reads the partition from the offset in Redis      *)
(*   notify, quote-push  write to the slot what gwidslots tells them       *)
(*                                                                         *)
(* A consumer that has been cancelled runs on until it notices, next to    *)
(* the one another instance, or the same one, has started meanwhile.       *)
(***************************************************************************)
EXTENDS Integers, Sequences, FiniteSets

CONSTANTS
    Gateways,
    Nobody,       \* no lease; no addressee
    CommitEvery,  \* commitEvery: throttle for messages that are no alerts
    MaxConsumers, \* bound: consumer goroutines of one instance at a time
    MaxMessages,  \* bound: messages in the partition
    MaxFaults,    \* bound: failing Redis calls and renewals that come late
    MaxStops      \* bound: crashes and shutdowns

ASSUME SlotsAssumption ==
    /\ Nobody \notin Gateways
    /\ {MaxMessages, MaxFaults, MaxStops} \subseteq Nat
    /\ {CommitEvery, MaxConsumers} \subseteq Nat \ {0}

VARIABLES
    lease,     \* gwslease:{slot}, the holder
    index,     \* the instances whose gwidslots has the slot
    mpc,       \* mpc[g]: where the lease manager is
    held,      \* held[g]: LeaseManager.held[slot]
    current,   \* current[g]: the consumer in the map "consumers", 0 if none
    con,       \* con[g][k]: the consumer goroutines
    offset,    \* the slot's offset in Redis, -1 if there is none
    part,      \* the partition: whom an alert is for, Nobody for a quote
    handled,   \* messages the instance they are for has dispatched
    skipped,   \* messages a consumer has jumped over when it opened
    opened,    \* instances that have consumed the slot
    faults, stops   \* what is left of the bounds

redis    == <<lease, index, offset>>
manager  == <<mpc, held, current>>
stream   == <<part, handled, skipped, opened>>
budget   == <<faults, stops>>
vars     == <<redis, manager, con, stream, budget>>

Consumers == 1..MaxConsumers
NoConsumer == [st |-> "off", pos |-> 0, pending |-> -1, last |-> -1, cancelled |-> FALSE]

Init ==
    /\ lease = Nobody /\ index = {} /\ offset = -1
    /\ mpc = [g \in Gateways |-> "idle"]
    /\ held = [g \in Gateways |-> FALSE]
    /\ current = [g \in Gateways |-> 0]
    /\ con = [g \in Gateways |-> [k \in Consumers |-> NoConsumer]]
    /\ part = <<>> /\ handled = {} /\ skipped = {} /\ opened = {}
    /\ faults = MaxFaults /\ stops = MaxStops

Fault == faults > 0 /\ faults' = faults - 1
Goto(g, l) == mpc' = [mpc EXCEPT ![g] = l]
-----------------------------------------------------------------------------
(* LeaseManager.tick for the slot                                          *)

\* leaseScript: free, mine or another's; an error leaves all as it is.
Acquire(g) ==
    /\ lease = Nobody /\ lease' = g
    /\ held' = [held EXCEPT ![g] = TRUE]
    /\ Goto(g, "add")

Renew(g) ==
    /\ lease = g /\ UNCHANGED lease
    /\ held' = [held EXCEPT ![g] = TRUE]
    /\ Goto(g, IF held[g] THEN "idle" ELSE "start")

Lose(g) ==
    /\ lease \notin {g, Nobody} /\ UNCHANGED lease
    /\ held' = [held EXCEPT ![g] = FALSE]
    /\ Goto(g, IF held[g] THEN "remove" ELSE "idle")

Tick(g) ==
    /\ mpc[g] = "idle"
    /\ \/ (Acquire(g) \/ Renew(g) \/ Lose(g)) /\ UNCHANGED faults
       \/ Fault /\ UNCHANGED <<lease, held, mpc>>
    /\ UNCHANGED <<index, offset, current, con, stream, stops>>

\* SADD gwidslots, only after an acquisition; its error is logged.
AddIndex(g) ==
    /\ mpc[g] = "add" /\ Goto(g, "start")
    /\ \/ index' = index \cup {g} /\ UNCHANGED faults
       \/ Fault /\ UNCHANGED index
    /\ UNCHANGED <<lease, offset, held, current, con, stream, stops>>

\* OnAcquire = startConsumer: nothing if the map has one.
StartConsumer(g) ==
    /\ mpc[g] = "start" /\ Goto(g, "idle")
    /\ IF current[g] # 0
       THEN UNCHANGED <<current, con>>
       ELSE \E k \in Consumers :
              /\ con[g][k].st = "off"
              /\ con' = [con EXCEPT ![g][k] = [NoConsumer EXCEPT !.st = "open"]]
              /\ current' = [current EXCEPT ![g] = k]
    /\ UNCHANGED <<redis, held, stream, budget>>

RemoveIndex(g) ==
    /\ mpc[g] = "remove" /\ Goto(g, "stop")
    /\ \/ index' = index \ {g} /\ UNCHANGED faults
       \/ Fault /\ UNCHANGED index
    /\ UNCHANGED <<lease, offset, held, current, con, stream, stops>>

StopKeepsEntry(g) ==      \* (mutant) no delete(consumers, slot)
    /\ mpc[g] = "stop" /\ Goto(g, "idle")
    /\ con' = IF current[g] = 0 THEN con ELSE [con EXCEPT ![g][current[g]].cancelled = TRUE]
    /\ UNCHANGED <<redis, held, current, stream, budget>>

StopForgets(g) ==         \* (mutant) no cancel()
    /\ mpc[g] = "stop" /\ Goto(g, "idle")
    /\ current' = [current EXCEPT ![g] = 0]
    /\ UNCHANGED <<redis, held, con, stream, budget>>

\* OnLose = stopConsumer: cancelled, not waited for.
StopConsumer(g) ==
    /\ mpc[g] = "stop" /\ Goto(g, "idle")
    /\ con' = IF current[g] = 0 THEN con ELSE [con EXCEPT ![g][current[g]].cancelled = TRUE]
    /\ current' = [current EXCEPT ![g] = 0]
    /\ UNCHANGED <<redis, held, stream, budget>>
-----------------------------------------------------------------------------
(* The end of an instance                                                  *)

\* SIGTERM cancels every context at once; releaseAll follows.
Shutdown(g) ==
    /\ stops > 0 /\ stops' = stops - 1
    /\ mpc[g] = "idle"
    /\ con' = [con EXCEPT ![g] = [k \in Consumers |->
                 IF @[k].st = "off" THEN @[k] ELSE [@[k] EXCEPT !.cancelled = TRUE]]]
    /\ Goto(g, IF held[g] THEN "get" ELSE "down")
    /\ UNCHANGED <<redis, held, current, stream, faults>>

\* GET, then DEL: the lease may have changed hands in between.
ReadLease(g) ==
    /\ mpc[g] = "get"
    /\ Goto(g, IF lease = g THEN "del" ELSE "srem")
    /\ UNCHANGED <<redis, held, current, con, stream, budget>>

DeleteLease(g) ==
    /\ mpc[g] = "del" /\ Goto(g, "srem")
    /\ lease' = Nobody
    /\ UNCHANGED <<index, offset, held, current, con, stream, budget>>

Unregister(g) ==
    /\ mpc[g] = "srem" /\ Goto(g, "down")
    /\ index' = index \ {g}
    /\ held' = [held EXCEPT ![g] = FALSE]
    /\ current' = [current EXCEPT ![g] = 0]
    /\ UNCHANGED <<lease, offset, con, stream, budget>>

Gone(g) == /\ held' = [held EXCEPT ![g] = FALSE]
           /\ current' = [current EXCEPT ![g] = 0]
           /\ con' = [con EXCEPT ![g] = [k \in Consumers |-> NoConsumer]]

Crash(g) ==
    /\ stops > 0 /\ stops' = stops - 1
    /\ Goto(g, "down") /\ Gone(g)
    /\ UNCHANGED <<redis, stream, faults>>

\* Under the same GATEWAY_ID.
Restart(g) ==
    /\ mpc[g] = "down" /\ Goto(g, "idle") /\ Gone(g)
    /\ UNCHANGED <<redis, stream, budget>>

\* The TTL runs out: nobody renews, or the renewal comes too late.
Expire ==
    /\ lease # Nobody /\ lease' = Nobody
    /\ IF mpc[lease] = "down" THEN UNCHANGED faults ELSE Fault
    /\ UNCHANGED <<index, offset, manager, con, stream, stops>>
-----------------------------------------------------------------------------
(* SlotConsumer.Run                                                        *)

StartAt(o) == IF o = -1 THEN Len(part) ELSE o

\* The offset in Redis; without one, or if it cannot be read, the end.
Open(g, k) ==
    /\ con[g][k].st = "open" /\ ~con[g][k].cancelled
    /\ \E from \in {offset, -1} :
          /\ IF from = offset THEN UNCHANGED faults ELSE Fault
          /\ con' = [con EXCEPT ![g][k].st = "fetch",
                                ![g][k].pos = StartAt(from)]
          /\ skipped' = IF from = -1 THEN skipped \cup DOMAIN part ELSE skipped
    /\ opened' = opened \cup {g}
    /\ UNCHANGED <<redis, manager, part, handled, stops>>

Mine(g, i) == part[i] = g

HandleDropsLate(g, k) ==  \* (mutant) nothing is dispatched any more once cancelled
    LET i == con[g][k].pos + 1 IN
    /\ con[g][k].st = "fetch" /\ i <= Len(part)
    /\ con' = [con EXCEPT ![g][k].st = "commit", ![g][k].pos = i, ![g][k].pending = i]
    /\ handled' = IF Mine(g, i) /\ ~con[g][k].cancelled THEN handled \cup {i} ELSE handled
    /\ UNCHANGED <<redis, manager, part, skipped, opened, budget>>

\* FetchMessage, which may win over a cancellation, and handle: what is for
\* another instance is dropped, the rest dispatched.  Quotes may be dropped
\* anyway, so what becomes of one is left out.
Handle(g, k) ==
    LET i == con[g][k].pos + 1 IN
    /\ con[g][k].st = "fetch" /\ i <= Len(part)
    /\ con' = [con EXCEPT ![g][k].st = "commit", ![g][k].pos = i, ![g][k].pending = i]
    /\ handled' = IF Mine(g, i) THEN handled \cup {i} ELSE handled
    /\ UNCHANGED <<redis, manager, part, skipped, opened, budget>>

\* flush: lastCommitted moves first; SET fails on a cancelled context.
Flush(g, k, st, cancelled) ==
    LET c == con[g][k] IN
    /\ con' = [con EXCEPT ![g][k] = IF st = "off" THEN NoConsumer
                                     ELSE [@ EXCEPT !.st = st, !.last = c.pending]]
    /\ IF c.pending < 0 \/ c.pending = c.last \/ cancelled
       THEN UNCHANGED <<offset, faults>>
       ELSE \/ offset' = c.pending /\ UNCHANGED faults
            \/ Fault /\ UNCHANGED offset

\* An alert of its own is committed at once, the rest every CommitEvery.
Throttled(c, g) == ~Mine(g, c.pending) /\ c.pending - c.last < CommitEvery

Commit(g, k) ==
    LET c == con[g][k] IN
    /\ c.st = "commit"
    /\ IF Throttled(c, g)
       THEN con' = [con EXCEPT ![g][k].st = "fetch"] /\ UNCHANGED <<offset, faults>>
       ELSE Flush(g, k, "fetch", c.cancelled)
    /\ UNCHANGED <<lease, index, manager, stream, stops>>

\* The cancellation is noticed; the last flush has a context of its own.
Exit(g, k) ==
    /\ con[g][k].cancelled
    /\ con[g][k].st \in {"open", "fetch"}
    /\ Flush(g, k, "off", FALSE)
    /\ UNCHANGED <<lease, index, manager, stream, stops>>
-----------------------------------------------------------------------------
(* notify and quote-push                                                   *)

\* gwidslots, as it is or as it was: notify writes after it has read, and
\* quote-push keeps what it has read for a second.
Send(to) ==
    /\ to \in index \cup opened \cup {Nobody} /\ Len(part) < MaxMessages
    /\ part' = Append(part, to)
    /\ UNCHANGED <<redis, manager, con, handled, skipped, opened, budget>>
-----------------------------------------------------------------------------
Manage(g) ==
    \/ Tick(g) \/ AddIndex(g) \/ StartConsumer(g) \/ RemoveIndex(g) \/ StopConsumer(g)
    \/ ReadLease(g) \/ DeleteLease(g) \/ Unregister(g)

Consume(g, k) ==
    Open(g, k) \/ Handle(g, k) \/ Commit(g, k) \/ Exit(g, k)

Next ==
    \/ \E g \in Gateways : Manage(g) \/ Shutdown(g) \/ Crash(g) \/ Restart(g)
    \/ \E g \in Gateways, k \in Consumers : Consume(g, k)
    \/ Expire
    \/ \E to \in Gateways \cup {Nobody} : Send(to)

Spec == Init /\ [][Next]_vars

\* Tickers fire and goroutines run; the lease of an instance that is down
\* expires.  Nobody has to restart.
Fairness ==
    /\ \A g \in Gateways : WF_vars(Manage(g))
    /\ \A g \in Gateways, k \in Consumers : WF_vars(Consume(g, k))
    /\ WF_vars(Expire /\ mpc[lease] = "down")

FairSpec == Spec /\ Fairness
-----------------------------------------------------------------------------
TypeOK ==
    /\ lease \in Gateways \cup {Nobody}
    /\ index \subseteq Gateways /\ opened \subseteq Gateways
    /\ offset \in -1..Len(part)
    /\ handled \subseteq DOMAIN part /\ skipped \subseteq DOMAIN part
    /\ \A g \in Gateways :
          /\ current[g] \in {0} \cup Consumers
          /\ current[g] # 0 /\ mpc[g] \notin {"down", "get", "del", "srem"}
                => con[g][current[g]].st # "off" /\ ~con[g][current[g]].cancelled
          /\ \A k \in Consumers : con[g][k].pos \in 0..Len(part)

\* As long as one instance alone has consumed the slot, no alert is lost
\* behind the offset, whatever call fails and however often it crashes, is
\* shut down or loses and regains the lease.
AlertsSurviveRestart ==
    \A g \in Gateways : opened \subseteq {g} =>
        \A i \in 1..offset : Mine(g, i) => i \in handled \cup skipped

\* A consumer whose instance has lost the lease to another one stops.
OldConsumerStops ==
    \A g \in Gateways, k \in Consumers :
        (con[g][k].st # "off" /\ lease \notin {g, Nobody})
            ~> (con[g][k].st = "off" \/ lease \in {g, Nobody})

\* An instance that holds the lease does consume the slot.
Served == \E g \in Gateways : /\ lease = g /\ current[g] # 0
                              /\ con[g][current[g]].st \notin {"off", "open"}
                              /\ ~con[g][current[g]].cancelled

\* If some instance stays up the slot is served again and again, whatever
\* happens to the instance that had it.
SlotServed ==
    <>[](\E g \in Gateways : mpc[g] # "down") => []<>Served
=============================================================================
