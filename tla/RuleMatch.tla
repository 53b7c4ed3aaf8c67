----------------------------- MODULE RuleMatch -----------------------------
(***************************************************************************)
(* The matcher of TickRuleJob for one symbol: its ticks meet the rules     *)
(* that rule_bcast brings, and an alert keeps a rule quiet for a while.    *)
(*                                                                         *)
(* Flink reads the two topics in an order of its own, saves state and      *)
(* offsets together (Checkpoint), and after a failure goes on from what it *)
(* saved (Restore): ticks and rules since then are read again, perhaps in  *)
(* another order, and their alerts written again.  notify drops an event   *)
(* whose id it has, so alerts are a set here.                              *)
(*                                                                         *)
(* A price and what makes a rule match it are reduced to a threshold.      *)
(***************************************************************************)
EXTENDS Integers, Sequences, FiniteSets

CONSTANTS
    Rules,          \* rule ids
    Gaps,           \* cooldowns and spike windows, in seconds
    PerSecond,      \* units of a tick's time in a second
    Times, Prices,  \* of ticks
    Threshold, Jump,
    MaxTicks, MaxMessages, MaxFailures  \* bounds

ASSUME MatchAssumption ==
    /\ Gaps \subseteq 1..100 /\ PerSecond \in Nat \ {0}
    /\ Times \subseteq Nat /\ Prices \subseteq Nat \ {0} /\ {Threshold, Jump} \subseteq Nat
    /\ {MaxTicks, MaxMessages, MaxFailures} \subseteq Nat

VARIABLES
    ticks, bcast,   \* what has been read of tick_raw (this symbol) and rule_bcast
    state,          \* the operator and its sources, see Fresh
    saved,          \* state at the last checkpoint
    alerts,         \* handed to the sink of alert_event: [rule, ver, kind, sec, gap]
    reordered,      \* rules that ticks have met, or may meet, in two versions
    failures        \* what is left of the bound

matchVars == <<ticks, bcast, state, saved, alerts, reordered, failures>>

Never == -100       \* 0L in the code: longer ago than any gap
NoRef == [price |-> 0, ts |-> Never]
NoRule == [ver |-> -1]

Fresh == [t |-> 0, b |-> 0,                           \* messages applied
          rules |-> [r \in Rules |-> NoRule],         \* broadcast state
          last  |-> [r \in Rules |-> Never],          \* lastTrigger
          ref   |-> [r \in Rules |-> NoRef]]          \* spikeRefPrice, spikeRefTs

MatchInit ==
    /\ ticks = <<>> /\ bcast = <<>>
    /\ state = Fresh /\ saved = Fresh
    /\ alerts = {} /\ reordered = {}
    /\ failures = MaxFailures
-----------------------------------------------------------------------------
(* processElement                                                          *)

Second(tick) == tick.ts \div PerSecond

Matches(tick) == tick.price > Threshold                 \* RuleConditions.match
SpikeTriggered(ref, tick) == tick.price >= ref.price + Jump

\* (mutants) the units mixed up; the boundary belongs to the cooldown
CoolingUnits(r, tick) == tick.ts - state.last[r] * PerSecond < state.rules[r].gap
CoolingLonger(r, tick) == Second(tick) - state.last[r] <= state.rules[r].gap

\* The cooldown, counted in seconds from the last trigger.
Cooling(r, tick) == Second(tick) - state.last[r] < state.rules[r].gap

Plain(r, tick) == state.rules[r].ver >= 0 /\ state.rules[r].kind = "plain"
Spike(r, tick) == state.rules[r].ver >= 0 /\ state.rules[r].kind = "spike"

\* A spike rule takes a first reference, and a new one when its window is full.
WindowFull(r, tick) ==
    state.ref[r] # NoRef /\ tick.ts - state.ref[r].ts >= state.rules[r].gap * PerSecond

Fires(r, tick) ==
    \/ Plain(r, tick) /\ Matches(tick) /\ ~Cooling(r, tick)
    \/ Spike(r, tick) /\ WindowFull(r, tick) /\ SpikeTriggered(state.ref[r], tick)

Triggered(tick) == [r \in Rules |->
    IF Plain(r, tick) /\ Fires(r, tick) THEN Second(tick) ELSE state.last[r]]

Referred(tick) == [r \in Rules |->
    IF Spike(r, tick) /\ (state.ref[r] = NoRef \/ WindowFull(r, tick))
    THEN [price |-> tick.price, ts |-> tick.ts] ELSE state.ref[r]]

Alert(r, tick) == [rule |-> r, ver |-> state.rules[r].ver, kind |-> state.rules[r].kind,
                   sec |-> Second(tick), gap |-> state.rules[r].gap]

\* The next tick of the topic, read again or for the first time; the ticks
\* of a symbol come from several senders and need not be in order.
ProcessTick(tick) ==
    /\ IF state.t < Len(ticks) THEN tick = ticks[state.t + 1] /\ UNCHANGED ticks
                               ELSE Len(ticks) < MaxTicks /\ ticks' = Append(ticks, tick)
    /\ state' = [state EXCEPT !.t = @ + 1, !.last = Triggered(tick), !.ref = Referred(tick)]
    /\ alerts' = alerts \cup {Alert(r, tick) : r \in {r \in Rules : Fires(r, tick)}}
    /\ UNCHANGED <<bcast, saved, reordered, failures>>

\* processBroadcastElement; cooldown and reference of the rule stay.  Ticks
\* that are being read again will meet another version of it.
ProcessRule(m) ==
    /\ IF state.b < Len(bcast) THEN m = bcast[state.b + 1] /\ UNCHANGED bcast
                               ELSE Len(bcast) < MaxMessages /\ bcast' = Append(bcast, m)
    /\ state' = [state EXCEPT !.b = @ + 1,
                   !.rules[m.rule] = IF m.op = "DELETE" THEN NoRule
                                     ELSE IF m.ver > @.ver
                                     THEN [ver |-> m.ver, kind |-> m.kind, gap |-> m.gap]
                                     ELSE @]
    /\ reordered' = IF state.t < Len(ticks) THEN reordered \cup {m.rule} ELSE reordered
    /\ UNCHANGED <<ticks, saved, alerts, failures>>
-----------------------------------------------------------------------------
(* Flink                                                                   *)

\* The sink is flushed with the checkpoint.
Checkpoint ==
    /\ saved # state /\ saved' = state
    /\ UNCHANGED <<ticks, bcast, state, alerts, reordered, failures>>

Fails == failures > 0 /\ failures' = failures - 1

\* The job goes on from the checkpoint; what the sink has got since may be in
\* the topic or not, and comes again unless a message of the rule, read again
\* or new, is met elsewhere this time.
Restore ==
    /\ Fails /\ state' = saved
    /\ reordered' = reordered \cup {bcast[i].rule : i \in (saved.b + 1)..Len(bcast)}
    /\ UNCHANGED <<ticks, bcast, saved, alerts>>

\* Submitted anew without its state: ticks from now on, rules from the start.
Submit ==
    /\ Fails
    /\ state' = [Fresh EXCEPT !.t = Len(ticks)] /\ saved' = state'
    /\ alerts' = {} /\ reordered' = {}
    /\ UNCHANGED <<ticks, bcast>>

Ticks == [ts : Times, price : Prices]
Messages == [rule : Rules, op : {"UPSERT"}, ver : 0..1, kind : {"plain", "spike"}, gap : Gaps]
            \cup [rule : Rules, op : {"DELETE"}]

MatchNext == \/ \E tick \in Ticks : ProcessTick(tick)
        \/ \E m \in Messages : ProcessRule(m)
        \/ Checkpoint \/ Restore \/ Submit

MatchSpec == MatchInit /\ [][MatchNext]_matchVars
-----------------------------------------------------------------------------
\* "冷却 ... 防抖" (RuleMatchFunction): two alerts of a rule with different ids
\* are a cooldown, or for a spike rule a window, apart, whatever the order of
\* the ticks, and although a failure has ticks matched twice.  Where a message
\* of the rule was read again as well, or came while ticks were, the ids may
\* come from two versions of the rule.
OnceInAWhile ==
    \A a, b \in alerts :
        a.rule = b.rule /\ a.kind = b.kind /\ a.sec < b.sec =>
            b.sec - a.sec >= b.gap \/ a.rule \in reordered

\* A rule is never quiet without reason: when a tick matches it, its alert is
\* written now or was within the cooldown before (or for a later tick), even
\* if it was deleted or changed in between or the job has failed.
MatchIsTold ==
    [][state'.t = state.t + 1 /\ failures' = failures =>
        LET tick == ticks'[state'.t] IN
        \A r \in Rules : Plain(r, tick) /\ Matches(tick) =>
            \E a \in alerts' : /\ a.rule = r /\ a.kind = "plain"
                               /\ Second(tick) - a.sec < state.rules[r].gap]_matchVars
=============================================================================
