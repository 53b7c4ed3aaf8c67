---------------------------- MODULE Entitlement ----------------------------
(***************************************************************************)
(* What a user may receive, from the table to the connections.             *)
(*                                                                         *)
(*   biz-service   user_vip, changed by grant and expireOverdue;           *)
(*   Redis         user_vip:{id}, a copy with a time to live, written by   *)
(*                 these two and by whoever misses it (planOf);            *)
(*   ws-gateway    Conn.Ent, read from the copy on connecting and by the   *)
(*                 reconciler, which goes over the connections from time   *)
(*                 to time; Conn.KlineSubs, the K-line periods of a        *)
(*                 connection, of which the free plan has only the first.  *)
(*                                                                         *)
(* One user.  vip1 to vip3 are one plan to the gateway.                    *)
(***************************************************************************)
EXTENDS Integers, FiniteSets

CONSTANTS
    Conns,                  \* connections of the user, each used once
    MaxGrants, MaxFrames,   \* bounds: changes of the plan, frames
    MaxFaults               \* bound: failing calls, rollbacks, lost copies

ASSUME EntitlementAssumption == {MaxGrants, MaxFrames, MaxFaults} \subseteq Nat

Free == "free"
Vip  == "vip"
Periods == {"1", "5"}       \* minutes
Row  == {[plan |-> Free, dated |-> FALSE]} \cup [plan : {Vip}, dated : BOOLEAN]  \* dated: it ends
None == [plan |-> "none", dated |-> FALSE]

VARIABLES
    table,              \* user_vip
    writer,             \* the change in hand: [at, row]
    refill,             \* planOf: the row it read, or None
    astray,             \* a write of the copy failed, was rolled back, or came late
    copy,               \* user_vip:{id}, or None
    past,               \* is the date over?
    rpc,                \* rpc[c]: serveConn: off -> plan -> read <-> add -> off
    held,               \* held[c]: plan a frame (or the connecting) has read
    wants,              \* wants[c]: period of the frame
    ent, periods,       \* Conn.Ent, Conn.KlineSubs
    rec,                \* reconciler: [at, plan, todo, trim], the last two connections
    raced,              \* downgraded while a frame held the old plan
    grants, frames, faults   \* what is left of the bounds

biz     == <<table, writer, refill, astray>>
gateway == <<rpc, held, wants, ent, periods>>
budget  == <<grants, frames, faults>>
vars    == <<biz, copy, past, gateway, rec, raced, budget>>

Resting == [at |-> "idle", plan |-> Free, todo |-> {}, trim |-> {}]
Done    == [at |-> "none", row |-> None]

Init ==
    /\ table = [plan |-> Free, dated |-> FALSE]
    /\ writer = Done /\ refill = None /\ copy = None /\ past = FALSE /\ astray = FALSE
    /\ rpc = [c \in Conns |-> "off"]
    /\ held = [c \in Conns |-> Free] /\ wants = [c \in Conns |-> "1"]
    /\ ent = [c \in Conns |-> Free] /\ periods = [c \in Conns |-> {}]
    /\ rec = Resting /\ raced = {}
    /\ grants = MaxGrants /\ frames = MaxFrames /\ faults = MaxFaults

Fault == faults > 0 /\ faults' = faults - 1
-----------------------------------------------------------------------------
(* biz-service                                                             *)

NotCopied(row) == UNCHANGED <<copy, astray>>     \* (mutant) only the table is changed
Copied(row) == copy' = row /\ astray' = FALSE

\* grant, in a transaction: upsert and cache.set, then the commit.
Grant(row) ==
    /\ writer = Done /\ grants > 0 /\ grants' = grants - 1
    /\ Copied(row)
    /\ writer' = [at |-> "commit", row |-> row]
    /\ UNCHANGED <<table, refill, past, gateway, rec, raced, frames, faults>>

\* The commit, or a rollback (the audit row, the commit itself): the copy stays.
EndGrant ==
    /\ writer.at = "commit" /\ writer' = Done
    /\ \/ table' = writer.row /\ UNCHANGED <<astray, faults>>
       \/ Fault /\ astray' = TRUE /\ UNCHANGED table
    /\ UNCHANGED <<refill, copy, past, gateway, rec, raced, grants, frames>>

\* expireOverdue, in no transaction: upsert,
Expire ==
    /\ writer = Done /\ past /\ table = [plan |-> Vip, dated |-> TRUE]
    /\ table' = [plan |-> Free, dated |-> FALSE]
    /\ writer' = [at |-> "copy", row |-> table']
    /\ UNCHANGED <<refill, astray, copy, past, gateway, rec, raced, budget>>

\* ... and cache.set, which may fail; the row is not found again.
EndExpire ==
    /\ writer.at = "copy" /\ writer' = Done
    /\ \/ Copied(writer.row) /\ UNCHANGED faults
       \/ Fault /\ astray' = TRUE /\ UNCHANGED copy
    /\ UNCHANGED <<table, refill, past, gateway, rec, raced, grants, frames>>

\* planOf misses the copy and reads the row, whose last commit it sees,
ReadRow ==
    /\ copy = None /\ refill = None /\ refill' = table
    /\ UNCHANGED <<table, writer, astray, copy, past, gateway, rec, raced, budget>>

\* ... and writes it.
Refill ==
    /\ refill # None /\ copy' = refill /\ refill' = None
    /\ astray' = (astray \/ refill # table \/ writer # Done)
    /\ UNCHANGED <<table, writer, past, gateway, rec, raced, budget>>

\* Five minutes pass, or Redis loses it.
LoseCopy ==
    /\ copy # None /\ Fault /\ copy' = None
    /\ UNCHANGED <<biz, past, gateway, rec, raced, grants, frames>>

DateComes == ~past /\ past' = TRUE /\ UNCHANGED <<biz, copy, gateway, rec, raced, budget>>
-----------------------------------------------------------------------------
(* ws-gateway                                                              *)

\* PlanType: a plan whose date is over is read as the free one.
PlanType == IF copy.dated /\ past THEN Free ELSE copy.plan

KlineAllowed(plan, p) == plan = Vip \/ p = "1"

Move(c, l) == rpc' = [rpc EXCEPT ![c] = l]

\* serveConn reads the plan; a miss or an error is the free one.
ReadPlan(c) ==
    /\ rpc[c] = "off" /\ Move(c, "plan")
    /\ \/ /\ held' = [held EXCEPT ![c] = IF copy = None THEN Free ELSE PlanType]
          /\ UNCHANGED faults
       \/ Fault /\ UNCHANGED held
    /\ UNCHANGED <<biz, copy, past, wants, ent, periods, rec, raced, grants, frames>>

\* Ent.Store and Register.
Register(c) ==
    /\ rpc[c] = "plan" /\ Move(c, "read")
    /\ ent' = [ent EXCEPT ![c] = held[c]] /\ held' = [held EXCEPT ![c] = Free]
    /\ UNCHANGED <<biz, copy, past, wants, periods, rec, raced, budget>>

Frame(c) == rpc[c] = "read" /\ frames > 0 /\ frames' = frames - 1

\* A sub frame loads the entitlement,
SubKline(c, p) ==
    /\ Frame(c) /\ Move(c, "add")
    /\ held' = [held EXCEPT ![c] = ent[c]]
    /\ wants' = [wants EXCEPT ![c] = p]
    /\ UNCHANGED <<biz, copy, past, ent, periods, rec, raced, grants, faults>>

AnyPeriod(c) == TRUE     \* (mutant) no gate
Allowed(c) == KlineAllowed(held[c], wants[c])

\* ... and adds its period if that allows it.
AddPeriod(c) ==
    /\ rpc[c] = "add" /\ Move(c, "read")
    /\ periods' = IF Allowed(c) THEN [periods EXCEPT ![c] = @ \cup {wants[c]}] ELSE periods
    /\ held' = [held EXCEPT ![c] = Free] /\ wants' = [wants EXCEPT ![c] = "1"]
    /\ UNCHANGED <<biz, copy, past, ent, rec, raced, budget>>

UnsubKline(c, p) ==
    /\ Frame(c) /\ p \in periods[c]
    /\ periods' = [periods EXCEPT ![c] = @ \ {p}]
    /\ UNCHANGED <<biz, copy, past, rpc, held, wants, ent, rec, raced, grants, faults>>

Online == {c \in Conns : rpc[c] \in {"read", "add"}}
-----------------------------------------------------------------------------
(* EntitlementReconciler                                                   *)

\* The ticker: UserIDs has the user.
Tick ==
    /\ rec.at = "idle" /\ Online # {} /\ rec' = [Resting EXCEPT !.at = "plan"]
    /\ UNCHANGED <<biz, copy, past, gateway, raced, budget>>

\* PlanType; without it all stays as it is until the next tick.
ReadCopy ==
    /\ rec.at = "plan"
    /\ \/ /\ rec' = IF copy = None THEN Resting
                    ELSE [at |-> "conns", plan |-> PlanType, todo |-> Online, trim |-> {}]
          /\ UNCHANGED faults
       \/ Fault /\ rec' = Resting
    /\ UNCHANGED <<biz, copy, past, gateway, raced, grants, frames>>

OnlyUpgrades(c) == ent[c] = Free /\ rec.plan = Vip     \* (mutant)
Differs(c) == ent[c] # rec.plan

\* One connection after the other (the snapshot of UserConns): Ent.Store.
Store(c) ==
    /\ rec.at = "conns" /\ rec.trim = {} /\ c \in rec.todo
    /\ IF Differs(c)
       THEN /\ ent' = [ent EXCEPT ![c] = rec.plan]
            /\ raced' = IF rec.plan = Free /\ rpc[c] = "add" THEN raced \cup {c} ELSE raced \ {c}
            /\ rec' = [rec EXCEPT !.todo = @ \ {c}, !.trim = IF rec.plan = Free THEN {c} ELSE {}]
       ELSE rec' = [rec EXCEPT !.todo = @ \ {c}] /\ UNCHANGED <<ent, raced>>
    /\ UNCHANGED <<biz, copy, past, rpc, held, wants, periods, budget>>

\* ... then Periods and Remove.
Trim(c) ==
    /\ c \in rec.trim /\ rec' = [rec EXCEPT !.trim = {}]
    /\ periods' = [periods EXCEPT ![c] = {p \in @ : KlineAllowed(Free, p)}]
    /\ UNCHANGED <<biz, copy, past, rpc, held, wants, ent, raced, budget>>

Rest == /\ rec.at = "conns" /\ rec.todo = {} /\ rec.trim = {} /\ rec' = Resting
        /\ UNCHANGED <<biz, copy, past, gateway, raced, budget>>

\* The connection ends: nothing of it is kept.
Leave(c) ==
    /\ rpc[c] = "read" /\ Move(c, "gone")
    /\ periods' = [periods EXCEPT ![c] = {}] /\ ent' = [ent EXCEPT ![c] = Free]
    /\ raced' = raced \ {c}
    /\ UNCHANGED <<biz, copy, past, held, wants, rec, budget>>
-----------------------------------------------------------------------------
Biz == EndGrant \/ Expire \/ EndExpire \/ ReadRow \/ Refill \/ \E row \in Row : Grant(row)

Serve(c) == \/ ReadPlan(c) \/ Register(c) \/ AddPeriod(c) \/ Leave(c)
            \/ \E p \in Periods : SubKline(c, p) \/ UnsubKline(c, p)

Reconcile == Tick \/ ReadCopy \/ Rest \/ \E c \in Conns : Store(c) \/ Trim(c)

Next == Biz \/ LoseCopy \/ DateComes \/ Reconcile \/ \E c \in Conns : Serve(c)

Spec == Init /\ [][Next]_vars

\* The ticker fires and the reconciler goes on; frames are handled.  Nobody
\* has to connect, to change a plan, or to run biz-service's job.
Fairness ==
    /\ WF_vars(Reconcile)
    /\ \A c \in Conns : WF_vars(AddPeriod(c))

FairSpec == Spec /\ Fairness
-----------------------------------------------------------------------------
\* A connection of the free plan has no paid K-line period, unless the
\* reconciler is about to take it away, or took the plan away while a frame
\* that had read it was being handled: then the period stays.
PaidNeedsPlan ==
    \A c \in Online :
        ent[c] = Free /\ periods[c] \ {"1"} # {} => c \in rec.trim \cup raced

\* With no change in hand the copy is the row of the table, unless its last
\* write is known to have gone astray: a rollback after it, a failing call, or
\* a reader that had the row before the change and wrote it after.
CopyIsExplained == writer = Done => copy \in {None, table} \/ astray

\* If the copy is there and says one plan from some time on, every connection
\* has that plan from some time on, whatever it read when it connected and
\* however often the reconciler's read failed; that a date is over counts even
\* if biz-service never runs its job.
PlanReachesConns ==
    \A plan \in {Free, Vip} :
        <>[](copy # None /\ PlanType = plan) => <>[](\A c \in Online : ent[c] = plan)
=============================================================================
