------------------------- MODULE EntitlementProofs -------------------------
(***************************************************************************)
(* Theorems about Entitlement, for any set of connections and any bounds.  *)
(***************************************************************************)
EXTENDS Entitlement, TLAPS

USE EntitlementAssumption DEF Free, Vip

-----------------------------------------------------------------------------
(* The copy of the plan                                                    *)

\* CopyIsExplained with what holds while a change is in hand: a grant has
\* written the copy it is about to commit, the job has written the table.
CopyInv ==
    /\ CopyIsExplained
    /\ writer.at = "commit" => copy \in {None, writer.row} \/ astray
    /\ writer.at = "copy" => table = writer.row

LEMMA CopyInit == Init => CopyInv
BY DEF Init, CopyInv, CopyIsExplained, Done

LEMMA CopyStep == CopyInv /\ [Next]_vars => CopyInv'
<1> SUFFICES ASSUME CopyInv, [Next]_vars PROVE CopyInv'
  OBVIOUS
<1>. USE DEF CopyInv, CopyIsExplained, Done
<1>1. CASE UNCHANGED <<biz, copy>>
  BY <1>1 DEF biz
<1>2. ASSUME NEW row \in Row, Grant(row) PROVE CopyInv'
  BY <1>2 DEF Grant, Copied
<1>3. CASE EndGrant
  BY <1>3 DEF EndGrant
<1>4. CASE Expire
  BY <1>4 DEF Expire
<1>5. CASE EndExpire
  BY <1>5 DEF EndExpire, Copied
<1>6. CASE ReadRow
  BY <1>6 DEF ReadRow
<1>7. CASE Refill
  <2>1. copy' = refill /\ table' = table /\ writer' = writer
    BY <1>7 DEF Refill
  <2>2. astray \/ refill # table \/ writer # Done => astray'
    BY <1>7, Zenon DEF Refill
  <2>3. CASE astray'
    BY <2>1, <2>3
  <2>4. CASE refill = table /\ writer = Done
    BY <2>1, <2>4
  <2>. QED
    BY <2>2, <2>3, <2>4
<1>8. CASE LoseCopy
  BY <1>8 DEF LoseCopy, biz
<1>9. CASE DateComes \/ Reconcile
  BY <1>9, <1>1 DEF DateComes, Reconcile, Tick, ReadCopy, Rest, Store, Trim
<1>10. ASSUME NEW c \in Conns, Serve(c) PROVE CopyInv'
  BY <1>10, <1>1 DEF Serve, ReadPlan, Register, AddPeriod, Leave, SubKline, UnsubKline
<1>11. CASE UNCHANGED vars
  BY <1>11, <1>1 DEF vars
<1>. QED
  BY <1>2, <1>3, <1>4, <1>5, <1>6, <1>7, <1>8, <1>9, <1>10, <1>11 DEF Next, Biz

\* The copy user_vip:{id} that grant, expireOverdue and planOf write is the
\* committed row when no change is in hand, or its last write went astray.
THEOREM CopySafe == Spec => []CopyIsExplained
<1>1. CopyInv => CopyIsExplained
  BY DEF CopyInv
<1>. QED
  BY CopyInit, CopyStep, <1>1, PTL DEF Spec

-----------------------------------------------------------------------------
(* Types                                                                   *)

BizOK ==
    /\ table \in Row
    /\ writer \in [at : {"none", "commit", "copy"}, row : Row \cup {None}]
    /\ writer.at # "none" => writer.row \in Row
    /\ refill \in Row \cup {None} /\ copy \in Row \cup {None}
    /\ astray \in BOOLEAN /\ past \in BOOLEAN

ConnsOK ==
    /\ rpc \in [Conns -> {"off", "plan", "read", "add", "gone"}]
    /\ held \in [Conns -> {Free, Vip}] /\ ent \in [Conns -> {Free, Vip}]
    /\ wants \in [Conns -> Periods] /\ periods \in [Conns -> SUBSET Periods]

RecOK ==
    /\ rec \in [at : {"idle", "plan", "conns"}, plan : {Free, Vip},
                todo : SUBSET Conns, trim : SUBSET Conns]
    /\ raced \subseteq Conns

TypeOK == BizOK /\ ConnsOK /\ RecOK

LEMMA TypeInit == Init => TypeOK
<1> SUFFICES ASSUME Init PROVE TypeOK
  OBVIOUS
<1>1. BizOK
  BY DEF Init, BizOK, Done, Row
<1>2. ConnsOK
  BY DEF Init, ConnsOK, Periods
<1>3. RecOK
  BY DEF Init, RecOK, Resting
<1>. QED
  BY <1>1, <1>2, <1>3 DEF TypeOK

LEMMA RowFields ==
  ASSUME NEW row \in Row PROVE row.plan \in {Free, Vip}
<1>1. CASE row = [plan |-> Free, dated |-> FALSE]
  BY <1>1
<1>2. CASE row \in [plan : {Vip}, dated : BOOLEAN]
  BY <1>2
<1>. QED
  BY <1>1, <1>2 DEF Row

\* The plan read from a copy that is there is one of the two.
LEMMA PlanTypeOK == BizOK /\ copy # None => PlanType \in {Free, Vip}
BY RowFields DEF BizOK, PlanType

LEMMA BizStep == TypeOK /\ [Next]_vars => BizOK'
<1> SUFFICES ASSUME TypeOK, [Next]_vars PROVE BizOK'
  OBVIOUS
<1>. USE DEF TypeOK, BizOK, Done
<1>1. CASE UNCHANGED <<biz, copy, past>>
  BY <1>1 DEF biz
<1>2. ASSUME NEW row \in Row, Grant(row) PROVE BizOK'
  BY <1>2 DEF Grant, Copied
<1>3. CASE EndGrant
  BY <1>3 DEF EndGrant
<1>4. CASE Expire
  BY <1>4 DEF Expire, Row
<1>5. CASE EndExpire
  BY <1>5 DEF EndExpire, Copied
<1>6. CASE ReadRow
  BY <1>6 DEF ReadRow
<1>7. CASE Refill
  <2>1. astray' \in BOOLEAN
    BY <1>7, Zenon DEF Refill
  <2>. QED
    BY <1>7, <2>1 DEF Refill
<1>8. CASE LoseCopy \/ DateComes
  BY <1>8 DEF LoseCopy, DateComes, biz
<1>9. CASE Reconcile
  BY <1>9, <1>1 DEF Reconcile, Tick, ReadCopy, Rest, Store, Trim
<1>10. ASSUME NEW c \in Conns, Serve(c) PROVE BizOK'
  BY <1>10, <1>1 DEF Serve, ReadPlan, Register, AddPeriod, Leave, SubKline, UnsubKline
<1>11. CASE UNCHANGED vars
  BY <1>11, <1>1 DEF vars
<1>. QED
  BY <1>2, <1>3, <1>4, <1>5, <1>6, <1>7, <1>8, <1>9, <1>10, <1>11 DEF Next, Biz

LEMMA ConnsStep == TypeOK /\ [Next]_vars => ConnsOK'
<1> SUFFICES ASSUME TypeOK, [Next]_vars PROVE ConnsOK'
  OBVIOUS
<1>. USE DEF TypeOK, ConnsOK
<1>1. CASE UNCHANGED gateway
  BY <1>1 DEF gateway
<1>2. CASE Biz \/ LoseCopy \/ DateComes \/ UNCHANGED vars
  BY <1>2, <1>1 DEF Biz, Grant, EndGrant, Expire, EndExpire, ReadRow, Refill,
                    LoseCopy, DateComes, vars
<1>3. CASE Tick \/ ReadCopy \/ Rest
  BY <1>3, <1>1 DEF Tick, ReadCopy, Rest
<1>4. ASSUME NEW c \in Conns, Store(c) PROVE ConnsOK'
  BY <1>4 DEF Store, RecOK
<1>5. ASSUME NEW c \in Conns, Trim(c) PROVE ConnsOK'
  BY <1>5 DEF Trim
<1>6. ASSUME NEW c \in Conns, ReadPlan(c) PROVE ConnsOK'
  BY <1>6, PlanTypeOK DEF ReadPlan, Move
<1>7. ASSUME NEW c \in Conns, Register(c) \/ Leave(c) PROVE ConnsOK'
  BY <1>7 DEF Register, Leave, Move
<1>8. ASSUME NEW c \in Conns, NEW p \in Periods, SubKline(c, p) PROVE ConnsOK'
  BY <1>8 DEF SubKline, Frame, Move
<1>9. ASSUME NEW c \in Conns, AddPeriod(c) PROVE ConnsOK'
  BY <1>9 DEF AddPeriod, Move, Periods
<1>10. ASSUME NEW c \in Conns, NEW p \in Periods, UnsubKline(c, p) PROVE ConnsOK'
  BY <1>10 DEF UnsubKline, Frame
<1>. QED
  BY <1>2, <1>3, <1>4, <1>5, <1>6, <1>7, <1>8, <1>9, <1>10 DEF Next, Reconcile, Serve

LEMMA RecStep == TypeOK /\ [Next]_vars => RecOK'
<1> SUFFICES ASSUME TypeOK, [Next]_vars PROVE RecOK'
  OBVIOUS
<1>. USE DEF TypeOK, RecOK
<1>1. CASE UNCHANGED <<rec, raced>>
  BY <1>1
<1>2. CASE Biz \/ LoseCopy \/ DateComes \/ UNCHANGED vars
  BY <1>2, <1>1 DEF Biz, Grant, EndGrant, Expire, EndExpire, ReadRow, Refill,
                    LoseCopy, DateComes, vars
<1>3. CASE Tick \/ Rest
  BY <1>3 DEF Tick, Rest, Resting
<1>4. CASE ReadCopy
  BY <1>4, PlanTypeOK DEF ReadCopy, Resting, Online
<1>5. ASSUME NEW c \in Conns, Store(c) PROVE RecOK'
  <2>1. raced' \in {raced, raced \cup {c}, raced \ {c}}
    BY <1>5 DEF Store
  <2>2. PICK T \in {{}, {c}} : rec' = [rec EXCEPT !.todo = @ \ {c}, !.trim = T]
    <3>1. rec.trim = {}
      BY <1>5 DEF Store
    <3>2. CASE Differs(c)
      BY <1>5, <3>2 DEF Store
    <3>3. CASE ~Differs(c)
      BY <1>5, <3>1, <3>3 DEF Store
    <3>. QED
      BY <3>2, <3>3
  <2>. QED
    BY <2>1, <2>2
<1>6. ASSUME NEW c \in Conns, Trim(c) PROVE RecOK'
  BY <1>6 DEF Trim
<1>7. ASSUME NEW c \in Conns, Serve(c) PROVE RecOK'
  BY <1>7, <1>1 DEF Serve, ReadPlan, Register, AddPeriod, Leave, SubKline, UnsubKline
<1>. QED
  BY <1>2, <1>3, <1>4, <1>5, <1>6, <1>7 DEF Next, Reconcile

\* Every variable keeps its type: entitlements stay one of the two plans and
\* the reconciler works only on connections of its snapshot.
THEOREM EntitlementTypes == Spec => []TypeOK
<1>1. TypeOK /\ [Next]_vars => TypeOK'
  BY BizStep, ConnsStep, RecStep DEF TypeOK
<1>. QED
  BY TypeInit, <1>1, PTL DEF Spec

-----------------------------------------------------------------------------
(* Paid K-line periods                                                     *)

Paid(c) == periods[c] \ {"1"} # {}

\* A connection that reads no frames yet, or no more, has no period.
OutsideHasNone ==
    \A c \in Conns : rpc[c] \in {"off", "plan", "gone"} => periods[c] = {}

\* A frame that holds the paid plan the connection no longer has was raced.
StaleIsRaced ==
    \A c \in Conns : rpc[c] = "add" /\ held[c] = Vip /\ ent[c] = Free => c \in raced

\* The reconciler trims one connection at a time, and before it goes on.
TrimsOne ==
    /\ rec.at # "conns" => rec.trim = {}
    /\ \A c, d \in rec.trim : c = d

\* PaidNeedsPlan, of every connection.
PaidExplained == \A c \in Conns : ent[c] = Free /\ Paid(c) => c \in rec.trim \cup raced

PaidInv == OutsideHasNone /\ StaleIsRaced /\ TrimsOne /\ PaidExplained

LEMMA PaidInit == Init => PaidInv
BY DEF Init, PaidInv, OutsideHasNone, StaleIsRaced, TrimsOne, PaidExplained, Paid, Resting

LEMMA PaidStep == TypeOK /\ PaidInv /\ [Next]_vars => PaidInv'
<1> SUFFICES ASSUME TypeOK, PaidInv, [Next]_vars PROVE PaidInv'
  OBVIOUS
<1>. USE DEF TypeOK, ConnsOK, RecOK
<1>. USE DEF PaidInv, OutsideHasNone, StaleIsRaced, TrimsOne, PaidExplained, Paid
<1>1. CASE UNCHANGED <<gateway, rec, raced>>
  BY <1>1 DEF gateway
<1>2. CASE Biz \/ LoseCopy \/ DateComes \/ UNCHANGED vars
  BY <1>2, <1>1 DEF Biz, Grant, EndGrant, Expire, EndExpire, ReadRow, Refill,
                    LoseCopy, DateComes, vars
<1>3. CASE Tick \/ ReadCopy \/ Rest
  BY <1>3 DEF Tick, ReadCopy, Rest, Resting, gateway
<1>4. ASSUME NEW c \in Conns, Store(c) PROVE PaidInv'
  <2>1. CASE ~Differs(c)
    BY <1>4, <2>1 DEF Store
  <2>2. CASE Differs(c) /\ rec.plan = Vip
    BY <1>4, <2>2 DEF Store
  <2>3. CASE Differs(c) /\ rec.plan = Free
    <3>1. /\ UNCHANGED <<rpc, held, periods>> /\ rec.trim = {} /\ rec.at = "conns"
          /\ ent' = [ent EXCEPT ![c] = Free]
          /\ rec'.at = "conns" /\ rec'.trim = {c}
      BY <1>4, <2>3 DEF Store
    <3>2. /\ rpc[c] = "add" => c \in raced'
          /\ raced \ {c} \subseteq raced'
      BY <1>4, <2>3 DEF Store
    <3>. QED
      BY <3>1, <3>2
  <2>. QED
    BY <2>1, <2>2, <2>3
<1>5. ASSUME NEW c \in Conns, Trim(c) PROVE PaidInv'
  <2>1. rec.trim = {c}
    BY <1>5 DEF Trim
  <2>2. periods'[c] \subseteq {"1"}
    BY <1>5 DEF Trim, KlineAllowed
  <2>. QED
    BY <1>5, <2>1, <2>2 DEF Trim
<1>6. ASSUME NEW c \in Conns, ReadPlan(c) PROVE PaidInv'
  BY <1>6 DEF ReadPlan, Move
<1>7. ASSUME NEW c \in Conns, Register(c) PROVE PaidInv'
  BY <1>7 DEF Register, Move
<1>8. ASSUME NEW c \in Conns, NEW p \in Periods, SubKline(c, p) PROVE PaidInv'
  BY <1>8 DEF SubKline, Frame, Move
<1>9. ASSUME NEW c \in Conns, AddPeriod(c) PROVE PaidInv'
  BY <1>9 DEF AddPeriod, Move, Allowed, KlineAllowed
<1>10. ASSUME NEW c \in Conns, NEW p \in Periods, UnsubKline(c, p) PROVE PaidInv'
  BY <1>10 DEF UnsubKline, Frame
<1>11. ASSUME NEW c \in Conns, Leave(c) PROVE PaidInv'
  BY <1>11 DEF Leave, Move
<1>. QED
  BY <1>2, <1>3, <1>4, <1>5, <1>6, <1>7, <1>8, <1>9, <1>10, <1>11
     DEF Next, Reconcile, Serve

\* However frames, the reconciler and changes of the plan interleave, a free
\* connection keeps a paid period (Conn.KlineSubs) only if the reconciler is
\* about to trim it or a frame raced with its Ent.Store.
THEOREM PaidSafe == Spec => []PaidNeedsPlan
<1>1. PaidInv => PaidNeedsPlan
  BY DEF PaidInv, PaidExplained, Paid, PaidNeedsPlan, Online
<1>2. TypeOK /\ PaidInv /\ [Next]_vars => TypeOK' /\ PaidInv'
  BY BizStep, ConnsStep, RecStep, PaidStep DEF TypeOK
<1>. QED
  BY TypeInit, PaidInit, <1>1, <1>2, PTL DEF Spec
=============================================================================
