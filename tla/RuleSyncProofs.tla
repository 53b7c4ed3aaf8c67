--------------------------- MODULE RuleSyncProofs ---------------------------
(***************************************************************************)
(* Theorems about RuleSync, for any number of sessions, rules, conditions  *)
(* and requests, any quota and any batch size.                             *)
(***************************************************************************)
EXTENDS RuleSync, FiniteSetTheorems, WellFoundedInduction, SequenceTheorems, TLAPS

-----------------------------------------------------------------------------
\* A request that can still commit has the outbox id that comes next.
IdInv ==
    \A s \in Sessions : tx[s] # NoTx =>
        /\ tx[s].op \in Ops \ {"email"} /\ tx[s].rule \in Rules
        /\ tx[s].id \in DOMAIN outbox \/ tx[s].id = NextId(DOMAIN outbox)

\* So nothing was committed since it counted: there is room for one more.
RoomInv ==
    \A s \in Sessions : tx[s] # NoTx /\ tx[s].op \in Insert =>
        tx[s].id \in DOMAIN outbox \/ WithinQuota

Tables ==
    /\ DOMAIN db = Rules /\ DOMAIN tx = Sessions
    /\ \A r \in Rules : {"live", "st"} \subseteq DOMAIN db[r]

QuotaInv == Tables /\ IdInv /\ RoomInv /\ QuotaRespected

LEMMA CountType == IsFiniteSet(Active) /\ Cardinality(Active) \in Nat
<1>1. Rules \in SUBSET Nat /\ IsFiniteSet(Rules)
  <2>1. MaxRule \in Nat
    BY RuleSyncAssumption
  <2>. QED
    BY <2>1, FS_Interval DEF Rules
<1>2. Active \subseteq Rules
  BY DEF Active
<1>. QED
  BY <1>1, <1>2, FS_Subset, FS_CardinalityType

LEMMA QuotaInit == Init => QuotaInv
<1> SUFFICES ASSUME Init PROVE QuotaInv
  OBVIOUS
<1>1. Tables
  BY DEF Init, Tables, NoRule
<1>2. IdInv /\ RoomInv
  BY DEF Init, IdInv, RoomInv
<1>3. Active = {}
  BY DEF Init, Active, NoRule
<1>4. QuotaRespected
  BY <1>3, FS_EmptySet, RuleSyncAssumption DEF QuotaRespected
<1>. QED
  BY <1>1, <1>2, <1>4 DEF QuotaInv

\* No more active rules than before: what was in the quota still is.
LEMMA FewerActive ==
  ASSUME Active' \subseteq Active
  PROVE  /\ QuotaRespected => QuotaRespected'
         /\ WithinQuota => WithinQuota'
<1>1. Cardinality(Active') <= Cardinality(Active) /\ Cardinality(Active') \in Nat
  BY CountType, FS_Subset, FS_CardinalityType
<1>2. Quota \in Nat /\ Cardinality(Active) \in Nat
  BY CountType, RuleSyncAssumption
<1>. QED
  BY <1>1, <1>2 DEF QuotaRespected, WithinQuota

\* A step that leaves the open requests and the outbox's ids alone.
LEMMA QuietStep ==
  ASSUME QuotaInv, tx' = tx, DOMAIN outbox' = DOMAIN outbox, Tables',
         Active' \subseteq Active
  PROVE  QuotaInv'
BY FewerActive DEF QuotaInv, Tables, IdInv, RoomInv

LEMMA CommitKeeps ==
  ASSUME QuotaInv, "status" \notin Ops, NEW s \in Sessions, Commit(s)
  PROVE  QuotaInv'
<1>. DEFINE t == tx[s]
<1>1. /\ t # NoTx /\ t.id \notin DOMAIN outbox /\ t.rule \in Rules
      /\ t.op \in Ops \ {"email", "status"}
      /\ DOMAIN outbox' = DOMAIN outbox \cup {t.id}
      /\ tx' = [tx EXCEPT ![s] = NoTx]
      /\ db' = [db EXCEPT ![t.rule] = NewRule(t)]
  BY DEF Commit, KeysFree, QuotaInv, IdInv
<1>2. \A q \in Sessions : tx'[q] # NoTx =>
          /\ tx'[q] = tx[q] /\ tx[q].op \in Ops \ {"email"} /\ tx[q].rule \in Rules
          /\ tx'[q].id \in DOMAIN outbox'
  <2> SUFFICES ASSUME NEW q \in Sessions, tx'[q] # NoTx
               PROVE  /\ tx'[q] = tx[q] /\ tx[q].op \in Ops \ {"email"} /\ tx[q].rule \in Rules
                      /\ tx'[q].id \in DOMAIN outbox'
    OBVIOUS
  <2>1. q # s /\ tx'[q] = tx[q]
    BY <1>1 DEF QuotaInv, Tables
  <2>2. t.id = NextId(DOMAIN outbox)
    BY <1>1 DEF QuotaInv, IdInv
  <2>. QED
    BY <1>1, <2>1, <2>2 DEF QuotaInv, IdInv
<1>t. Tables'
  <2>1. {"live", "st"} \subseteq DOMAIN NewRule(t)
    <3>1. {"live", "st"} \subseteq DOMAIN db[t.rule]
      BY <1>1 DEF QuotaInv, Tables
    <3>2. t.op \in Insert \cup {"update", "unsubscribe", "delete"}
      BY <1>1, RuleSyncAssumption DEF AllOps, Insert
    <3>3. CASE t.op \in Insert
      <4>1. NewRule(t) = [live |-> TRUE, st |-> 1, ver |-> 1, cond |-> t.in]
        BY <3>3 DEF NewRule, Insert
      <4>. QED
        BY <4>1
    <3>4. CASE t.op = "update"
      BY <3>1, <3>4 DEF NewRule, Insert
    <3>5. CASE t.op = "unsubscribe"
      BY <3>1, <3>5 DEF NewRule, Insert
    <3>6. CASE t.op = "delete"
      BY <3>6 DEF NewRule, NoRule, Insert
    <3>. QED
      BY <3>2, <3>3, <3>4, <3>5, <3>6
  <2>. QED
    BY <1>1, <2>1 DEF QuotaInv, Tables
<1>3. Tables' /\ IdInv' /\ RoomInv'
  BY <1>t, <1>1, <1>2 DEF QuotaInv, Tables, IdInv, RoomInv
<1>4. QuotaRespected'
  <2>1. \A r \in Rules \ {t.rule} : db'[r] = db[r]
    BY <1>1 DEF QuotaInv, Tables
  <2>2. db'[t.rule] = NewRule(t)
    BY <1>1 DEF QuotaInv, Tables
  <2>3. CASE t.op \in Insert
    <3>1. WithinQuota
      BY <1>1, <2>3 DEF QuotaInv, RoomInv
    <3>2. Active' \subseteq Active \cup {t.rule}
      BY <2>1 DEF Active
    <3>3. /\ IsFiniteSet(Active \cup {t.rule})
          /\ Cardinality(Active \cup {t.rule}) <= Cardinality(Active) + 1
      <4>1. IsFiniteSet(Active) /\ Cardinality(Active) \in Nat
        BY CountType
      <4>2. /\ IsFiniteSet(Active \cup {t.rule})
            /\ Cardinality(Active \cup {t.rule}) =
                  IF t.rule \in Active THEN Cardinality(Active) ELSE Cardinality(Active) + 1
        BY <4>1, FS_AddElement
      <4>. QED
        BY <4>1, <4>2
    <3>4. /\ Cardinality(Active') <= Cardinality(Active \cup {t.rule})
          /\ Cardinality(Active') \in Nat /\ Cardinality(Active \cup {t.rule}) \in Nat
      BY <3>2, <3>3, FS_Subset, FS_CardinalityType
    <3>. QED
      <4>1. Quota \in Nat /\ Cardinality(Active) \in Nat
        BY CountType, RuleSyncAssumption
      <4>. QED
        BY <3>1, <3>3, <3>4, <4>1 DEF QuotaRespected, WithinQuota
  <2>4. CASE t.op \in {"update", "unsubscribe", "delete"}
    <3>1. t.rule \in Active' => t.rule \in Active
      <4>1. CASE t.op = "update"
        <5>1. db'[t.rule] = [db[t.rule] EXCEPT !.cond = t.in, !.ver = @ + 1]
          BY <2>2, <4>1 DEF NewRule, Insert
        <5>. QED
          BY <1>1, <5>1 DEF Active, QuotaInv, Tables
      <4>2. CASE t.op = "unsubscribe"
        <5>1. db'[t.rule] = [db[t.rule] EXCEPT !.st = 0, !.ver = @ + 1]
          BY <2>2, <4>2 DEF NewRule, Insert
        <5>2. db'[t.rule].st = 0
          BY <1>1, <5>1 DEF QuotaInv, Tables
        <5>. QED
          BY <1>1, <5>2 DEF Active
      <4>3. CASE t.op = "delete"
        <5>1. db'[t.rule] = NoRule
          BY <2>2, <4>3 DEF NewRule, Insert
        <5>. QED
          BY <5>1 DEF Active, NoRule
      <4>. QED
        BY <2>4, <4>1, <4>2, <4>3
    <3>2. Active' \subseteq Active
      BY <2>1, <3>1 DEF Active
    <3>. QED
      BY <3>2, FewerActive DEF QuotaInv
  <2>. QED
    BY <1>1, <2>3, <2>4, RuleSyncAssumption DEF AllOps, Insert
<1>. QED
  BY <1>3, <1>4 DEF QuotaInv

LEMMA BeginKeeps ==
  ASSUME QuotaInv, NEW s \in Sessions, NEW op \in Ops \ {"email"}, NEW r \in Rules,
         Begin(s, op, r)
  PROVE  QuotaInv'
<1>1. PICK x : tx' = [tx EXCEPT ![s] = [op |-> op, rule |-> r, cur |-> db[r], in |-> x,
                                        id |-> NextId(DOMAIN outbox)]]
  BY DEF Begin
<1>2. UNCHANGED <<db, outbox>> /\ (op \in Insert => WithinQuota)
  BY DEF Begin
<1>3. \A q \in Sessions : tx'[q] = IF q = s THEN [op |-> op, rule |-> r, cur |-> db[r], in |-> x,
                                                  id |-> NextId(DOMAIN outbox)]
                                            ELSE tx[q]
  BY <1>1 DEF QuotaInv, Tables
<1>4. Tables' /\ QuotaRespected' /\ (WithinQuota' <=> WithinQuota)
  BY <1>1, <1>2 DEF QuotaInv, Tables, QuotaRespected, WithinQuota, Active
<1>5. IdInv'
  BY <1>2, <1>3 DEF QuotaInv, IdInv
<1>6. RoomInv'
  BY <1>2, <1>3, <1>4 DEF QuotaInv, RoomInv
<1>. QED
  BY <1>4, <1>5, <1>6 DEF QuotaInv

LEMMA QuotaStep == "status" \notin Ops /\ QuotaInv /\ [Next]_vars => QuotaInv'
<1> SUFFICES ASSUME "status" \notin Ops, QuotaInv, [Next]_vars PROVE QuotaInv'
  OBVIOUS
<1>1. CASE UNCHANGED <<db, tx>> /\ DOMAIN outbox' = DOMAIN outbox
  BY <1>1, QuietStep DEF QuotaInv, Tables, Active
<1>2. ASSUME NEW s \in Sessions, NEW op \in Ops \ {"email"}, NEW r \in Rules, Begin(s, op, r)
      PROVE  QuotaInv'
  BY <1>2, BeginKeeps
<1>3. ASSUME NEW s \in Sessions, Commit(s) PROVE QuotaInv'
  BY <1>3, CommitKeeps
<1>4. ASSUME NEW s \in Sessions, Rollback(s) PROVE QuotaInv'
  <2>1. tx' = [tx EXCEPT ![s] = NoTx] /\ UNCHANGED <<db, outbox>>
    BY <1>4 DEF Rollback
  <2>2. \A q \in Sessions : tx'[q] \in {tx[q], NoTx}
    BY <2>1 DEF QuotaInv, Tables
  <2>. QED
    BY <2>1, <2>2 DEF QuotaInv, Tables, IdInv, RoomInv, QuotaRespected, WithinQuota, Active
<1>5. CASE HookSelect \/ \E x \in hook.todo : HookPublish(x)
  BY <1>1, <1>5 DEF HookSelect, HookPublish
<1>6. CASE HookUpdate
  <2>1. UNCHANGED <<outbox, tx>>
    BY <1>6 DEF HookUpdate
  <2>2. \/ db' = db
        \/ db' = [r \in Rules |-> IF r \in Active THEN [db[r] EXCEPT !.st = 0] ELSE db[r]]
    BY <1>6 DEF HookUpdate
  <2>3. Tables'
    BY <2>1, <2>2 DEF QuotaInv, Tables
  <2>4. Active' \subseteq Active
    BY <2>2 DEF Active
  <2>. QED
    BY <2>1, <2>3, <2>4, QuietStep
<1>7. CASE Poll \/ Publish \/ PublisherRestart
  BY <1>1, <1>7 DEF Poll, Publish, PublisherRestart
<1>8. CASE PublishFails \/ MarkPublished
  <2>1. DOMAIN outbox' = DOMAIN outbox
    BY <1>8 DEF PublishFails, Failed, MarkPublished
  <2>. QED
    BY <1>1, <1>8, <2>1 DEF PublishFails, MarkPublished
<1>9. ASSUME NEW i \in DOMAIN outbox, RetryDue(i) PROVE QuotaInv'
  BY <1>1, <1>9 DEF RetryDue
<1>10. ASSUME NEW i \in DOMAIN outbox, Cleanup(i) PROVE QuotaInv'
  <2>1. UNCHANGED <<db, tx>> /\ \A s \in Sessions : tx[s] = NoTx
    BY <1>10 DEF Cleanup
  <2>. QED
    BY <2>1 DEF QuotaInv, Tables, IdInv, RoomInv, QuotaRespected, Active
<1>11. CASE Apply \/ FlinkRestart \/ Trim \/ UNCHANGED vars
  BY <1>1, <1>11 DEF Apply, FlinkRestart, Trim, vars
<1>. QED
  BY <1>2, <1>3, <1>4, <1>5, <1>6, <1>7, <1>8, <1>9, <1>10, <1>11 DEF Next, Publisher

\* Without the switch that turns a rule on again (RuleService.status), no
\* number of requests at a time gets past checkH5Quota: of the requests that
\* have counted from one snapshot, MAX(id) + 1 of the outbox lets one commit.
THEOREM QuotaSafe == "status" \notin Ops /\ Spec => []QuotaRespected
<1> SUFFICES ASSUME "status" \notin Ops PROVE Spec => []QuotaRespected
  OBVIOUS
<1>1. QuotaInv /\ [Next]_vars => QuotaInv'
  BY QuotaStep
<1>2. QuotaInv => QuotaRespected
  BY DEF QuotaInv
<1>. QED
  BY QuotaInit, <1>1, <1>2, PTL DEF Spec
-----------------------------------------------------------------------------
(* Types                                                                   *)

Cond  == Conds \cup {"none"}
Rule  == [live : BOOLEAN, st : 0..1, ver : Nat, cond : Cond]
Tx    == [op : Ops \ {"email"}, rule : Rules, cur : Rule, in : Cond \cup 0..1, id : Int]
Row   == [rule : Rules, key : Int, op : {"UPSERT", "DELETE"}, ver : Nat, cond : Cond,
          status : {"PENDING", "PUBLISHED", "FAILED"}, due : BOOLEAN]
Message == [rule : Rules, op : {"UPSERT", "DELETE"}, ver : Nat, cond : Cond]
Entry == [ver : Nat, cond : Cond]

DbOK == db \in [Rules -> Rule]

\* There are no more ids than requests so far; the one a request will take is
\* counted with the request.
OutboxOK ==
    /\ requests \in 0..MaxRequests
    /\ DOMAIN outbox \subseteq 1..(MaxRequests - requests)
    /\ \A i \in DOMAIN outbox : outbox[i] \in Row

TxOK ==
    /\ tx \in [Sessions -> {NoTx} \cup Tx]
    /\ \A s \in Sessions : tx[s] # NoTx =>
          /\ tx[s].in \in Inputs(tx[s].op)
          /\ tx[s].id \in 1..(MaxRequests - requests)
          /\ tx[s].id \in DOMAIN outbox \/ tx[s].id = NextId(DOMAIN outbox)

HookOK == hook \in [pc : {"idle", "update", "publish"}, todo : SUBSET (Rules \X Nat)]

BatchOK == batch \in Seq(DOMAIN outbox) /\ marking \in BOOLEAN /\ (marking => batch # <<>>)

BcastOK == bcast \in Seq(Message)

FlinkOK ==
    /\ low \in Nat /\ pos \in Nat /\ low <= pos /\ pos <= Len(bcast)
    /\ DOMAIN flink \subseteq Rules
    /\ \A r \in DOMAIN flink : flink[r] \in Entry

Types == DbOK /\ OutboxOK /\ TxOK /\ HookOK /\ BatchOK /\ BcastOK /\ FlinkOK

LEMMA TypesInit == Init => Types
<1> SUFFICES ASSUME Init PROVE Types
  OBVIOUS
<1>1. MaxRequests \in Nat
  BY RuleSyncAssumption
<1>2. DbOK /\ HookOK
  BY DEF Init, DbOK, NoRule, Rule, Cond, HookOK
<1>3. OutboxOK /\ TxOK
  BY <1>1 DEF Init, OutboxOK, TxOK
<1>4. BatchOK
  <2>1. batch = <<>> /\ marking = FALSE
    BY DEF Init
  <2>2. <<>> \in Seq(DOMAIN outbox)
    OBVIOUS
  <2>. QED
    BY <2>1, <2>2 DEF BatchOK
<1>5. BcastOK
  BY DEF Init, BcastOK
<1>6. FlinkOK
  BY DEF Init, FlinkOK
<1>. QED
  BY <1>2, <1>3, <1>4, <1>5, <1>6 DEF Types

LEMMA MaxOfBounded ==
  ASSUME NEW n \in Nat, NEW S \in SUBSET (0..n), S # {}
  PROVE  Max(S) \in S /\ \A y \in S : Max(S) >= y
<1>. DEFINE T == {n - x : x \in S}
            Less == {ss \in Nat \X Nat : ss[1] < ss[2]}
<1>1. T \in SUBSET Nat /\ T # {}
  <2>1. PICK x \in S : TRUE
    OBVIOUS
  <2>2. n - x \in T
    BY <2>1
  <2>3. \A y \in S : n - y \in Nat
    OBVIOUS
  <2>. QED
    BY <2>2, <2>3
<1>2. IsWellFoundedOn(Less, Nat)
  BY NatLessThanWellFounded DEF OpToRel
<1>. HIDE DEF Less, T
<1>3. PICK t \in T : \A u \in T : ~ (<<u, t>> \in Less)
  BY <1>1, <1>2, WFMin
<1>4. \A u \in T : ~(u < t)
  BY <1>1, <1>3 DEF Less
<1>5. PICK x \in S : t = n - x
  BY DEF T
<1>6. ASSUME NEW y \in S PROVE x >= y
  <2>1. n - y \in T
    BY DEF T
  <2>2. ~(n - y < n - x)
    BY <1>4, <1>5, <2>1
  <2>. QED
    BY <2>2
<1>. QED
  BY <1>6 DEF Max

\* An id beyond those that are there: MAX(id) + 1 of finitely many numbers.
LEMMA NextIdType ==
  ASSUME NEW n \in Nat, NEW S \in SUBSET (1..n)
  PROVE  NextId(S) \in 1..(n + 1)
<1>1. S \cup {0} \in SUBSET (0..n) /\ S \cup {0} # {}
  OBVIOUS
<1>2. Max(S \cup {0}) \in S \cup {0}
  BY <1>1, MaxOfBounded
<1>3. Max(S \cup {0}) \in 0..n
  BY <1>1, <1>2
<1>. QED
  BY <1>3 DEF NextId

\* What a request writes.
LEMMA NewRuleType ==
  ASSUME Types, NEW t \in Tx, t.in \in Inputs(t.op)
  PROVE  NewRule(t) \in Rule
<1>. DEFINE now == db[t.rule]
<1>1. now \in Rule /\ t.op \in {"create", "subscribe", "update", "status", "delete", "unsubscribe"}
  BY RuleSyncAssumption DEF Types, DbOK, Tx, AllOps
<1>2. CASE t.op \in Insert
  <2>1. NewRule(t) = [live |-> TRUE, st |-> 1, ver |-> 1, cond |-> t.in]
    BY <1>2 DEF NewRule, Insert
  <2>. QED
    BY <1>2, <2>1 DEF Inputs, Insert, Rule, Cond
<1>3. CASE t.op = "update"
  <2>1. NewRule(t) = [now EXCEPT !.cond = t.in, !.ver = @ + 1]
    BY <1>3 DEF NewRule, Insert
  <2>2. NewRule(t) = [live |-> now.live, st |-> now.st, ver |-> now.ver + 1, cond |-> t.in]
    BY <1>1, <2>1 DEF Rule
  <2>3. t.in \in Cond
    BY <1>3 DEF Inputs, Cond
  <2>. QED
    BY <1>1, <2>2, <2>3 DEF Rule
<1>4. CASE t.op = "status"
  <2>1. NewRule(t) = [now EXCEPT !.st = t.in, !.ver = @ + 1]
    BY <1>4 DEF NewRule, Insert
  <2>2. NewRule(t) = [live |-> now.live, st |-> t.in, ver |-> now.ver + 1, cond |-> now.cond]
    BY <1>1, <2>1 DEF Rule
  <2>3. t.in \in 0..1
    BY <1>4 DEF Inputs, Insert
  <2>. QED
    BY <1>1, <2>2, <2>3 DEF Rule
<1>5. CASE t.op = "unsubscribe"
  <2>1. NewRule(t) = [now EXCEPT !.st = 0, !.ver = @ + 1]
    BY <1>5 DEF NewRule, Insert
  <2>2. NewRule(t) = [live |-> now.live, st |-> 0, ver |-> now.ver + 1, cond |-> now.cond]
    BY <1>1, <2>1 DEF Rule
  <2>. QED
    BY <1>1, <2>2 DEF Rule
<1>6. CASE t.op = "delete"
  <2>1. NewRule(t) = NoRule
    BY <1>6 DEF NewRule, Insert
  <2>. QED
    BY <2>1 DEF NoRule, Rule, Cond
<1>. QED
  BY <1>1, <1>2, <1>3, <1>4, <1>5, <1>6 DEF Insert

LEMMA NewRowType ==
  ASSUME NEW t \in Tx, t.in \in Inputs(t.op)
  PROVE  NewRow(t) \in Row
<1>1. t.cur \in Rule /\ t.rule \in Rules
  BY DEF Tx
<1>2. t.cur.ver \in Nat /\ t.cur.cond \in Cond
  BY <1>1 DEF Rule
<1>3. PayloadVer(t) \in Nat
  BY <1>2 DEF PayloadVer
<1>4. t.op \in Insert \cup {"update"} => t.in \in Cond
  BY DEF Inputs, Cond
<1>. DEFINE row == NewRow(t)
<1>5. /\ row.rule \in Rules /\ row.op \in {"UPSERT", "DELETE"} /\ row.ver \in Nat
      /\ row.cond \in Cond /\ row.status = "PENDING" /\ row.due = TRUE
  BY <1>1, <1>2, <1>3, <1>4 DEF NewRow
<1>6. row.key \in Int
  BY <1>2, <1>3 DEF NewRow, Unkeyed
<1>7. row = [rule |-> row.rule, key |-> row.key, op |-> row.op, ver |-> row.ver,
             cond |-> row.cond, status |-> row.status, due |-> row.due]
  BY DEF NewRow
<1>. HIDE DEF row
<1>8. row \in Row
  BY <1>5, <1>6, <1>7 DEF Row
<1>. QED
  BY <1>8 DEF row

LEMMA BeginTypes ==
  ASSUME Types, NEW s \in Sessions, NEW op \in Ops \ {"email"}, NEW r \in Rules,
         Begin(s, op, r)
  PROVE  Types'
<1>1. /\ UNCHANGED <<db, outbox, hook, publisher, bcast, matcher>>
      /\ requests > 0 /\ requests' = requests - 1 /\ tx[s] = NoTx
  BY DEF Begin
<1>2. PICK x \in Inputs(op) :
         tx' = [tx EXCEPT ![s] = [op |-> op, rule |-> r, cur |-> db[r], in |-> x,
                                  id |-> NextId(DOMAIN outbox)]]
  BY DEF Begin
<1>. DEFINE n == MaxRequests - requests
            new == [op |-> op, rule |-> r, cur |-> db[r], in |-> x, id |-> NextId(DOMAIN outbox)]
<1>3. n \in Nat /\ requests \in Nat /\ MaxRequests \in Nat /\ MaxRequests - requests' = n + 1
  BY <1>1, RuleSyncAssumption DEF Types, OutboxOK
<1>4. OutboxOK'
  BY <1>1, <1>3 DEF Types, OutboxOK
<1>5. new.id \in 1..(n + 1)
  BY <1>3, NextIdType DEF Types, OutboxOK
<1>6. new \in Tx /\ new.in \in Inputs(new.op) /\ new.id = NextId(DOMAIN outbox)
  <2>1. Inputs(op) \subseteq Cond \cup 0..1
    BY DEF Inputs, Cond
  <2>2. db[r] \in Rule
    BY DEF Types, DbOK
  <2>. QED
    BY <1>5, <2>1, <2>2 DEF Tx
<1>7. tx \in [Sessions -> {NoTx} \cup Tx] /\ tx' = [tx EXCEPT ![s] = new]
  BY <1>2 DEF Types, TxOK
<1>. HIDE DEF new
<1>8. TxOK'
  <2>1. tx' \in [Sessions -> {NoTx} \cup Tx]
    BY <1>6, <1>7
  <2>2. ASSUME NEW q \in Sessions, tx'[q] # NoTx
        PROVE  /\ tx'[q].in \in Inputs(tx'[q].op) /\ tx'[q].id \in 1..(n + 1)
               /\ tx'[q].id \in DOMAIN outbox \/ tx'[q].id = NextId(DOMAIN outbox)
    <3>1. CASE q = s
      BY <1>5, <1>6, <1>7, <3>1
    <3>2. CASE q # s
      <4>1. tx'[q] = tx[q]
        BY <1>7, <3>2
      <4>2. /\ tx[q].in \in Inputs(tx[q].op) /\ tx[q].id \in 1..n
            /\ tx[q].id \in DOMAIN outbox \/ tx[q].id = NextId(DOMAIN outbox)
        BY <2>2, <4>1 DEF Types, TxOK
      <4>. QED
        BY <1>3, <4>1, <4>2
    <3>. QED
      BY <3>1, <3>2
  <2>. QED
    BY <1>1, <1>3, <2>1, <2>2 DEF TxOK
<1>9. DbOK' /\ HookOK' /\ BatchOK' /\ BcastOK' /\ FlinkOK'
  BY <1>1 DEF Types, DbOK, HookOK, BatchOK, BcastOK, FlinkOK, publisher, matcher
<1>. QED
  BY <1>4, <1>8, <1>9 DEF Types

LEMMA CommitTypes ==
  ASSUME Types, NEW s \in Sessions, Commit(s)
  PROVE  Types'
<1>. DEFINE t == tx[s]
<1>1. /\ UNCHANGED <<hook, publisher, bcast, matcher, requests>>
      /\ t # NoTx /\ t.id \notin DOMAIN outbox
      /\ db' = [db EXCEPT ![t.rule] = NewRule(t)]
      /\ outbox' = [i \in DOMAIN outbox \cup {t.id} |->
                       IF i = t.id THEN NewRow(t) ELSE outbox[i]]
      /\ tx' = [tx EXCEPT ![s] = NoTx]
  BY DEF Commit, KeysFree, budget
<1>2. /\ t \in Tx /\ t.in \in Inputs(t.op) /\ t.id = NextId(DOMAIN outbox)
      /\ t.id \in 1..(MaxRequests - requests)
  BY <1>1 DEF Types, TxOK
<1>3. NewRule(t) \in Rule /\ NewRow(t) \in Row
  BY <1>2, NewRuleType, NewRowType
<1>4. DbOK'
  BY <1>1, <1>2, <1>3 DEF Types, DbOK, Tx
<1>5. OutboxOK'
  BY <1>1, <1>2, <1>3 DEF Types, OutboxOK
<1>6. TxOK'
  <2>1. tx' \in [Sessions -> {NoTx} \cup Tx]
    BY <1>1 DEF Types, TxOK
  <2>2. ASSUME NEW q \in Sessions, tx'[q] # NoTx
        PROVE  /\ tx'[q].in \in Inputs(tx'[q].op)
               /\ tx'[q].id \in 1..(MaxRequests - requests)
               /\ tx'[q].id \in DOMAIN outbox'
    <3>1. tx'[q] = tx[q] /\ tx[q] # NoTx
      BY <1>1, <2>2 DEF Types, TxOK
    <3>2. /\ tx[q].in \in Inputs(tx[q].op) /\ tx[q].id \in 1..(MaxRequests - requests)
          /\ tx[q].id \in DOMAIN outbox \/ tx[q].id = t.id
      BY <1>2, <3>1 DEF Types, TxOK
    <3>. QED
      BY <1>1, <3>1, <3>2
  <2>. QED
    BY <1>1, <2>1, <2>2 DEF TxOK
<1>7. BatchOK'
  BY <1>1 DEF Types, BatchOK, publisher
<1>8. HookOK' /\ BcastOK' /\ FlinkOK'
  BY <1>1 DEF Types, HookOK, BcastOK, FlinkOK, matcher
<1>. QED
  BY <1>4, <1>5, <1>6, <1>7, <1>8 DEF Types

LEMMA RollbackTypes ==
  ASSUME Types, NEW s \in Sessions, Rollback(s)
  PROVE  Types'
<1>1. /\ UNCHANGED <<db, outbox, hook, publisher, bcast, matcher, requests>>
      /\ tx' = [tx EXCEPT ![s] = NoTx]
  BY DEF Rollback
<1>2. \A q \in Sessions : tx'[q] # NoTx => tx'[q] = tx[q]
  BY <1>1 DEF Types, TxOK
<1>3. TxOK'
  BY <1>1, <1>2 DEF Types, TxOK
<1>4. DbOK' /\ OutboxOK' /\ HookOK' /\ BatchOK' /\ BcastOK' /\ FlinkOK'
  BY <1>1 DEF Types, DbOK, OutboxOK, HookOK, BatchOK, BcastOK, FlinkOK, publisher, matcher
<1>. QED
  BY <1>3, <1>4 DEF Types

\* The hook reads rules, turns them off, and writes messages of its own.
LEMMA HookTypes ==
  ASSUME Types, HookSelect \/ HookUpdate \/ \E x \in hook.todo : HookPublish(x)
  PROVE  Types'
<1>1. UNCHANGED <<outbox, tx, publisher, matcher, requests>>
  BY DEF HookSelect, HookUpdate, HookPublish, budget
<1>2. OutboxOK' /\ TxOK' /\ BatchOK'
  BY <1>1 DEF Types, OutboxOK, TxOK, BatchOK, publisher
<1>3. DbOK /\ HookOK /\ BcastOK /\ FlinkOK
  BY DEF Types
<1>4. CASE HookSelect
  <2>1. /\ hook' = [pc |-> "update", todo |-> {<<r, db[r].ver>> : r \in Active}]
        /\ UNCHANGED <<db, bcast>>
    BY <1>4 DEF HookSelect
  <2>2. {<<r, db[r].ver>> : r \in Active} \subseteq Rules \X Nat
    BY <1>3 DEF Active, DbOK, Rule
  <2>3. HookOK'
    BY <2>1, <2>2 DEF HookOK
  <2>. QED
    BY <1>1, <1>2, <1>3, <2>1, <2>3 DEF Types, DbOK, BcastOK, FlinkOK, matcher
<1>5. CASE HookUpdate
  <2>1. /\ UNCHANGED bcast
        /\ \/ db' = [r \in Rules |-> IF r \in Active THEN [db[r] EXCEPT !.st = 0] ELSE db[r]]
           \/ db' = db
        /\ hook' \in {[hook EXCEPT !.pc = "publish"], [pc |-> "idle", todo |-> {}]}
    BY <1>5 DEF HookUpdate
  <2>2. DbOK'
    BY <1>3, <2>1 DEF DbOK, Rule
  <2>3. HookOK'
    BY <1>3, <2>1 DEF HookOK
  <2>. QED
    BY <1>1, <1>2, <1>3, <2>1, <2>2, <2>3 DEF Types, BcastOK, FlinkOK, matcher
<1>6. ASSUME NEW x \in hook.todo, HookPublish(x) PROVE Types'
  <2>1. /\ UNCHANGED db
        /\ hook' = [pc   |-> IF hook.todo = {x} THEN "idle" ELSE "publish",
                    todo |-> hook.todo \ {x}]
        /\ \/ bcast' = Append(bcast, [rule |-> x[1], op |-> "DELETE", ver |-> x[2] + 1,
                                      cond |-> db[x[1]].cond])
           \/ bcast' = bcast
    BY <1>6 DEF HookPublish
  <2>2. x \in Rules \X Nat
    BY <1>3 DEF HookOK
  <2>3. [rule |-> x[1], op |-> "DELETE", ver |-> x[2] + 1, cond |-> db[x[1]].cond] \in Message
    BY <1>3, <2>2 DEF DbOK, Rule, Message
  <2>4. BcastOK' /\ Len(bcast') >= Len(bcast)
    BY <1>3, <2>1, <2>3 DEF BcastOK
  <2>5. Len(bcast) \in Nat /\ Len(bcast') \in Nat
    BY <1>3, <2>4 DEF BcastOK
  <2>6. FlinkOK'
    BY <1>1, <1>3, <2>4, <2>5 DEF FlinkOK, matcher
  <2>7. HookOK'
    BY <1>3, <2>1 DEF HookOK
  <2>8. DbOK'
    BY <1>3, <2>1 DEF DbOK
  <2>. QED
    BY <1>2, <2>4, <2>6, <2>7, <2>8 DEF Types
<1>. QED
  BY <1>4, <1>5, <1>6

\* The row at the head of the batch, and the message made of it.
LEMMA HeadRow ==
  ASSUME Types, batch # <<>>
  PROVE  /\ Head(batch) \in DOMAIN outbox /\ outbox[Head(batch)] \in Row
         /\ Tail(batch) \in Seq(DOMAIN outbox)
BY DEF Types, BatchOK, OutboxOK

LEMMA WriteTypes ==
  ASSUME Types, batch # <<>>, Write
  PROVE  BcastOK' /\ Len(bcast') = Len(bcast) + 1
<1>. DEFINE row == outbox[Head(batch)]
<1>1. row \in Row
  BY HeadRow
<1>2. [rule |-> row.rule, op |-> row.op, ver |-> row.ver, cond |-> row.cond] \in Message
  BY <1>1 DEF Row, Message
<1>3. bcast' = Append(bcast, [rule |-> row.rule, op |-> row.op, ver |-> row.ver,
                              cond |-> row.cond])
  BY DEF Write
<1>. QED
  BY <1>2, <1>3 DEF Types, BcastOK

\* A longer rule_bcast.
LEMMA LongerTypes ==
  ASSUME Types, BcastOK', UNCHANGED matcher, Len(bcast') >= Len(bcast)
  PROVE  FlinkOK'
<1>1. Len(bcast) \in Nat /\ Len(bcast') \in Nat
  BY DEF Types, BcastOK
<1>. QED
  BY <1>1 DEF Types, FlinkOK, matcher

\* Another status or due time of one row.
LEMMA RowTypes ==
  ASSUME Types, NEW i \in DOMAIN outbox, UNCHANGED <<tx, requests>>,
         \/ UNCHANGED outbox
         \/ outbox' \in {[outbox EXCEPT ![i].status = "FAILED"],
                         [outbox EXCEPT ![i].status = "PUBLISHED"],
                         [outbox EXCEPT ![i].due = FALSE], [outbox EXCEPT ![i].due = TRUE]}
  PROVE  OutboxOK' /\ TxOK' /\ DOMAIN outbox' = DOMAIN outbox
<1>1. \A j \in DOMAIN outbox : outbox[j] \in Row
  BY DEF Types, OutboxOK
<1>2. \A row \in Row : /\ [row EXCEPT !.status = "FAILED"] \in Row
                       /\ [row EXCEPT !.status = "PUBLISHED"] \in Row
                       /\ [row EXCEPT !.due = FALSE] \in Row /\ [row EXCEPT !.due = TRUE] \in Row
  BY DEF Row
<1>3. \A j \in DOMAIN outbox : outbox'[j] \in
         {outbox[j], [outbox[j] EXCEPT !.status = "FAILED"],
          [outbox[j] EXCEPT !.status = "PUBLISHED"],
          [outbox[j] EXCEPT !.due = FALSE], [outbox[j] EXCEPT !.due = TRUE]}
  OBVIOUS
<1>4. DOMAIN outbox' = DOMAIN outbox
  OBVIOUS
<1>5. ASSUME NEW j \in DOMAIN outbox' PROVE outbox'[j] \in Row
  <2>1. outbox[j] \in Row
    BY <1>1, <1>4
  <2>2. outbox'[j] \in
         {outbox[j], [outbox[j] EXCEPT !.status = "FAILED"],
          [outbox[j] EXCEPT !.status = "PUBLISHED"],
          [outbox[j] EXCEPT !.due = FALSE], [outbox[j] EXCEPT !.due = TRUE]}
    BY <1>3, <1>4
  <2>. QED
    BY <1>2, <2>1, <2>2
<1>. QED
  BY <1>4, <1>5 DEF Types, OutboxOK, TxOK

LEMMA PublisherTypes ==
  ASSUME Types, Publisher \/ PublisherRestart
  PROVE  Types'
<1>1. UNCHANGED <<db, hook, tx, requests, matcher>>
  BY DEF Publisher, Poll, Publish, PublishFails, MarkPublished, PublisherRestart, budget
<1>2. DbOK' /\ HookOK'
  BY <1>1 DEF Types, DbOK, HookOK
<1>3. CASE Poll
  <2>1. UNCHANGED <<outbox, marking, bcast>> /\ batch = <<>>
    BY <1>3 DEF Poll
  <2>2. PICK q \in [1..Min({BatchSize, Cardinality(Due)}) -> Due] : batch' = q
    BY <1>3 DEF Poll
  <2>3. Min({BatchSize, Cardinality(Due)}) \in Nat
    <3>1. DOMAIN outbox \in SUBSET (1..(MaxRequests - requests))
      BY DEF Types, OutboxOK
    <3>2. IsFiniteSet(1..(MaxRequests - requests))
      BY RuleSyncAssumption, FS_Interval DEF Types, OutboxOK
    <3>3. IsFiniteSet(Due)
      BY <3>1, <3>2, FS_Subset DEF Due
    <3>4. Cardinality(Due) \in Nat /\ BatchSize \in Nat
      BY <3>3, FS_CardinalityType, RuleSyncAssumption
    <3>5. \E x \in {BatchSize, Cardinality(Due)} : \A y \in {BatchSize, Cardinality(Due)} : x <= y
      BY <3>4
    <3>6. Min({BatchSize, Cardinality(Due)}) \in {BatchSize, Cardinality(Due)}
      BY <3>5 DEF Min
    <3>. QED
      BY <3>4, <3>6
  <2>4. batch' \in Seq(DOMAIN outbox')
    <3>1. Due \subseteq DOMAIN outbox'
      BY <2>1 DEF Due
    <3>2. q \in Seq(Due)
      BY <2>2, <2>3, SeqDef
    <3>. QED
      BY <2>2, <3>1, <3>2
  <2>5. BatchOK'
    BY <2>1, <2>4 DEF Types, BatchOK
  <2>6. OutboxOK' /\ TxOK' /\ BcastOK' /\ FlinkOK'
    BY <1>1, <2>1 DEF Types, OutboxOK, TxOK, BcastOK, FlinkOK, matcher
  <2>. QED
    BY <1>2, <2>5, <2>6 DEF Types
<1>4. CASE Publish
  <2>1. UNCHANGED <<outbox, batch>> /\ batch # <<>> /\ Write /\ marking' = TRUE
    BY <1>4 DEF Publish
  <2>2. BcastOK' /\ FlinkOK'
    BY <1>1, <2>1, WriteTypes, LongerTypes DEF Types, BcastOK
  <2>3. OutboxOK' /\ TxOK' /\ BatchOK'
    BY <1>1, <2>1 DEF Types, OutboxOK, TxOK, BatchOK
  <2>. QED
    BY <1>2, <2>2, <2>3 DEF Types
<1>5. CASE PublishFails
  <2>1. batch # <<>> /\ ~marking /\ batch' = Tail(batch) /\ UNCHANGED marking
    BY <1>5 DEF PublishFails
  <2>2. outbox' = outbox \/ outbox' = Failed(Head(batch))
    BY <1>5 DEF PublishFails
  <2>3. bcast' = bcast \/ Write
    BY <1>5 DEF PublishFails
  <2>4. OutboxOK' /\ TxOK' /\ DOMAIN outbox' = DOMAIN outbox
    BY <1>1, <2>1, <2>2, HeadRow, RowTypes DEF Failed
  <2>5. BatchOK'
    BY <2>1, <2>4, HeadRow DEF Types, BatchOK
  <2>6. BcastOK' /\ FlinkOK'
    <3>1. CASE bcast' = bcast
      BY <1>1, <3>1 DEF Types, BcastOK, FlinkOK, matcher
    <3>2. CASE Write
      BY <1>1, <2>1, <3>2, WriteTypes, LongerTypes DEF Types, BcastOK
    <3>. QED
      BY <2>3, <3>1, <3>2
  <2>. QED
    BY <1>2, <2>4, <2>5, <2>6 DEF Types
<1>6. CASE MarkPublished
  <2>1. batch # <<>> /\ batch' = Tail(batch) /\ marking' = FALSE /\ UNCHANGED bcast
    BY <1>6 DEF MarkPublished, Types, BatchOK
  <2>2. outbox' = outbox \/ outbox' = [outbox EXCEPT ![Head(batch)].status = "PUBLISHED"]
    BY <1>6 DEF MarkPublished
  <2>3. OutboxOK' /\ TxOK' /\ DOMAIN outbox' = DOMAIN outbox
    BY <1>1, <2>1, <2>2, HeadRow, RowTypes
  <2>4. BatchOK'
    BY <2>1, <2>3, HeadRow DEF BatchOK
  <2>5. BcastOK' /\ FlinkOK'
    BY <1>1, <2>1 DEF Types, BcastOK, FlinkOK, matcher
  <2>. QED
    BY <1>2, <2>3, <2>4, <2>5 DEF Types
<1>7. CASE PublisherRestart
  <2>1. batch' = <<>> /\ marking' = FALSE /\ UNCHANGED <<outbox, bcast>>
    BY <1>7 DEF PublisherRestart
  <2>2. <<>> \in Seq(DOMAIN outbox')
    OBVIOUS
  <2>3. BatchOK'
    BY <2>1, <2>2 DEF BatchOK
  <2>4. OutboxOK' /\ TxOK' /\ BcastOK' /\ FlinkOK'
    BY <1>1, <2>1 DEF Types, OutboxOK, TxOK, BcastOK, FlinkOK, matcher
  <2>. QED
    BY <1>2, <2>3, <2>4 DEF Types
<1>. QED
  BY <1>3, <1>4, <1>5, <1>6, <1>7 DEF Publisher

\* Time passes: a row is due again, or old enough to be removed.
LEMMA RowStepTypes ==
  ASSUME Types, NEW i \in DOMAIN outbox, RetryDue(i) \/ Cleanup(i)
  PROVE  Types'
<1>1. UNCHANGED <<db, hook, tx, requests, batch, marking, bcast, matcher>>
  BY DEF RetryDue, Cleanup, budget, publisher
<1>2. DbOK' /\ HookOK' /\ BcastOK' /\ FlinkOK'
  BY <1>1 DEF Types, DbOK, HookOK, BcastOK, FlinkOK, matcher
<1>3. CASE RetryDue(i)
  <2>1. OutboxOK' /\ TxOK' /\ DOMAIN outbox' = DOMAIN outbox
    BY <1>1, <1>3, RowTypes DEF RetryDue
  <2>2. BatchOK'
    BY <1>1, <2>1 DEF Types, BatchOK
  <2>. QED
    BY <1>2, <2>1, <2>2 DEF Types
<1>4. CASE Cleanup(i)
  <2>1. /\ batch = <<>> /\ \A s \in Sessions : tx[s] = NoTx
        /\ outbox' = Restrict(outbox, DOMAIN outbox \ {i})
    BY <1>4 DEF Cleanup
  <2>2. /\ DOMAIN outbox' = DOMAIN outbox \ {i}
        /\ \A j \in DOMAIN outbox' : outbox'[j] = outbox[j]
    BY <2>1 DEF Restrict
  <2>3. OutboxOK' /\ TxOK'
    BY <1>1, <2>1, <2>2 DEF Types, OutboxOK, TxOK
  <2>4. <<>> \in Seq(DOMAIN outbox')
    OBVIOUS
  <2>5. BatchOK'
    BY <1>1, <2>1, <2>4 DEF Types, BatchOK
  <2>. QED
    BY <1>2, <2>3, <2>5 DEF Types
<1>. QED
  BY <1>3, <1>4

LEMMA MatcherTypes ==
  ASSUME Types, Apply \/ FlinkRestart \/ Trim
  PROVE  Types'
<1>1. UNCHANGED <<db, outbox, hook, tx, requests, batch, marking, bcast>>
  BY DEF Apply, FlinkRestart, Trim, budget, publisher
<1>2. DbOK' /\ OutboxOK' /\ TxOK' /\ HookOK' /\ BatchOK' /\ BcastOK'
  BY <1>1 DEF Types, DbOK, OutboxOK, TxOK, HookOK, BatchOK, BcastOK
<1>3. CASE Apply
  <2>. DEFINE m == bcast[pos + 1]
  <2>1. /\ pos < Len(bcast) /\ pos' = pos + 1 /\ UNCHANGED low
        /\ \/ flink' = Restrict(flink, DOMAIN flink \ {m.rule})
           \/ flink' = [r \in DOMAIN flink \cup {m.rule} |->
                          IF r = m.rule THEN [ver |-> m.ver, cond |-> m.cond] ELSE flink[r]]
           \/ flink' = flink
    BY <1>3 DEF Apply
  <2>2. Len(bcast) \in Nat /\ low \in Nat /\ pos \in Nat /\ low <= pos
    BY DEF Types, BcastOK, FlinkOK
  <2>3. m \in Message
    BY <2>1, <2>2 DEF Types, BcastOK
  <2>4. m.rule \in Rules /\ [ver |-> m.ver, cond |-> m.cond] \in Entry
    BY <2>3 DEF Message, Entry
  <2>5. DOMAIN flink \subseteq Rules /\ \A r \in DOMAIN flink : flink[r] \in Entry
    BY DEF Types, FlinkOK
  <2>6. DOMAIN flink' \subseteq Rules /\ \A r \in DOMAIN flink' : flink'[r] \in Entry
    BY <2>1, <2>4, <2>5 DEF Restrict
  <2>7. FlinkOK'
    BY <1>1, <2>1, <2>2, <2>6 DEF FlinkOK
  <2>. QED
    BY <1>2, <2>7 DEF Types
<1>4. CASE FlinkRestart
  <2>1. pos' = low /\ flink' = <<>> /\ UNCHANGED low
    BY <1>4 DEF FlinkRestart
  <2>2. Len(bcast) \in Nat /\ low \in Nat /\ pos \in Nat /\ low <= pos /\ pos <= Len(bcast)
    BY DEF Types, BcastOK, FlinkOK
  <2>3. FlinkOK'
    BY <1>1, <2>1, <2>2 DEF FlinkOK
  <2>. QED
    BY <1>2, <2>3 DEF Types
<1>5. CASE Trim
  <2>1. low < pos /\ low' = low + 1 /\ UNCHANGED <<pos, flink>>
    BY <1>5 DEF Trim
  <2>2. FlinkOK'
    BY <1>1, <2>1 DEF Types, FlinkOK
  <2>. QED
    BY <1>2, <2>2 DEF Types
<1>. QED
  BY <1>3, <1>4, <1>5

LEMMA TypesStep == Types /\ [Next]_vars => Types'
<1> SUFFICES ASSUME Types, [Next]_vars PROVE Types'
  OBVIOUS
<1>1. CASE UNCHANGED vars
  BY <1>1 DEF Types, DbOK, OutboxOK, TxOK, HookOK, BatchOK, BcastOK, FlinkOK, vars,
              publisher, matcher, budget
<1>2. CASE \E s \in Sessions, op \in Ops \ {"email"}, r \in Rules : Begin(s, op, r)
  BY <1>2, BeginTypes
<1>3. CASE \E s \in Sessions : Commit(s) \/ Rollback(s)
  BY <1>3, CommitTypes, RollbackTypes
<1>4. CASE HookSelect \/ HookUpdate \/ \E x \in hook.todo : HookPublish(x)
  BY <1>4, HookTypes
<1>5. CASE Publisher \/ PublisherRestart
  BY <1>5, PublisherTypes
<1>6. CASE \E i \in DOMAIN outbox : RetryDue(i) \/ Cleanup(i)
  BY <1>6, RowStepTypes
<1>7. CASE Apply \/ FlinkRestart \/ Trim
  BY <1>7, MatcherTypes
<1>. QED
  BY <1>1, <1>2, <1>3, <1>4, <1>5, <1>6, <1>7 DEF Next

LEMMA AlwaysTypes == Spec => []Types
BY TypesInit, TypesStep, PTL DEF Spec

\* TypeOK, for any number of requests: what the publisher holds is in the
\* table, and the matcher never reads outside what rule_bcast still has.
THEOREM RuleSyncTypes == Spec => []TypeOK
<1>1. Types => TypeOK
  <2> SUFFICES ASSUME Types PROVE TypeOK
    OBVIOUS
  <2>1. db \in [Rules -> [live : BOOLEAN, st : 0..1, ver : Nat, cond : Conds \cup {"none"}]]
    BY DEF Types, DbOK, Rule, Cond
  <2>2. DOMAIN outbox \subseteq 1..MaxRequests
    BY RuleSyncAssumption DEF Types, OutboxOK
  <2>3. \A i \in DOMAIN outbox : /\ outbox[i].rule \in Rules
                                 /\ outbox[i].status \in {"PENDING", "PUBLISHED", "FAILED"}
    BY DEF Types, OutboxOK, Row
  <2>4. \A k \in DOMAIN batch : batch[k] \in DOMAIN outbox
    BY DEF Types, BatchOK
  <2>. QED
    BY <2>1, <2>2, <2>3, <2>4 DEF TypeOK, Types, BatchOK, FlinkOK
<1>. QED
  BY <1>1, AlwaysTypes, PTL

\* The matcher never goes back to an older version of a rule it has, whatever
\* the publisher repeats and whatever any operation writes into rule_bcast.
THEOREM VersionsSafe == Spec => VersionsMonotonic
<1>1. ASSUME Types, [Next]_vars
      PROVE  [\A r \in DOMAIN flink \cap DOMAIN flink' : flink'[r].ver >= flink[r].ver]_flink
  <2>1. CASE Apply
    <3>. DEFINE m == bcast[pos + 1]
    <3>1. \/ flink' = Restrict(flink, DOMAIN flink \ {m.rule})
          \/ /\ Newer(m)
             /\ flink' = [r \in DOMAIN flink \cup {m.rule} |->
                            IF r = m.rule THEN [ver |-> m.ver, cond |-> m.cond] ELSE flink[r]]
          \/ flink' = flink
      BY <2>1 DEF Apply
    <3>2. pos < Len(bcast) /\ pos \in Nat /\ Len(bcast) \in Nat /\ bcast \in Seq(Message)
      BY <1>1, <2>1 DEF Apply, Types, BcastOK, FlinkOK
    <3>3. m \in Message
      BY <3>2
    <3>4. m.ver \in Nat
      BY <3>3 DEF Message
    <3>5. \A r \in DOMAIN flink : flink[r].ver \in Nat
      BY <1>1 DEF Types, FlinkOK, Entry
    <3>. QED
      BY <3>1, <3>4, <3>5 DEF Restrict, Newer
  <2>2. CASE FlinkRestart
    BY <2>2 DEF FlinkRestart
  <2>3. CASE flink' = flink
    BY <2>3
  <2>4. flink' = flink \/ Apply \/ FlinkRestart
    BY <1>1 DEF Next, Begin, Commit, Rollback, HookSelect, HookUpdate, HookPublish, Publisher, Poll,
                Publish, PublishFails, MarkPublished, PublisherRestart, RetryDue, Cleanup, Trim,
                matcher, vars
  <2>. QED
    BY <2>1, <2>2, <2>3, <2>4
<1>. QED
  BY <1>1, AlwaysTypes, PTL DEF Spec, VersionsMonotonic

-----------------------------------------------------------------------------
(* What the matcher gets, while rules are created, updated and switched    *)
(* only.  A subscription starts with the key its first change needs, a     *)
(* deleted rule's id starts again at version one, and the two unsubscribes *)
(* write a DELETE: with any of them the invariants below are false.        *)

Steady == Ops \subseteq {"create", "update", "status"}

HookIdle == hook = [pc |-> "idle", todo |-> {}]

\* A request that can still commit has read the rule as it still is.
FreshInv ==
    \A s \in Sessions : tx[s] # NoTx /\ tx[s].id \notin DOMAIN outbox =>
        /\ tx[s].cur = db[tx[s].rule]
        /\ tx[s].op # "create" => db[tx[s].rule].live

\* An UPSERT is older than its rule, and what it says is current if it is
\* the one before: a change publishes the version it has read.
AsOf(r, v, c) == db[r].live /\ v < db[r].ver /\ (v = db[r].ver - 1 => c = db[r].cond)

RowsInv ==
    \A i \in DOMAIN outbox :
        /\ outbox[i].op = "UPSERT" /\ outbox[i].key = outbox[i].ver
        /\ AsOf(outbox[i].rule, outbox[i].ver, outbox[i].cond)

MessagesInv ==
    \A j \in 1..Len(bcast) :
        bcast[j].op = "UPSERT" /\ AsOf(bcast[j].rule, bcast[j].ver, bcast[j].cond)

EntriesInv == \A r \in DOMAIN flink : AsOf(r, flink[r].ver, flink[r].cond)

\* The last change of a rule is in rule_bcast, or its row is still there.
Written(r, v) == \E j \in 1..Len(bcast) : bcast[j].rule = r /\ bcast[j].ver = v

InOutbox(r, v) == \E i \in DOMAIN outbox :
    outbox[i].rule = r /\ outbox[i].ver = v /\ outbox[i].status # "PUBLISHED"

LatestInv == \A r \in Live : Written(r, db[r].ver - 1) \/ InOutbox(r, db[r].ver - 1)

MarkingInv == marking => Written(outbox[Head(batch)].rule, outbox[Head(batch)].ver)

\* What the matcher has read since it started, and what it has made of it.
AppliedInv ==
    \A j \in (low + 1)..pos :
        bcast[j].rule \in DOMAIN flink /\ flink[bcast[j].rule].ver >= bcast[j].ver

Changes  == HookIdle /\ FreshInv /\ RowsInv /\ LatestInv
Stream   == MessagesInv /\ MarkingInv
Matched  == EntriesInv /\ AppliedInv
StepInv  == Types /\ Changes /\ Stream /\ Matched

LEMMA StepInit == Init => StepInv
<1> SUFFICES ASSUME Init PROVE StepInv
  OBVIOUS
<1>1. Types
  BY TypesInit
<1>2. Changes
  BY DEF Init, Changes, HookIdle, FreshInv, RowsInv, LatestInv, Live, NoRule
<1>3. Stream
  BY DEF Init, Stream, MessagesInv, MarkingInv
<1>4. Matched
  BY DEF Init, Matched, EntriesInv, AppliedInv
<1>. QED
  BY <1>1, <1>2, <1>3, <1>4 DEF StepInv

\* A row that a request writes, if its key is free and the rule is the one it read.
LEMMA CommitWrites ==
  ASSUME Steady, StepInv, NEW s \in Sessions, Commit(s)
  PROVE  LET r == tx[s].rule
             row == NewRow(tx[s]) IN
         /\ row.rule = r /\ row.op = "UPSERT" /\ row.key = row.ver /\ row.status = "PENDING"
         /\ db'[r].live /\ row.ver = db'[r].ver - 1 /\ row.cond = db'[r].cond
         /\ db'[r].ver \in Nat
         /\ db[r].live => db'[r].ver = db[r].ver + 1
<1>. DEFINE t == tx[s]
            now == db[t.rule]
<1>1. /\ t # NoTx /\ t.id \notin DOMAIN outbox
      /\ t.op \in Insert => ~now.live
      /\ db' = [db EXCEPT ![t.rule] = NewRule(t)]
  BY DEF Commit, KeysFree
<1>2. t \in Tx /\ t.op \in {"create", "update", "status"} /\ now \in Rule
  BY <1>1 DEF StepInv, Types, TxOK, Tx, DbOK, Steady
<1>3. t.cur = now /\ (t.op # "create" => now.live)
  BY <1>1 DEF StepInv, Changes, FreshInv
<1>4. db'[t.rule] = NewRule(t)
  BY <1>1, <1>2 DEF StepInv, Types, DbOK, Tx
<1>5. now.ver \in Nat
  BY <1>2 DEF Rule
<1>6. CASE t.op = "create"
  <2>1. NewRule(t) = [live |-> TRUE, st |-> 1, ver |-> 1, cond |-> t.in]
    BY <1>6 DEF NewRule, Insert
  <2>2. PayloadVer(t) = 0
    BY <1>6 DEF PayloadVer
  <2>3. NewRow(t) = [rule |-> t.rule, key |-> 0, op |-> "UPSERT", ver |-> 0,
                     cond |-> t.in, status |-> "PENDING", due |-> TRUE]
    BY <1>6, <2>2 DEF NewRow, Insert
  <2>. QED
    BY <1>1, <1>4, <1>6, <2>1, <2>3 DEF Insert
<1>7. CASE t.op = "update"
  <2>1. NewRule(t) = [now EXCEPT !.cond = t.in, !.ver = @ + 1]
    BY <1>7 DEF NewRule, Insert
  <2>2. NewRule(t) = [live |-> now.live, st |-> now.st, ver |-> now.ver + 1, cond |-> t.in]
    BY <1>2, <2>1 DEF Rule
  <2>3. PayloadVer(t) = now.ver
    BY <1>3, <1>7 DEF PayloadVer
  <2>4. NewRow(t) = [rule |-> t.rule, key |-> now.ver, op |-> "UPSERT", ver |-> now.ver,
                     cond |-> t.in, status |-> "PENDING", due |-> TRUE]
    BY <1>7, <2>3 DEF NewRow, Insert
  <2>. QED
    BY <1>3, <1>4, <1>5, <1>7, <2>2, <2>4
<1>8. CASE t.op = "status"
  <2>1. NewRule(t) = [now EXCEPT !.st = t.in, !.ver = @ + 1]
    BY <1>8 DEF NewRule, Insert
  <2>2. NewRule(t) = [live |-> now.live, st |-> t.in, ver |-> now.ver + 1, cond |-> now.cond]
    BY <1>2, <2>1 DEF Rule
  <2>3. PayloadVer(t) = now.ver
    BY <1>3, <1>8 DEF PayloadVer
  <2>4. NewRow(t) = [rule |-> t.rule, key |-> now.ver, op |-> "UPSERT", ver |-> now.ver,
                     cond |-> now.cond, status |-> "PENDING", due |-> TRUE]
    BY <1>3, <1>8, <2>3 DEF NewRow, Insert
  <2>. QED
    BY <1>3, <1>4, <1>5, <1>8, <2>2, <2>4
<1>. QED
  BY <1>2, <1>6, <1>7, <1>8

LEMMA BeginStep ==
  ASSUME Steady, StepInv, NEW s \in Sessions, NEW op \in Ops \ {"email"}, NEW r \in Rules,
         Begin(s, op, r)
  PROVE  StepInv'
<1>1. UNCHANGED <<db, outbox, hook, publisher, bcast, matcher>>
  BY DEF Begin
<1>0. PICK x \in Inputs(op) :
         tx' = [tx EXCEPT ![s] = [op |-> op, rule |-> r, cur |-> db[r], in |-> x,
                                  id |-> NextId(DOMAIN outbox)]]
  BY DEF Begin
<1>. DEFINE new == [op |-> op, rule |-> r, cur |-> db[r], in |-> x, id |-> NextId(DOMAIN outbox)]
<1>2. /\ tx' = [tx EXCEPT ![s] = new]
      /\ new.op = op /\ new.rule = r /\ new.cur = db[r]
  BY <1>0
<1>. HIDE DEF new
<1>3. op # "create" => db[r].live
  BY DEF Begin, Insert, Steady
<1>4. Types'
  BY BeginTypes DEF StepInv
<1>5. FreshInv'
  <2>1. tx \in [Sessions -> {NoTx} \cup Tx]
    BY DEF StepInv, Types, TxOK
  <2>2. \A q \in Sessions : tx'[q] = IF q = s THEN new ELSE tx[q]
    BY <1>2, <2>1
  <2>. QED
    BY <1>1, <1>2, <1>3, <2>2 DEF FreshInv, StepInv, Changes
<1>6. HookIdle' /\ RowsInv' /\ LatestInv'
  BY <1>1 DEF StepInv, Changes, HookIdle, RowsInv, AsOf, LatestInv, Live, Written, InOutbox
<1>7. Stream' /\ Matched'
  BY <1>1 DEF StepInv, Stream, Matched, MessagesInv, MarkingInv, EntriesInv, AppliedInv, AsOf,
              Written, publisher, matcher
<1>. QED
  BY <1>4, <1>5, <1>6, <1>7 DEF StepInv, Changes

LEMMA CommitStep ==
  ASSUME Steady, StepInv, NEW s \in Sessions, Commit(s)
  PROVE  StepInv'
<1>. DEFINE t == tx[s]
            row == NewRow(t)
<1>1. /\ UNCHANGED <<hook, publisher, bcast, matcher>>
      /\ t # NoTx /\ t.id \notin DOMAIN outbox
      /\ db' = [db EXCEPT ![t.rule] = NewRule(t)]
      /\ outbox' = [i \in DOMAIN outbox \cup {t.id} |-> IF i = t.id THEN row ELSE outbox[i]]
      /\ tx' = [tx EXCEPT ![s] = NoTx]
  BY DEF Commit, KeysFree
<1>2. t.rule \in Rules /\ t.id = NextId(DOMAIN outbox)
  BY <1>1 DEF StepInv, Types, TxOK, Tx
<1>3. /\ row.rule = t.rule /\ row.op = "UPSERT" /\ row.key = row.ver /\ row.status = "PENDING"
      /\ db'[t.rule].live /\ row.ver = db'[t.rule].ver - 1 /\ row.cond = db'[t.rule].cond
      /\ db'[t.rule].ver \in Nat
      /\ db[t.rule].live => db'[t.rule].ver = db[t.rule].ver + 1
  BY CommitWrites
<1>. HIDE DEF row
<1>4. \A q \in Rules \ {t.rule} : db'[q] = db[q]
  BY <1>1 DEF StepInv, Types, DbOK
<1>5. \A q \in Rules : db[q].ver \in Nat
  BY DEF StepInv, Types, DbOK, Rule
<1>6. \A c : \A q \in Rules, v \in Nat : AsOf(q, v, c) =>
         db'[q].live /\ v < db'[q].ver /\ (v = db'[q].ver - 1 => c = db'[q].cond)
  BY <1>3, <1>4, <1>5 DEF AsOf
<1>7. Types'
  BY CommitTypes DEF StepInv
<1>8. RowsInv'
  <2> SUFFICES ASSUME NEW i \in DOMAIN outbox'
               PROVE  /\ outbox'[i].op = "UPSERT" /\ outbox'[i].key = outbox'[i].ver
                      /\ AsOf(outbox[i].rule, outbox[i].ver, outbox[i].cond)'
    BY DEF RowsInv
  <2>1. CASE i = t.id
    <3>1. outbox'[i] = row
      BY <1>1, <2>1
    <3>. QED
      BY <1>3, <3>1 DEF AsOf
  <2>2. CASE i # t.id
    <3>1. i \in DOMAIN outbox /\ outbox'[i] = outbox[i]
      BY <1>1, <2>2
    <3>2. outbox[i].rule \in Rules /\ outbox[i].ver \in Nat
      BY <3>1 DEF StepInv, Types, OutboxOK, Row
    <3>. QED
      BY <1>6, <3>1, <3>2 DEF AsOf, StepInv, Changes, RowsInv
  <2>. QED
    BY <2>1, <2>2
<1>9. MessagesInv'
  <2> SUFFICES ASSUME NEW j \in 1..Len(bcast)
               PROVE  bcast[j].op = "UPSERT" /\ AsOf(bcast[j].rule, bcast[j].ver, bcast[j].cond)'
    BY <1>1 DEF MessagesInv
  <2>1. bcast[j] \in Message
    BY DEF StepInv, Types, BcastOK
  <2>2. bcast[j].rule \in Rules /\ bcast[j].ver \in Nat
    BY <2>1 DEF Message
  <2>3. bcast[j].op = "UPSERT" /\ AsOf(bcast[j].rule, bcast[j].ver, bcast[j].cond)
    BY DEF StepInv, Stream, MessagesInv
  <2>4. /\ db'[bcast[j].rule].live /\ bcast[j].ver < db'[bcast[j].rule].ver
        /\ bcast[j].ver = db'[bcast[j].rule].ver - 1 => bcast[j].cond = db'[bcast[j].rule].cond
    BY <1>6, <2>2, <2>3
  <2>. QED
    BY <1>1, <2>3, <2>4 DEF AsOf
<1>10. EntriesInv'
  <2> SUFFICES ASSUME NEW r \in DOMAIN flink
               PROVE  AsOf(r, flink[r].ver, flink[r].cond)'
    BY <1>1 DEF EntriesInv, matcher
  <2>1. r \in Rules /\ flink[r].ver \in Nat
    BY DEF StepInv, Types, FlinkOK, Entry
  <2>2. AsOf(r, flink[r].ver, flink[r].cond)
    BY DEF StepInv, Matched, EntriesInv
  <2>3. /\ db'[r].live /\ flink[r].ver < db'[r].ver
        /\ flink[r].ver = db'[r].ver - 1 => flink[r].cond = db'[r].cond
    BY <1>6, <2>1, <2>2
  <2>. QED
    BY <1>1, <2>3 DEF AsOf, matcher
<1>11. FreshInv'
  <2>1. \A q \in Sessions : tx'[q] # NoTx => q # s /\ tx'[q] = tx[q]
    BY <1>1 DEF StepInv, Types, TxOK
  <2>2. \A q \in Sessions : tx'[q] # NoTx => tx'[q].id \in DOMAIN outbox'
    BY <1>1, <1>2, <2>1 DEF StepInv, Types, TxOK
  <2>. QED
    BY <2>2 DEF FreshInv
<1>12. LatestInv'
  <2> SUFFICES ASSUME NEW r \in Rules, db'[r].live
               PROVE  \/ \E j \in 1..Len(bcast) : bcast[j].rule = r /\ bcast[j].ver = db'[r].ver - 1
                      \/ \E i \in DOMAIN outbox' : /\ outbox'[i].rule = r
                                                   /\ outbox'[i].ver = db'[r].ver - 1
                                                   /\ outbox'[i].status # "PUBLISHED"
    BY <1>1 DEF LatestInv, Live, Written, InOutbox
  <2>1. CASE r = t.rule
    <3>1. t.id \in DOMAIN outbox' /\ outbox'[t.id] = row
      BY <1>1
    <3>. QED
      BY <1>3, <2>1, <3>1
  <2>2. CASE r # t.rule
    <3>1. db'[r] = db[r] /\ r \in Live
      BY <1>4, <2>2 DEF Live
    <3>2. Written(r, db[r].ver - 1) \/ InOutbox(r, db[r].ver - 1)
      BY <3>1 DEF StepInv, Changes, LatestInv
    <3>3. \A i \in DOMAIN outbox : i \in DOMAIN outbox' /\ outbox'[i] = outbox[i]
      BY <1>1
    <3>. QED
      BY <3>1, <3>2, <3>3 DEF Written, InOutbox
  <2>. QED
    BY <2>1, <2>2
<1>13. MarkingInv'
  <2>1. marking => Head(batch) \in DOMAIN outbox
    BY HeadRow DEF StepInv, Types, BatchOK
  <2>2. marking => outbox'[Head(batch)] = outbox[Head(batch)]
    BY <1>1, <2>1
  <2>. QED
    BY <1>1, <2>2 DEF StepInv, Stream, MarkingInv, Written, publisher
<1>14. HookIdle' /\ AppliedInv'
  BY <1>1 DEF StepInv, Changes, Matched, HookIdle, AppliedInv, matcher
<1>. QED
  BY <1>7, <1>8, <1>9, <1>10, <1>11, <1>12, <1>13, <1>14 DEF StepInv, Changes, Stream, Matched

LEMMA RollbackStep ==
  ASSUME StepInv, NEW s \in Sessions, Rollback(s)
  PROVE  StepInv'
<1>1. /\ UNCHANGED <<db, outbox, hook, publisher, bcast, matcher>>
      /\ tx' = [tx EXCEPT ![s] = NoTx]
  BY DEF Rollback
<1>2. \A q \in Sessions : tx'[q] # NoTx => tx'[q] = tx[q]
  BY <1>1 DEF StepInv, Types, TxOK
<1>3. FreshInv'
  BY <1>1, <1>2 DEF FreshInv, StepInv, Changes
<1>4. HookIdle' /\ RowsInv' /\ LatestInv'
  BY <1>1 DEF StepInv, Changes, HookIdle, RowsInv, AsOf, LatestInv, Live, Written, InOutbox
<1>5. Stream' /\ Matched'
  BY <1>1 DEF StepInv, Stream, Matched, MessagesInv, MarkingInv, EntriesInv, AppliedInv, AsOf,
              Written, publisher, matcher
<1>. QED
  BY <1>3, <1>4, <1>5, RollbackTypes DEF StepInv, Changes

\* A message more, made of a row of the outbox.
LEMMA WriteStep ==
  ASSUME StepInv, batch # <<>>, Write, UNCHANGED <<db, matcher>>
  PROVE  /\ MessagesInv' /\ Matched'
         /\ \A r, v : Written(r, v) => Written(r, v)'
         /\ \E j \in 1..Len(bcast') : /\ bcast'[j].rule = outbox[Head(batch)].rule
                                      /\ bcast'[j].ver = outbox[Head(batch)].ver
<1>. DEFINE row == outbox[Head(batch)]
            m == [rule |-> row.rule, op |-> row.op, ver |-> row.ver, cond |-> row.cond]
<1>1. bcast' = Append(bcast, m) /\ bcast \in Seq(Message)
  BY DEF Write, StepInv, Types, BcastOK
<1>2. m.rule = row.rule /\ m.ver = row.ver
  OBVIOUS
<1>3. m.op = "UPSERT" /\ AsOf(m.rule, m.ver, m.cond)
  <2>1. Head(batch) \in DOMAIN outbox
    BY HeadRow DEF StepInv
  <2>. QED
    BY <2>1 DEF StepInv, Changes, RowsInv
<1>. HIDE DEF m
<1>4. /\ Len(bcast) \in Nat /\ Len(bcast') = Len(bcast) + 1 /\ bcast'[Len(bcast')] = m
      /\ \A j \in 1..Len(bcast) : bcast'[j] = bcast[j]
  BY <1>1
<1>5. \A j \in 1..Len(bcast) : j \in 1..Len(bcast')
  BY <1>4
<1>6. Len(bcast') \in 1..Len(bcast')
  BY <1>4
<1>7. MessagesInv'
  <2> SUFFICES ASSUME NEW j \in 1..Len(bcast')
               PROVE  bcast'[j].op = "UPSERT" /\ AsOf(bcast'[j].rule, bcast'[j].ver, bcast'[j].cond)
    BY DEF MessagesInv, AsOf
  <2>1. CASE j \in 1..Len(bcast)
    BY <1>4, <2>1 DEF StepInv, Stream, MessagesInv
  <2>2. CASE j = Len(bcast')
    BY <1>3, <1>4, <2>2
  <2>. QED
    BY <1>4, <2>1, <2>2
<1>8. Matched'
  <2>1. EntriesInv'
    BY DEF StepInv, Matched, EntriesInv, AsOf, matcher
  <2>2. \A j \in (low + 1)..pos : j \in 1..Len(bcast)
    BY <1>4 DEF StepInv, Types, FlinkOK
  <2>3. AppliedInv'
    BY <1>4, <2>2 DEF StepInv, Matched, AppliedInv, matcher
  <2>. QED
    BY <2>1, <2>3 DEF Matched
<1>9. \A r, v : Written(r, v) => Written(r, v)'
  BY <1>4, <1>5 DEF Written
<1>. QED
  BY <1>2, <1>4, <1>6, <1>7, <1>8, <1>9

\* A row's status or due time: what the rows say of their rules is the same.
LEMMA RowKeeps ==
  ASSUME StepInv, NEW i \in DOMAIN outbox, UNCHANGED db,
         \/ UNCHANGED outbox
         \/ outbox' \in {[outbox EXCEPT ![i].status = "FAILED"],
                         [outbox EXCEPT ![i].status = "PUBLISHED"],
                         [outbox EXCEPT ![i].due = FALSE], [outbox EXCEPT ![i].due = TRUE]}
  PROVE  /\ RowsInv' /\ DOMAIN outbox' = DOMAIN outbox
         /\ \A j \in DOMAIN outbox : /\ outbox'[j].rule = outbox[j].rule
                                     /\ outbox'[j].ver = outbox[j].ver
         /\ \A j \in DOMAIN outbox \ {i} : outbox'[j] = outbox[j]
<1>1. \A j \in DOMAIN outbox : outbox[j] \in Row
  BY DEF StepInv, Types, OutboxOK
<1>2. DOMAIN outbox' = DOMAIN outbox
  OBVIOUS
<1>3. \A j \in DOMAIN outbox : outbox'[j] \in
         {outbox[j], [outbox[j] EXCEPT !.status = "FAILED"],
          [outbox[j] EXCEPT !.status = "PUBLISHED"],
          [outbox[j] EXCEPT !.due = FALSE], [outbox[j] EXCEPT !.due = TRUE]}
  OBVIOUS
<1>4. \A j \in DOMAIN outbox : /\ outbox'[j].rule = outbox[j].rule /\ outbox'[j].op = outbox[j].op
                               /\ outbox'[j].ver = outbox[j].ver /\ outbox'[j].key = outbox[j].key
                               /\ outbox'[j].cond = outbox[j].cond
  <2> SUFFICES ASSUME NEW j \in DOMAIN outbox
               PROVE  /\ outbox'[j].rule = outbox[j].rule /\ outbox'[j].op = outbox[j].op
                      /\ outbox'[j].ver = outbox[j].ver /\ outbox'[j].key = outbox[j].key
                      /\ outbox'[j].cond = outbox[j].cond
    OBVIOUS
  <2>1. outbox[j] \in Row
    BY <1>1
  <2>2. outbox'[j] \in
         {outbox[j], [outbox[j] EXCEPT !.status = "FAILED"],
          [outbox[j] EXCEPT !.status = "PUBLISHED"],
          [outbox[j] EXCEPT !.due = FALSE], [outbox[j] EXCEPT !.due = TRUE]}
    BY <1>3
  <2>. QED
    BY <2>1, <2>2 DEF Row
<1>5. \A j \in DOMAIN outbox \ {i} : outbox'[j] = outbox[j]
  OBVIOUS
<1>6. RowsInv'
  <2> SUFFICES ASSUME NEW j \in DOMAIN outbox'
               PROVE  /\ outbox'[j].op = "UPSERT" /\ outbox'[j].key = outbox'[j].ver
                      /\ AsOf(outbox'[j].rule, outbox'[j].ver, outbox'[j].cond)
    BY DEF RowsInv, AsOf
  <2>1. /\ outbox[j].op = "UPSERT" /\ outbox[j].key = outbox[j].ver
        /\ AsOf(outbox[j].rule, outbox[j].ver, outbox[j].cond)
    BY <1>2 DEF StepInv, Changes, RowsInv
  <2>. QED
    BY <1>2, <1>4, <2>1
<1>. QED
  BY <1>2, <1>4, <1>5, <1>6

\* The last change of each rule stays where it was, unless its row becomes
\* PUBLISHED; then it is in rule_bcast.
LEMMA LatestKept ==
  ASSUME StepInv, UNCHANGED db, \A r, v : Written(r, v) => Written(r, v)',
         \A i \in DOMAIN outbox : outbox[i].status # "PUBLISHED" =>
            \/ /\ i \in DOMAIN outbox' /\ outbox'[i].status # "PUBLISHED"
               /\ outbox'[i].rule = outbox[i].rule /\ outbox'[i].ver = outbox[i].ver
            \/ Written(outbox[i].rule, outbox[i].ver)
  PROVE  LatestInv'
<1> SUFFICES ASSUME NEW r \in Live
             PROVE  Written(r, db[r].ver - 1)' \/ InOutbox(r, db[r].ver - 1)'
  BY DEF LatestInv, Live
<1>. DEFINE v == db[r].ver - 1
<1>1. CASE Written(r, v)
  BY <1>1
<1>2. CASE InOutbox(r, v)
  <2>1. PICK i \in DOMAIN outbox : outbox[i].rule = r /\ outbox[i].ver = v
                                   /\ outbox[i].status # "PUBLISHED"
    BY <1>2 DEF InOutbox
  <2>2. CASE Written(outbox[i].rule, outbox[i].ver)
    BY <2>1, <2>2, <1>1
  <2>3. CASE /\ i \in DOMAIN outbox' /\ outbox'[i].status # "PUBLISHED"
             /\ outbox'[i].rule = outbox[i].rule /\ outbox'[i].ver = outbox[i].ver
    BY <2>1, <2>3 DEF InOutbox
  <2>. QED
    BY <2>1, <2>2, <2>3
<1>. QED
  BY <1>1, <1>2 DEF StepInv, Changes, LatestInv

LEMMA PublisherStep ==
  ASSUME StepInv, Publisher \/ PublisherRestart
  PROVE  StepInv'
<1>1. UNCHANGED <<db, hook, tx, matcher>>
  BY DEF Publisher, Poll, Publish, PublishFails, MarkPublished, PublisherRestart, budget
<1>2. Types'
  BY PublisherTypes DEF StepInv
<1>3. ASSUME DOMAIN outbox' = DOMAIN outbox PROVE HookIdle' /\ FreshInv'
  BY <1>1, <1>3 DEF StepInv, Changes, HookIdle, FreshInv
<1>4. ASSUME UNCHANGED outbox, \A r, v : Written(r, v) => Written(r, v)' PROVE Changes'
  <2>1. LatestInv'
    BY <1>1, <1>4, LatestKept
  <2>2. RowsInv'
    BY <1>1, <1>4 DEF StepInv, Changes, RowsInv, AsOf
  <2>. QED
    BY <1>3, <1>4, <2>1, <2>2 DEF Changes
<1>5. ASSUME UNCHANGED bcast
      PROVE  MessagesInv' /\ Matched' /\ \A r, v : Written(r, v) <=> Written(r, v)'
  BY <1>1, <1>5 DEF StepInv, Stream, Matched, MessagesInv, EntriesInv, AppliedInv, AsOf,
                    Written, matcher
<1>6. CASE Poll
  <2>1. UNCHANGED <<outbox, marking, bcast>> /\ batch = <<>>
    BY <1>6 DEF Poll
  <2>2. ~marking'
    BY <2>1 DEF StepInv, Types, BatchOK
  <2>. QED
    BY <1>2, <1>4, <1>5, <2>1, <2>2 DEF StepInv, Stream, MarkingInv
<1>7. CASE Publish
  <2>1. UNCHANGED <<outbox, batch>> /\ batch # <<>> /\ Write
    BY <1>7 DEF Publish
  <2>2. /\ MessagesInv' /\ Matched'
        /\ \A r, v : Written(r, v) => Written(r, v)'
        /\ \E j \in 1..Len(bcast') : /\ bcast'[j].rule = outbox[Head(batch)].rule
                                     /\ bcast'[j].ver = outbox[Head(batch)].ver
    BY <1>1, <2>1, WriteStep
  <2>3. MarkingInv'
    BY <2>1, <2>2 DEF MarkingInv, Written
  <2>. QED
    BY <1>2, <1>4, <2>1, <2>2, <2>3 DEF StepInv, Stream
<1>8. CASE PublishFails
  <2>1. batch # <<>> /\ ~marking'
    BY <1>8 DEF PublishFails
  <2>2. (outbox' = outbox \/ outbox' = Failed(Head(batch))) /\ (bcast' = bcast \/ Write)
    BY <1>8 DEF PublishFails
  <2>3. Head(batch) \in DOMAIN outbox
    BY <2>1, HeadRow DEF StepInv
  <2>4. \/ UNCHANGED outbox
        \/ outbox' \in {[outbox EXCEPT ![Head(batch)].status = "FAILED"],
                        [outbox EXCEPT ![Head(batch)].due = FALSE]}
    BY <2>2 DEF Failed
  <2>5. /\ RowsInv' /\ DOMAIN outbox' = DOMAIN outbox
        /\ \A j \in DOMAIN outbox : /\ outbox'[j].rule = outbox[j].rule
                                    /\ outbox'[j].ver = outbox[j].ver
        /\ \A j \in DOMAIN outbox \ {Head(batch)} : outbox'[j] = outbox[j]
    BY <1>1, <2>3, <2>4, RowKeeps
  <2>6. \A j \in DOMAIN outbox : outbox[j].status # "PUBLISHED" => outbox'[j].status # "PUBLISHED"
    <3>1. outbox[Head(batch)] \in Row
      BY <2>3 DEF StepInv, Types, OutboxOK
    <3>2. outbox'[Head(batch)] \in {outbox[Head(batch)],
                                    [outbox[Head(batch)] EXCEPT !.status = "FAILED"],
                                    [outbox[Head(batch)] EXCEPT !.due = FALSE]}
      BY <2>3, <2>4
    <3>3. outbox'[Head(batch)].status \in {outbox[Head(batch)].status, "FAILED"}
      BY <3>1, <3>2 DEF Row
    <3>. QED
      BY <2>5, <3>3
  <2>7. MessagesInv' /\ Matched' /\ \A r, v : Written(r, v) => Written(r, v)'
    BY <1>1, <1>5, <2>1, <2>2, WriteStep
  <2>8. LatestInv'
    BY <1>1, <2>5, <2>6, <2>7, LatestKept
  <2>. QED
    BY <1>2, <1>3, <2>1, <2>5, <2>7, <2>8 DEF StepInv, Changes, Stream, MarkingInv
<1>9. CASE MarkPublished
  <2>1. marking /\ ~marking' /\ UNCHANGED bcast
    BY <1>9 DEF MarkPublished
  <2>2. UNCHANGED outbox \/ outbox' = [outbox EXCEPT ![Head(batch)].status = "PUBLISHED"]
    BY <1>9 DEF MarkPublished
  <2>3. Head(batch) \in DOMAIN outbox
    BY <2>1, HeadRow DEF StepInv, Types, BatchOK
  <2>4. /\ RowsInv' /\ DOMAIN outbox' = DOMAIN outbox
        /\ \A j \in DOMAIN outbox \ {Head(batch)} : outbox'[j] = outbox[j]
    BY <1>1, <2>2, <2>3, RowKeeps
  <2>5. Written(outbox[Head(batch)].rule, outbox[Head(batch)].ver)
    BY <2>1 DEF StepInv, Stream, MarkingInv
  <2>6. MessagesInv' /\ Matched' /\ \A r, v : Written(r, v) => Written(r, v)'
    BY <1>5, <2>1
  <2>7. LatestInv'
    BY <1>1, <2>4, <2>5, <2>6, LatestKept
  <2>. QED
    BY <1>2, <1>3, <2>1, <2>4, <2>6, <2>7 DEF StepInv, Changes, Stream, MarkingInv
<1>10. CASE PublisherRestart
  <2>1. ~marking' /\ UNCHANGED <<outbox, bcast>>
    BY <1>10 DEF PublisherRestart
  <2>. QED
    BY <1>2, <1>4, <1>5, <2>1 DEF StepInv, Stream, MarkingInv
<1>. QED
  BY <1>6, <1>7, <1>8, <1>9, <1>10 DEF Publisher

LEMMA RowStep ==
  ASSUME StepInv, NEW i \in DOMAIN outbox, RetryDue(i) \/ Cleanup(i)
  PROVE  StepInv'
<1>1. UNCHANGED <<db, hook, tx, batch, marking, bcast, matcher>>
  BY DEF RetryDue, Cleanup, budget, publisher
<1>2. Types'
  BY RowStepTypes DEF StepInv
<1>3. MessagesInv' /\ Matched' /\ \A r, v : Written(r, v) <=> Written(r, v)'
  BY <1>1 DEF StepInv, Stream, Matched, MessagesInv, EntriesInv, AppliedInv, AsOf,
              Written, matcher
<1>4. CASE RetryDue(i)
  <2>1. outbox' = [outbox EXCEPT ![i].due = TRUE] /\ outbox[i].status = "PENDING"
    BY <1>4 DEF RetryDue
  <2>2. /\ RowsInv' /\ DOMAIN outbox' = DOMAIN outbox
        /\ \A j \in DOMAIN outbox : /\ outbox'[j].rule = outbox[j].rule
                                    /\ outbox'[j].ver = outbox[j].ver
        /\ \A j \in DOMAIN outbox \ {i} : outbox'[j] = outbox[j]
    BY <1>1, <2>1, RowKeeps
  <2>3. outbox'[i].status = "PENDING"
    <3>1. outbox'[i] = [outbox[i] EXCEPT !.due = TRUE] /\ outbox[i] \in Row
      BY <2>1 DEF StepInv, Types, OutboxOK
    <3>. QED
      BY <2>1, <3>1 DEF Row
  <2>4. LatestInv'
    BY <1>1, <1>3, <2>2, <2>3, LatestKept
  <2>5. HookIdle' /\ FreshInv'
    BY <1>1, <2>2 DEF StepInv, Changes, HookIdle, FreshInv
  <2>6. MarkingInv'
    <3>1. marking => Head(batch) \in DOMAIN outbox
      BY HeadRow DEF StepInv, Types, BatchOK
    <3>. QED
      BY <1>1, <1>3, <2>2, <3>1 DEF StepInv, Stream, MarkingInv, Written
  <2>. QED
    BY <1>2, <1>3, <2>2, <2>4, <2>5, <2>6 DEF StepInv, Changes, Stream
<1>5. CASE Cleanup(i)
  <2>1. /\ outbox[i].status = "PUBLISHED" /\ batch = <<>> /\ \A s \in Sessions : tx[s] = NoTx
        /\ outbox' = Restrict(outbox, DOMAIN outbox \ {i})
    BY <1>5 DEF Cleanup
  <2>2. /\ DOMAIN outbox' = DOMAIN outbox \ {i}
        /\ \A j \in DOMAIN outbox' : outbox'[j] = outbox[j]
    BY <2>1 DEF Restrict
  <2>3. RowsInv'
    BY <1>1, <2>2 DEF StepInv, Changes, RowsInv, AsOf
  <2>4. LatestInv'
    BY <1>1, <1>3, <2>1, <2>2, LatestKept
  <2>5. HookIdle' /\ FreshInv'
    BY <1>1, <2>1 DEF StepInv, Changes, HookIdle, FreshInv
  <2>6. MarkingInv'
    BY <1>1, <2>1 DEF StepInv, Types, BatchOK, MarkingInv
  <2>. QED
    BY <1>2, <1>3, <2>3, <2>4, <2>5, <2>6 DEF StepInv, Changes, Stream
<1>. QED
  BY <1>4, <1>5

LEMMA MatcherStep ==
  ASSUME StepInv, Apply \/ FlinkRestart \/ Trim
  PROVE  StepInv'
<1>1. UNCHANGED <<db, outbox, hook, tx, batch, marking, bcast>>
  BY DEF Apply, FlinkRestart, Trim, budget, publisher
<1>2. Types'
  BY MatcherTypes DEF StepInv
<1>3. Changes' /\ Stream'
  BY <1>1 DEF StepInv, Changes, Stream, HookIdle, FreshInv, RowsInv, LatestInv, MessagesInv,
              MarkingInv, AsOf, Live, Written, InOutbox
<1>4. low \in Nat /\ pos \in Nat /\ Len(bcast) \in Nat /\ low <= pos
  BY DEF StepInv, Types, FlinkOK, BcastOK
<1>5. CASE Apply
  <2>. DEFINE m == bcast[pos + 1]
  <2>1. pos < Len(bcast) /\ pos' = pos + 1 /\ UNCHANGED low
    BY <1>5 DEF Apply
  <2>2. pos + 1 \in 1..Len(bcast)
    BY <1>4, <2>1
  <2>3. m.op = "UPSERT" /\ AsOf(m.rule, m.ver, m.cond)
    BY <2>2 DEF StepInv, Stream, MessagesInv
  <2>4. \/ /\ Newer(m)
           /\ flink' = [r \in DOMAIN flink \cup {m.rule} |->
                          IF r = m.rule THEN [ver |-> m.ver, cond |-> m.cond] ELSE flink[r]]
        \/ ~Newer(m) /\ flink' = flink
    BY <1>5, <2>3 DEF Apply
  <2>5. m \in Message
    BY <2>2 DEF StepInv, Types, BcastOK
  <2>6. m.ver \in Nat /\ \A r \in DOMAIN flink : flink[r].ver \in Nat
    <3>1. \A r \in DOMAIN flink : flink[r] \in Entry
      BY DEF StepInv, Types, FlinkOK
    <3>. QED
      BY <2>5, <3>1 DEF Message, Entry
  <2>. HIDE DEF m
  <2>7. /\ m.rule \in DOMAIN flink' /\ flink'[m.rule].ver >= m.ver
        /\ \A r \in DOMAIN flink : r \in DOMAIN flink' /\ flink'[r].ver >= flink[r].ver
    BY <2>4, <2>6 DEF Newer
  <2>8. EntriesInv'
    <3> SUFFICES ASSUME NEW r \in DOMAIN flink'
                 PROVE  AsOf(r, flink'[r].ver, flink'[r].cond)
      BY <1>1 DEF EntriesInv, AsOf
    <3>1. \/ r \in DOMAIN flink /\ flink'[r] = flink[r]
          \/ r = m.rule /\ flink'[r].ver = m.ver /\ flink'[r].cond = m.cond
      BY <2>4
    <3>. QED
      BY <2>3, <3>1 DEF StepInv, Matched, EntriesInv
  <2>9. AppliedInv'
    <3> SUFFICES ASSUME NEW j \in (low + 1)..(pos + 1)
                 PROVE  /\ bcast[j].rule \in DOMAIN flink'
                        /\ flink'[bcast[j].rule].ver >= bcast[j].ver
      BY <1>1, <2>1 DEF AppliedInv
    <3>1. CASE j = pos + 1
      BY <2>7, <3>1 DEF m
    <3>2. CASE j # pos + 1
      <4>1. j \in (low + 1)..pos /\ j \in 1..Len(bcast)
        BY <1>4, <2>1, <3>2
      <4>2. bcast[j].rule \in DOMAIN flink /\ flink[bcast[j].rule].ver >= bcast[j].ver
        BY <4>1 DEF StepInv, Matched, AppliedInv
      <4>3. bcast[j].ver \in Nat
        <5>1. bcast[j] \in Message
          BY <4>1 DEF StepInv, Types, BcastOK
        <5>. QED
          BY <5>1 DEF Message
      <4>4. flink'[bcast[j].rule].ver \in Nat
        BY <2>4, <2>6, <4>2
      <4>. QED
        BY <2>6, <2>7, <4>2, <4>3, <4>4
    <3>. QED
      BY <3>1, <3>2
  <2>. QED
    BY <1>2, <1>3, <2>8, <2>9 DEF StepInv, Matched
<1>6. CASE FlinkRestart
  <2>1. pos' = low /\ flink' = <<>> /\ UNCHANGED low
    BY <1>6 DEF FlinkRestart
  <2>2. EntriesInv' /\ AppliedInv'
    BY <1>4, <2>1 DEF EntriesInv, AppliedInv
  <2>. QED
    BY <1>2, <1>3, <2>2 DEF StepInv, Matched
<1>7. CASE Trim
  <2>1. low' = low + 1 /\ UNCHANGED <<pos, flink>>
    BY <1>7 DEF Trim
  <2>2. EntriesInv' /\ AppliedInv'
    BY <1>1, <1>4, <2>1 DEF StepInv, Matched, EntriesInv, AppliedInv, AsOf
  <2>. QED
    BY <1>2, <1>3, <2>2 DEF StepInv, Matched
<1>. QED
  BY <1>5, <1>6, <1>7

LEMMA StepKeeps == Steady /\ StepInv /\ [Next]_vars => StepInv'
<1> SUFFICES ASSUME Steady, StepInv, [Next]_vars PROVE StepInv'
  OBVIOUS
<1>1. CASE UNCHANGED vars
  <2>1. Types'
    BY <1>1, TypesStep DEF StepInv
  <2>. QED
    BY <1>1, <2>1 DEF StepInv, Changes, Stream, Matched, HookIdle, FreshInv, RowsInv, LatestInv,
              MessagesInv, MarkingInv, EntriesInv, AppliedInv, AsOf, Live, Written, InOutbox,
              vars, publisher, matcher
<1>2. CASE \E s \in Sessions, op \in Ops \ {"email"}, r \in Rules : Begin(s, op, r)
  BY <1>2, BeginStep
<1>3. CASE \E s \in Sessions : Commit(s) \/ Rollback(s)
  BY <1>3, CommitStep, RollbackStep
<1>4. ~(HookSelect \/ HookUpdate \/ \E x \in hook.todo : HookPublish(x))
  BY DEF StepInv, Changes, HookIdle, HookSelect, HookUpdate, HookPublish, Steady
<1>5. CASE Publisher \/ PublisherRestart
  BY <1>5, PublisherStep
<1>6. CASE \E i \in DOMAIN outbox : RetryDue(i) \/ Cleanup(i)
  BY <1>6, RowStep
<1>7. CASE Apply \/ FlinkRestart \/ Trim
  BY <1>7, MatcherStep
<1>. QED
  BY <1>1, <1>2, <1>3, <1>4, <1>5, <1>6, <1>7 DEF Next

\* The key of a rule's next change is always free: every change of the rule
\* has used the version before, and only one change uses each.
THEOREM NextChangeSafe == Steady /\ Spec => []NextChangePossible
<1> SUFFICES ASSUME Steady PROVE Spec => []NextChangePossible
  OBVIOUS
<1>1. StepInv => NextChangePossible
  <2> SUFFICES ASSUME StepInv, NEW r \in Live PROVE ~KeyTaken(r, db[r].ver)
    BY DEF NextChangePossible
  <2>1. db[r].ver \in Nat
    BY DEF Live, StepInv, Types, DbOK, Rule
  <2>2. ASSUME NEW i \in DOMAIN outbox, outbox[i].rule = r PROVE outbox[i].key < db[r].ver
    BY <2>2 DEF StepInv, Changes, RowsInv, AsOf
  <2>. QED
    BY <2>1, <2>2 DEF KeyTaken
<1>2. StepInv /\ [Next]_vars => StepInv'
  BY StepKeeps
<1>. QED
  BY StepInit, <1>1, <1>2, PTL DEF Spec

\* With every change published and applied, the matcher has the rule as MySQL
\* has it: repeated and reordered messages, retries and restarts of either
\* program leave nothing older in its state and nothing out of it.
THEOREM FlinkSafe == Steady /\ Spec => []FlinkInStep
<1> SUFFICES ASSUME Steady PROVE Spec => []FlinkInStep
  OBVIOUS
<1>1. StepInv => FlinkInStep
  <2> SUFFICES ASSUME StepInv, NEW r \in Live, pos = Len(bcast), ~Trimmed(r),
                      \A i \in DOMAIN outbox : outbox[i].rule = r => outbox[i].status = "PUBLISHED"
               PROVE  r \in DOMAIN flink /\ flink[r].cond = db[r].cond
    BY DEF FlinkInStep
  <2>1. PICK j \in 1..Len(bcast) : bcast[j].rule = r /\ bcast[j].ver = db[r].ver - 1
    BY DEF StepInv, Changes, LatestInv, InOutbox, Written
  <2>2. low \in Nat /\ pos \in Nat /\ Len(bcast) \in Nat
    BY DEF StepInv, Types, FlinkOK, BcastOK
  <2>3. j \in (low + 1)..pos
    BY <2>1, <2>2 DEF Trimmed
  <2>4. r \in DOMAIN flink /\ flink[r].ver >= db[r].ver - 1
    BY <2>1, <2>3 DEF StepInv, Matched, AppliedInv
  <2>5. flink[r] \in Entry /\ db[r] \in Rule
    BY <2>4 DEF StepInv, Types, FlinkOK, DbOK, Live
  <2>6. flink[r].ver = db[r].ver - 1
    BY <2>4, <2>5 DEF StepInv, Matched, EntriesInv, AsOf, Entry, Rule
  <2>. QED
    BY <2>4, <2>6 DEF StepInv, Matched, EntriesInv, AsOf
<1>2. StepInv /\ [Next]_vars => StepInv'
  BY StepKeeps
<1>. QED
  BY StepInit, <1>1, <1>2, PTL DEF Spec
=============================================================================
