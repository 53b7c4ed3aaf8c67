------------------------------ MODULE RuleSync ------------------------------
(***************************************************************************)
(* How an alert rule gets from biz-service to the matcher in Flink:        *)
(*                                                                         *)
(*   RuleService / SubscribeService   one MySQL transaction writes the     *)
(*                                    alert_rule row and an outbox_event   *)
(*   outbox-publisher                 polls PENDING rows, writes rule_bcast *)
(*   RuleMatchFunction                keeps the broadcast state            *)
(*   notify's unsubscribe hook        updates MySQL, writes rule_bcast     *)
(*                                    itself                               *)
(*                                                                         *)
(* All rules belong to one user.  A transaction reads from one snapshot    *)
(* (REPEATABLE READ) taken when it begins, ids included (MAX(id) + 1); its *)
(* writes wait for locks, so they act at the commit, where a key that was  *)
(* taken in the meantime rolls everything back.                            *)
(***************************************************************************)
EXTENDS Integers, Sequences, FiniteSets, SequencesExt

CONSTANTS
    Sessions,    \* concurrent requests to biz-service
    MaxRule,     \* bound: rule ids
    Conds,       \* conditions of a rule
    Ops,         \* the operations users call
    Quota,       \* user_vip.h5_max_sub / api_max_sub
    MaxRetry,    \* const maxRetry of outbox-publisher
    BatchSize,   \* cfg.BatchSize
    MaxRequests, \* bound: requests to biz-service
    MaxFaults,   \* bound: failing calls
    MaxRestarts, \* bound: restarts of the publisher and of the Flink job
    MaxTrims     \* bound: messages that rule_bcast's retention removes

Rules == 1..MaxRule
AllOps == {"create", "subscribe", "update", "status", "delete", "unsubscribe", "email"}

ASSUME RuleSyncAssumption ==
    /\ {MaxRule, Quota, MaxRequests, MaxFaults, MaxRestarts, MaxTrims} \subseteq Nat
    /\ {MaxRetry, BatchSize} \subseteq Nat \ {0}
    /\ Ops \subseteq AllOps

VARIABLES
    db,       \* alert_rule: [live, st, ver, cond] per id
    outbox,   \* outbox_event: id -> row
    tx,       \* the open transaction of a session
    hook,     \* the unsubscribe webhook: [pc, todo]
    batch,    \* rows the publisher has read and not yet treated
    marking,  \* has it written the first of them to Kafka?
    bcast,    \* rule_bcast, one partition
    low,      \* messages of it that retention has removed
    pos,      \* messages of it the Flink job has applied
    flink,    \* the broadcast state: rule id -> [ver, cond]
    requests, faults, restarts, trims   \* what is left of the bounds

budget    == <<requests, faults, restarts, trims>>
publisher == <<batch, marking>>
matcher   == <<low, pos, flink>>
vars == <<db, outbox, tx, hook, publisher, bcast, matcher, budget>>

NoRule == [live |-> FALSE, st |-> 0, ver |-> 0, cond |-> "none"]
NoTx   == [op |-> "none"]
Unkeyed == -1             \* the event key of RuleService.delete, a time stamp
Live   == {r \in Rules : db[r].live}
Active == {r \in Rules : db[r].live /\ db[r].st = 1}
NextId(S) == Max(S \cup {0}) + 1

Init ==
    /\ db = [r \in Rules |-> NoRule]
    /\ outbox = <<>>
    /\ tx = [s \in Sessions |-> NoTx]
    /\ hook = [pc |-> "idle", todo |-> {}]
    /\ batch = <<>> /\ marking = FALSE
    /\ bcast = <<>> /\ low = 0 /\ pos = 0 /\ flink = <<>>
    /\ requests = MaxRequests /\ faults = MaxFaults
    /\ restarts = MaxRestarts /\ trims = MaxTrims

Fault == faults > 0 /\ faults' = faults - 1
-----------------------------------------------------------------------------
(* biz-service *)

QuotaOffByOne == Cardinality(Active) <= Quota     \* (mutant) without the one more

\* checkH5Quota / checkQuota: the user's active rules, and one more.
WithinQuota == Cardinality(Active) + 1 <= Quota

Insert == {"create", "subscribe"}

Inputs(op) == IF op \in Insert \cup {"update"} THEN Conds
              ELSE IF op = "status" THEN 0..1 ELSE {"none"}

\* The reads of a request, all from one snapshot: quota and ids, or the rule.
Begin(s, op, r) ==
    /\ tx[s] = NoTx
    /\ requests > 0 /\ requests' = requests - 1
    /\ IF op \in Insert THEN r = NextId(Live) /\ WithinQuota ELSE db[r].live
    /\ \E x \in Inputs(op) :
          tx' = [tx EXCEPT ![s] = [op |-> op, rule |-> r, cur |-> db[r], in |-> x,
                                id |-> NextId(DOMAIN outbox)]]
    /\ UNCHANGED <<db, outbox, hook, publisher, bcast, matcher, faults, restarts, trims>>

\* What the request writes into alert_rule; update and status bump the version.
NewRule(t) ==
    LET now == db[t.rule] IN
    CASE t.op \in Insert ->
            [live |-> TRUE, st |-> 1, ver |-> 1, cond |-> t.in]
      [] t.op = "update"      -> [now EXCEPT !.cond = t.in, !.ver = @ + 1]
      [] t.op = "status"      -> [now EXCEPT !.st = t.in, !.ver = @ + 1]
      [] t.op = "unsubscribe" -> [now EXCEPT !.st = 0, !.ver = @ + 1]
      [] t.op = "delete"      -> NoRule

PayloadVerOne(t) == IF t.op \in Insert THEN 1 ELSE t.cur.ver   \* (mutant) create as subscribe

\* RuleService.create leaves the version 0 of the request body in the payload,
\* every other change publishes the version it has read.
PayloadVer(t) ==
    CASE t.op = "create" -> 0
      [] t.op = "subscribe" -> 1
      [] OTHER -> t.cur.ver

\* The outbox row.  The payload of a delete names the rule and "DELETE",
\* and neither market, rule type nor version.
NewRow(t) ==
    LET isDelete == t.op \in {"delete", "unsubscribe"} IN
    [rule   |-> t.rule,
     key    |-> CASE t.op = "delete"      -> Unkeyed
                  [] t.op = "unsubscribe" -> t.cur.ver + 1
                  [] OTHER                -> PayloadVer(t),
     op     |-> IF isDelete THEN "DELETE" ELSE "UPSERT",
     ver    |-> IF isDelete THEN 0 ELSE PayloadVer(t),
     cond   |-> IF t.op \in Insert \cup {"update"} THEN t.in ELSE t.cur.cond,
     status |-> "PENDING", due |-> TRUE]

\* UNIQUE KEY uk_event_key (event_key): "rule:<id>:v<version>".
KeyTaken(r, k) == k # Unkeyed /\ \E i \in DOMAIN outbox :
                     outbox[i].rule = r /\ outbox[i].key = k

\* No primary or unique key of the inserted rows has been taken meanwhile.
KeysFree(t) ==
    /\ t.id \notin DOMAIN outbox
    /\ ~KeyTaken(t.rule, NewRow(t).key)
    /\ t.op \in Insert => ~db[t.rule].live

Commit(s) ==
    LET t == tx[s] IN
    /\ t # NoTx /\ KeysFree(t)
    /\ db' = [db EXCEPT ![t.rule] = NewRule(t)]
    /\ outbox' = [i \in DOMAIN outbox \cup {t.id} |->
                     IF i = t.id THEN NewRow(t) ELSE outbox[i]]
    /\ tx' = [tx EXCEPT ![s] = NoTx]
    /\ UNCHANGED <<hook, publisher, bcast, matcher, budget>>

\* A key conflict, or any other failure, leaves nothing behind.
Rollback(s) ==
    /\ tx[s] # NoTx
    /\ IF KeysFree(tx[s]) THEN Fault ELSE UNCHANGED faults
    /\ tx' = [tx EXCEPT ![s] = NoTx]
    /\ UNCHANGED <<db, outbox, hook, publisher, bcast, matcher, requests, restarts, trims>>
-----------------------------------------------------------------------------
(* notify: the mail provider's Unsubscribe event, three steps without a    *)
(* transaction.                                                            *)

HookSelect ==
    /\ "email" \in Ops /\ hook.pc = "idle" /\ Active # {}
    /\ hook' = [pc |-> "update", todo |-> {<<r, db[r].ver>> : r \in Active}]
    /\ UNCHANGED <<db, outbox, tx, publisher, bcast, matcher, budget>>

HookUpdate ==
    /\ hook.pc = "update"
    /\ \/ /\ db' = [r \in Rules |-> IF r \in Active THEN [db[r] EXCEPT !.st = 0] ELSE db[r]]
          /\ hook' = [hook EXCEPT !.pc = "publish"]
          /\ UNCHANGED faults
       \/ /\ Fault /\ hook' = [pc |-> "idle", todo |-> {}]
          /\ UNCHANGED db
    /\ UNCHANGED <<outbox, tx, publisher, bcast, matcher, requests, restarts, trims>>

\* One DELETE per rule; a failed write is only logged.
HookPublish(x) ==
    /\ hook.pc = "publish" /\ x \in hook.todo
    /\ \/ /\ bcast' = Append(bcast, [rule |-> x[1], op |-> "DELETE", ver |-> x[2] + 1,
                                     cond |-> db[x[1]].cond])
          /\ UNCHANGED faults
       \/ Fault /\ UNCHANGED bcast
    /\ hook' = [pc   |-> IF hook.todo = {x} THEN "idle" ELSE "publish",
                todo |-> hook.todo \ {x}]
    /\ UNCHANGED <<db, outbox, tx, publisher, matcher, requests, restarts, trims>>
-----------------------------------------------------------------------------
(* outbox-publisher *)

\* Pending: status PENDING and next_retry_at reached.
Due == {i \in DOMAIN outbox : outbox[i].status = "PENDING" /\ outbox[i].due}

\* ORDER BY id LIMIT: q is increasing and nothing due comes before its end.
IsFirst(q) ==
    /\ \A i, j \in DOMAIN q : i < j => q[i] < q[j]
    /\ \A i \in DOMAIN q, d \in Due : d < q[i] => d \in Range(q)

\* The first BatchSize rows.
Poll ==
    /\ batch = <<>> /\ Due # {}
    /\ \E q \in [1..Min({BatchSize, Cardinality(Due)}) -> Due] : IsFirst(q) /\ batch' = q
    /\ UNCHANGED <<db, outbox, tx, hook, marking, bcast, matcher, budget>>

\* publishRule: a payload without a known market is refused.
Publishable(row) == row.op = "UPSERT"

Write ==
    LET row == outbox[Head(batch)] IN
    bcast' = Append(bcast, [rule |-> row.rule, op |-> row.op, ver |-> row.ver,
                            cond |-> row.cond])

Publish ==
    /\ batch # <<>> /\ ~marking
    /\ Publishable(outbox[Head(batch)])
    /\ Write /\ marking' = TRUE
    /\ UNCHANGED <<db, outbox, tx, hook, batch, matcher, budget>>

FailedUnseen(i) ==        \* (mutant) a status that Pending does not select
    [outbox EXCEPT ![i].status = "RETRY"]

\* The failed row: FAILED for every MaxRetry-th id, else due again later.
Failed(i) ==
    IF i % MaxRetry = 0
    THEN [outbox EXCEPT ![i].status = "FAILED"]
    ELSE [outbox EXCEPT ![i].due = FALSE]

\* publishRule returned an error, perhaps after the write; the update of the
\* row may fail too, which is ignored.
PublishFails ==
    /\ batch # <<>> /\ ~marking
    /\ \/ /\ ~Publishable(outbox[Head(batch)])
          /\ outbox' = Failed(Head(batch))
          /\ UNCHANGED <<bcast, faults>>
       \/ /\ Publishable(outbox[Head(batch)])
          /\ outbox' = Failed(Head(batch))
          /\ Write \/ UNCHANGED bcast
          /\ Fault
       \/ /\ ~Publishable(outbox[Head(batch)])
          /\ Fault /\ UNCHANGED <<outbox, bcast>>
    /\ batch' = Tail(batch)
    /\ UNCHANGED <<db, tx, hook, marking, matcher, requests, restarts, trims>>

\* MarkPublished; its error is only logged, the row stays PENDING.
MarkPublished ==
    /\ marking
    /\ \/ /\ outbox' = [outbox EXCEPT ![Head(batch)].status = "PUBLISHED"]
          /\ UNCHANGED faults
       \/ Fault /\ UNCHANGED outbox
    /\ batch' = Tail(batch) /\ marking' = FALSE
    /\ UNCHANGED <<db, tx, hook, bcast, matcher, requests, restarts, trims>>

\* next_retry_at, 30 s later, has come.
RetryDue(i) ==
    /\ i \in DOMAIN outbox /\ outbox[i].status = "PENDING" /\ ~outbox[i].due
    /\ outbox' = [outbox EXCEPT ![i].due = TRUE]
    /\ UNCHANGED <<db, tx, hook, publisher, bcast, matcher, budget>>

\* CleanupBefore: after seven days, so no request or poll is still open.
Cleanup(i) ==
    /\ i \in DOMAIN outbox /\ outbox[i].status = "PUBLISHED"
    /\ batch = <<>> /\ \A s \in Sessions : tx[s] = NoTx
    /\ outbox' = Restrict(outbox, DOMAIN outbox \ {i})
    /\ UNCHANGED <<db, tx, hook, publisher, bcast, matcher, budget>>

PublisherRestart ==
    /\ restarts > 0 /\ restarts' = restarts - 1
    /\ batch # <<>>
    /\ batch' = <<>> /\ marking' = FALSE
    /\ UNCHANGED <<db, outbox, tx, hook, bcast, matcher, requests, faults, trims>>
-----------------------------------------------------------------------------
(* Flink *)

AnyVersion(m) == TRUE     \* (mutant) UPSERT without the version check

\* An UPSERT must be newer than the version in the broadcast state.
Newer(m) == m.rule \in DOMAIN flink => m.ver > flink[m.rule].ver

\* processBroadcastElement; a DELETE removes whatever version is there.
Apply ==
    /\ pos < Len(bcast)
    /\ pos' = pos + 1
    /\ LET m == bcast[pos + 1] IN
       flink' = IF m.op = "DELETE"
                THEN Restrict(flink, DOMAIN flink \ {m.rule})
                ELSE IF Newer(m)
                THEN [r \in DOMAIN flink \cup {m.rule} |->
                        IF r = m.rule THEN [ver |-> m.ver, cond |-> m.cond] ELSE flink[r]]
                ELSE flink
    /\ UNCHANGED <<db, outbox, tx, hook, publisher, bcast, low, budget>>

RestartFromZero ==        \* (mutant) offset 0, whatever retention has removed
    /\ restarts > 0 /\ restarts' = restarts - 1
    /\ pos # low
    /\ pos' = 0 /\ flink' = <<>>
    /\ UNCHANGED <<db, outbox, tx, hook, publisher, bcast, low, requests, faults, trims>>

\* Without a checkpoint: rule_bcast from its earliest message.
FlinkRestart ==
    /\ restarts > 0 /\ restarts' = restarts - 1
    /\ pos # low
    /\ pos' = low /\ flink' = <<>>
    /\ UNCHANGED <<db, outbox, tx, hook, publisher, bcast, low, requests, faults, trims>>

\* retention.ms of rule_bcast, three days: long after a message was applied.
Trim ==
    /\ trims > 0 /\ trims' = trims - 1
    /\ low < pos /\ low' = low + 1
    /\ UNCHANGED <<db, outbox, tx, hook, publisher, bcast, pos, flink, requests, faults, restarts>>
-----------------------------------------------------------------------------
Publisher == Poll \/ Publish \/ PublishFails \/ MarkPublished

Next ==
    \/ \E s \in Sessions, op \in Ops \ {"email"}, r \in Rules : Begin(s, op, r)
    \/ \E s \in Sessions : Commit(s) \/ Rollback(s)
    \/ HookSelect \/ HookUpdate \/ \E x \in hook.todo : HookPublish(x)
    \/ Publisher \/ PublisherRestart
    \/ \E i \in DOMAIN outbox : RetryDue(i) \/ Cleanup(i)
    \/ Apply \/ FlinkRestart \/ Trim

Spec == Init /\ [][Next]_vars

\* The hook's request is served, the publisher polls, time passes, Flink runs.
Fairness ==
    /\ WF_vars(HookUpdate)
    /\ WF_vars(\E x \in hook.todo : HookPublish(x))
    /\ WF_vars(Publisher)
    /\ \A i \in 1..MaxRequests : WF_vars(RetryDue(i))
    /\ WF_vars(Apply)

FairSpec == Spec /\ Fairness
-----------------------------------------------------------------------------
TypeOK ==
    /\ db \in [Rules -> [live : BOOLEAN, st : 0..1, ver : Nat, cond : Conds \cup {"none"}]]
    /\ DOMAIN outbox \subseteq 1..MaxRequests
    /\ \A i \in DOMAIN outbox : /\ outbox[i].rule \in Rules
                                /\ outbox[i].status \in {"PENDING", "PUBLISHED", "FAILED"}
    /\ DOMAIN flink \subseteq Rules
    /\ \A k \in DOMAIN batch : batch[k] \in DOMAIN outbox
    /\ marking => batch # <<>>
    /\ low <= pos /\ pos <= Len(bcast)

NoTxOpen == \A s \in Sessions : tx[s] = NoTx

\* The owner can change a rule again: the event key of the next change is
\* free.  It is the version just read, so it must never have been used.
NextChangePossible ==
    NoTxOpen => \A r \in Live : ~KeyTaken(r, db[r].ver)

\* No two requests at a time get past the quota (RuleService.checkH5Quota).
QuotaRespected == Cardinality(Active) <= Quota

\* rule_bcast no longer holds all that was written about r.
Trimmed(r) == \E i \in 1..low : bcast[i].rule = r

\* When all of a rule's changes are published and applied, and rule_bcast
\* still has them, the matcher has the rule as MySQL has it, whatever was
\* retried, repeated or reordered and however often the job restarted.
FlinkInStep ==
    \A r \in Live :
        /\ pos = Len(bcast) /\ ~Trimmed(r)
        /\ \A i \in DOMAIN outbox : outbox[i].rule = r => outbox[i].status = "PUBLISHED"
        => r \in DOMAIN flink /\ flink[r].cond = db[r].cond

\* The matcher never goes back to an older version of a rule it has.
VersionsMonotonic ==
    [][\A r \in DOMAIN flink \cap DOMAIN flink' : flink'[r].ver >= flink[r].ver]_flink

\* A committed change reaches the matcher, unless it was given up on, changed
\* again or removed from rule_bcast before a restart; publishing may fail and both programs may restart.
ChangeReachesFlink ==
    \A r \in Rules, c \in Conds :
        (db[r].live /\ db[r].cond = c)
            ~> \/ r \in DOMAIN flink /\ flink[r].cond = c
               \/ db[r].cond # c
               \/ \E i \in DOMAIN outbox : outbox[i].rule = r /\ outbox[i].status = "FAILED"
               \/ Trimmed(r)
=============================================================================
