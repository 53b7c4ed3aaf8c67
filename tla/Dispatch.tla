------------------------------ MODULE Dispatch ------------------------------
(***************************************************************************)
(* The channels of an alert in notify.  A worker (a goroutine that handles *)
(* alert_event or notify_retry) reads the user's plan, decides on the      *)
(* sends and does them one after the other; Redis counts what was sent per *)
(* day, for the quota of a channel and of a user.  All workers share the   *)
(* counters: Allow reads them before, Confirm adds to them after a send.   *)
(* Only the count of SMS is here: that of mail decides whether mail is     *)
(* counted on, and that of an IM channel is never read.                    *)
(***************************************************************************)
EXTENDS ChannelConfig, FiniteSets, Sequences

CONSTANTS
    Workers, Users,
    SmsDaily, SmsUserDaily,     \* Limits; 0 is no limit
    MaxAlerts, Days, MaxFaults  \* bounds

ASSUME DispatchAssumption ==
    /\ {SmsDaily, SmsUserDaily} \subseteq Nat
    /\ {MaxAlerts, MaxFaults} \subseteq Nat /\ Days \in Nat \ {0}
    /\ IsFiniteSet(Workers)
    /\ "all" \notin Users

Scopes == {"all"} \cup Users
Counted == Scopes \X (1..Days)          \* rl:sms:daily:{day}, rl:sms:user:{user}:{day}

VARIABLES
    pc, user, todo,     \* worker: where it is, whose alert, its sends
    eod, scope,         \* Confirm: day whose end it took for the end, its keys
    day,
    count, ttl,         \* Redis: counters, and the day at whose end they expire
    alerts,             \* alerts still to come
    begun, mails,       \* alerts whose plan was read, mails attempted
    sms,                \* sms[s][d]: accepted by the provider
    straddled           \* days with a Confirm that began the day before

worker == <<pc, user, todo, eod, scope>>
redis  == <<count, ttl>>
tally  == <<alerts, begun, mails, sms, straddled>>
vars   == <<settings, worker, day, redis, tally, faults>>

Init ==
    /\ ConfigInit
    /\ pc = [w \in Workers |-> "idle"]
    /\ user = [w \in Workers |-> "all"]
    /\ todo = [w \in Workers |-> <<>>]
    /\ eod = [w \in Workers |-> 1] /\ scope = [w \in Workers |-> {}]
    /\ day = 1
    /\ count = [k \in Counted |-> 0] /\ ttl = [k \in Counted |-> Days]
    /\ alerts = MaxAlerts /\ begun = 0 /\ mails = 0
    /\ sms = [s \in Scopes |-> [d \in 1..Days |-> 0]]
    /\ straddled = {}
    /\ faults = MaxFaults

Goto(w, l) == pc' = [pc EXCEPT ![w] = l]
-----------------------------------------------------------------------------
(* CircuitBreaker                                                          *)

Limit(s) == IF s = "all" THEN SmsDaily ELSE SmsUserDaily

OneMore(s) == Limit(s) > 0 => count[<<s, day>>] <= Limit(s)    \* (mutant)
Within(s) == Limit(s) > 0 => count[<<s, day>>] < Limit(s)

\* Allow: a key that cannot be read does not forbid.
AllowSms(u) == Within("all") /\ Within(u)
-----------------------------------------------------------------------------
(* Dispatch                                                                *)

\* What the tables and the event may say.  "im": prefers dd or feishu; bound:
\* to a webhook of its own; major: the rate of change is MajorPct or more.
Plans == [prefer : {"sms", "im", "email"}, allowSms : BOOLEAN, bound : BOOLEAN, major : BOOLEAN]

\* (mutant) no mail next to the IM message
ImAlone(p, smsOk) == IF p.prefer = "im" /\ p.bound THEN <<"im">> ELSE <<"mail">>

\* The sends of Dispatch, in their order.
Sends(p, smsOk) ==
    CASE p.prefer = "sms"   -> IF smsOk THEN <<"sms", "mail">> ELSE <<"mail">>
      [] p.prefer = "im"    -> IF p.bound THEN <<"im", "mail">> ELSE <<"mail">>
      [] p.prefer = "email" -> IF p.major /\ smsOk THEN <<"mail", "sms">> ELSE <<"mail">>

\* VipByID and EmailOfUser fail: the dispatch ends here.
GiveUp(w) ==
    /\ pc[w] = "idle" /\ alerts > 0 /\ Fault
    /\ alerts' = alerts - 1
    /\ UNCHANGED <<settings, worker, day, redis, begun, mails, sms, straddled>>

\* The reads, the webhook of a developer (whose outcome nothing waits for),
\* Allow, and the decision; a fault is a counter that is not read.
Begin(w, u) ==
    /\ pc[w] = "idle" /\ alerts > 0
    /\ alerts' = alerts - 1 /\ begun' = begun + 1
    /\ \E p \in Plans, smsRead \in BOOLEAN :
          /\ IF smsRead THEN UNCHANGED faults ELSE Fault
          /\ todo' = [todo EXCEPT ![w] = Sends(p, p.allowSms /\ (~smsRead \/ AllowSms(u)))]
    /\ user' = [user EXCEPT ![w] = u]
    /\ Goto(w, "send")
    /\ UNCHANGED <<settings, eod, scope, day, redis, mails, sms, straddled>>

Current(w) == Head(todo[w])

Finish(w) == /\ todo' = [todo EXCEPT ![w] = Tail(@)]
             /\ IF Len(todo[w]) > 1
                THEN Goto(w, "send") /\ UNCHANGED user
                ELSE Goto(w, "idle") /\ user' = [user EXCEPT ![w] = "all"]

\* send writes a log row after each of these, which has no reader here.
Sending(w, ch) == pc[w] = "send" /\ Current(w) = ch /\ UNCHANGED <<day, redis, alerts, begun, straddled>>

\* MailSender: the settings, then the SMTP dialogue, whatever its outcome.
SendMail(w) ==
    /\ Sending(w, "mail") /\ Ensure /\ mails' = mails + 1 /\ Finish(w)
    /\ UNCHANGED <<eod, scope, sms>>

\* The user's robot takes it or not.
SendIM(w) == Sending(w, "im") /\ Finish(w) /\ UNCHANGED <<settings, eod, scope, mails, sms, faults>>

Accepted(u) == sms' = [s \in Scopes |-> IF s \in {"all", u} THEN [sms[s] EXCEPT ![day] = @ + 1]
                                                            ELSE sms[s]]

\* The provider takes the SMS, or refuses it, or takes it and the answer is lost.
SendSms(w) ==
    /\ Sending(w, "sms")
    /\ \/ Accepted(user[w]) /\ Goto(w, "confirm") /\ UNCHANGED <<user, todo, faults>>
       \/ Finish(w) /\ UNCHANGED <<sms, faults>>
       \/ Fault /\ Accepted(user[w]) /\ Finish(w)
    /\ UNCHANGED <<settings, eod, scope, mails>>

\* Confirm: first the time until midnight,
Confirm(w) ==
    /\ pc[w] = "confirm" /\ Goto(w, "incr")
    /\ eod' = [eod EXCEPT ![w] = day]
    /\ scope' = [scope EXCEPT ![w] = {"all", user[w]}]
    /\ UNCHANGED <<settings, user, todo, day, redis, tally, faults>>

NextScope(w) == IF "all" \in scope[w] THEN "all" ELSE user[w]

\* ... then INCR of a key, whose error is dropped,
Incr(w) ==
    /\ pc[w] = "incr" /\ Goto(w, "expire")
    /\ \/ /\ count' = [count EXCEPT ![<<NextScope(w), day>>] = @ + 1]
          /\ UNCHANGED faults
       \/ Fault /\ UNCHANGED count
    /\ UNCHANGED <<settings, user, todo, eod, scope, day, ttl, tally>>

\* ... and EXPIRE of the key that is today's by now, in the time taken first.
Expire(w) ==
    /\ pc[w] = "expire"
    /\ LET key == <<NextScope(w), day>>
           rest == scope[w] \ {NextScope(w)}
       IN /\ ttl' = IF count[key] > 0 THEN [ttl EXCEPT ![key] = eod[w]] ELSE ttl
          /\ straddled' = IF eod[w] = day THEN straddled ELSE straddled \cup {day}
          /\ scope' = [scope EXCEPT ![w] = rest]
          /\ IF rest # {} THEN Goto(w, "incr") /\ UNCHANGED <<user, todo, eod>>
             ELSE Finish(w) /\ eod' = [eod EXCEPT ![w] = 1]
    /\ UNCHANGED <<settings, day, count, alerts, begun, mails, sms, faults>>
-----------------------------------------------------------------------------
Midnight == /\ day < Days /\ day' = day + 1
            /\ UNCHANGED <<settings, worker, redis, tally, faults>>

Evict(k) == /\ count[k] > 0 /\ ttl[k] < day
            /\ count' = [count EXCEPT ![k] = 0] /\ ttl' = [ttl EXCEPT ![k] = Days]
            /\ UNCHANGED <<settings, worker, day, tally, faults>>

\* The process of a worker ends; what it had begun is not counted here.
Crash(w) ==
    /\ pc[w] # "idle" /\ Fault
    /\ Goto(w, "idle") /\ todo' = [todo EXCEPT ![w] = <<>>]
    /\ user' = [user EXCEPT ![w] = "all"] /\ eod' = [eod EXCEPT ![w] = 1]
    /\ scope' = [scope EXCEPT ![w] = {}]
    /\ begun' = begun - (IF \E i \in DOMAIN todo[w] : todo[w][i] = "mail"
                              /\ (i > 1 \/ pc[w] = "send") THEN 1 ELSE 0)
    /\ UNCHANGED <<settings, day, redis, alerts, mails, sms, straddled>>

Settings == Administration /\ UNCHANGED <<worker, day, redis, tally>>

Work(w) == SendMail(w) \/ SendIM(w) \/ SendSms(w) \/ Confirm(w) \/ Incr(w) \/ Expire(w)

Next == \/ \E w \in Workers : GiveUp(w) \/ Work(w) \/ Crash(w) \/ \E u \in Users : Begin(w, u)
        \/ Midnight \/ Settings
        \/ \E k \in Counted : Evict(k)

Spec == Init /\ [][Next]_vars
-----------------------------------------------------------------------------
\* Quotas are read before and counted after a send: they are passed by no
\* more than the other workers, and one for each failure, unless a Confirm
\* runs over midnight and makes the new day's counter expire at once.
SmsQuotaNearlyHolds ==
    \A s \in Scopes, d \in (1..Days) \ straddled :
        Limit(s) > 0 =>
            sms[s][d] <= Limit(s) + Cardinality(Workers) - 1 + (MaxFaults - faults)

MailPending(w) == \E i \in DOMAIN todo[w] :
    todo[w][i] = "mail" /\ (i > 1 \/ pc[w] = "send")

\* Mail is the fallback of every channel: whatever the plan, the quota and
\* the providers say, an alert whose plan was read has its mail attempted.
MailIsAttempted == begun = mails + Cardinality({w \in Workers : MailPending(w)})

\* A change of the mail settings is used by the first mail after its answer,
\* unless the row is off or could not be loaded.
ChangeIsUsed ==
    [][mails' > mails =>
        cached' >= answered \/ ~row.enabled \/ loadFailed']_vars
=============================================================================
