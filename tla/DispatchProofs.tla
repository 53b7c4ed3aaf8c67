--------------------------- MODULE DispatchProofs ---------------------------
(***************************************************************************)
(* Theorems about Dispatch and the settings it composes, for any number of *)
(* workers, users, alerts, days, failures and any limits.                  *)
(***************************************************************************)
EXTENDS Dispatch, FiniteSetTheorems, TLAPS

-----------------------------------------------------------------------------
(* Types                                                                   *)

Todos  == {<<>>, <<"mail">>, <<"sms">>, <<"im", "mail">>, <<"sms", "mail">>, <<"mail", "sms">>}
WithSms == {<<"sms">>, <<"sms", "mail">>, <<"mail", "sms">>}
Labels == {"idle", "send", "confirm", "incr", "expire"}

Types ==
    /\ pc \in [Workers -> Labels] /\ user \in [Workers -> Scopes]
    /\ todo \in [Workers -> Todos] /\ scope \in [Workers -> SUBSET Scopes]
    /\ eod \in [Workers -> 1..Days] /\ day \in 1..Days
    /\ count \in [Counted -> Nat] /\ ttl \in [Counted -> 1..Days]
    /\ begun \in Int /\ mails \in Nat
    /\ sms \in [Scopes -> [1..Days -> Nat]] /\ straddled \subseteq 1..Days
    /\ faults \in 0..MaxFaults

\* What a worker at a label has in hand: an SMS while it confirms one, and
\* the scopes whose counter is still to be written.
WorkerOK(w) ==
    /\ pc[w] = "idle" <=> todo[w] = <<>>
    /\ pc[w] # "idle" => user[w] \in Users
    /\ pc[w] \notin {"idle", "send"} => todo[w] \in {<<"sms">>, <<"sms", "mail">>}
    /\ pc[w] \in {"incr", "expire"} => scope[w] \in {{"all", user[w]}, {user[w]}}

WorkersOK == \A w \in Workers : WorkerOK(w)

TypeInv == Types /\ WorkersOK

\* A step of w leaves the other workers alone.
Others(w) == \A q \in Workers \ {w} :
    /\ pc'[q] = pc[q] /\ user'[q] = user[q] /\ todo'[q] = todo[q] /\ scope'[q] = scope[q]

LEMMA TypeInit == Init => TypeInv
<1> SUFFICES ASSUME Init PROVE TypeInv
  OBVIOUS
<1>1. Days \in Nat /\ 1 \in 1..Days /\ Days \in 1..Days /\ MaxFaults \in 0..MaxFaults
  BY DispatchAssumption
<1>2. pc \in [Workers -> Labels] /\ user \in [Workers -> Scopes]
      /\ todo \in [Workers -> Todos] /\ scope \in [Workers -> SUBSET Scopes]
      /\ eod \in [Workers -> 1..Days] /\ day \in 1..Days
  BY <1>1 DEF Init, Labels, Scopes, Todos
<1>3. count \in [Counted -> Nat] /\ ttl \in [Counted -> 1..Days]
      /\ sms \in [Scopes -> [1..Days -> Nat]] /\ straddled \subseteq 1..Days
  BY <1>1 DEF Init
<1>4. WorkersOK
  BY DEF Init, WorkersOK, WorkerOK
<1>. QED
  BY <1>1, <1>2, <1>3, <1>4 DEF Init, TypeInv, Types

\* Finish goes on to the next send, or ends the dispatch.
LEMMA FinishMoves ==
  ASSUME TypeInv, NEW w \in Workers, pc[w] # "idle", Finish(w)
  PROVE  /\ todo' \in [Workers -> Todos] /\ pc' \in [Workers -> Labels]
         /\ user' \in [Workers -> Scopes]
         /\ \A q \in Workers \ {w} : pc'[q] = pc[q] /\ user'[q] = user[q] /\ todo'[q] = todo[q]
         /\ todo[w] \in {<<"mail">>, <<"sms">>} => pc'[w] = "idle" /\ todo'[w] = <<>>
         /\ todo[w] \in {<<"im", "mail">>, <<"sms", "mail">>} =>
               pc'[w] = "send" /\ todo'[w] = <<"mail">> /\ user'[w] = user[w]
         /\ todo[w] = <<"mail", "sms">> =>
               pc'[w] = "send" /\ todo'[w] = <<"sms">> /\ user'[w] = user[w]
<1>1. /\ todo' = [todo EXCEPT ![w] = Tail(todo[w])]
      /\ Len(todo[w]) > 1 => pc' = [pc EXCEPT ![w] = "send"] /\ user' = user
      /\ ~(Len(todo[w]) > 1) => pc' = [pc EXCEPT ![w] = "idle"] /\ user' = [user EXCEPT ![w] = "all"]
  BY DEF Finish, Goto
<1>2. /\ pc \in [Workers -> Labels] /\ user \in [Workers -> Scopes]
      /\ todo \in [Workers -> Todos] /\ todo[w] \in Todos \ {<<>>}
  BY DEF TypeInv, Types, WorkersOK, WorkerOK
<1>3. /\ Len(<<"mail">>) = 1 /\ Tail(<<"mail">>) = <<>>
      /\ Len(<<"sms">>) = 1 /\ Tail(<<"sms">>) = <<>>
      /\ Len(<<"im", "mail">>) = 2 /\ Tail(<<"im", "mail">>) = <<"mail">>
      /\ Len(<<"sms", "mail">>) = 2 /\ Tail(<<"sms", "mail">>) = <<"mail">>
      /\ Len(<<"mail", "sms">>) = 2 /\ Tail(<<"mail", "sms">>) = <<"sms">>
  OBVIOUS
<1>4. todo'[w] = Tail(todo[w])
  BY <1>1, <1>2
<1>5. CASE todo[w] \in {<<"mail">>, <<"sms">>}
  <2>0. Tail(todo[w]) = <<>> /\ Len(todo[w]) = 1
    BY <1>3, <1>5, Zenon
  <2>1. Tail(todo[w]) = <<>> /\ ~(Len(todo[w]) > 1)
    BY <2>0
  <2>2. \A x, y \in {"mail", "sms", "im"} : <<x, y>> # todo[w]
    BY <1>5
  <2>. QED
    BY <1>1, <1>2, <1>5, <2>1, <2>2 DEF Todos, Labels, Scopes
<1>6. CASE todo[w] \in {<<"im", "mail">>, <<"sms", "mail">>, <<"mail", "sms">>}
  <2>0. /\ Len(todo[w]) = 2
        /\ todo[w] \in {<<"im", "mail">>, <<"sms", "mail">>} => Tail(todo[w]) = <<"mail">>
        /\ todo[w] = <<"mail", "sms">> => Tail(todo[w]) = <<"sms">>
    BY <1>3, <1>6, Zenon
  <2>1. Len(todo[w]) > 1
    BY <2>0
  <2>2. \A x \in {"mail", "sms"} : <<x>> # todo[w]
    BY <1>6
  <2>3. Tail(todo[w]) \in Todos
    BY <1>6, <2>0 DEF Todos
  <2>. QED
    BY <1>1, <1>2, <1>6, <2>0, <2>1, <2>2, <2>3 DEF Labels
<1>. QED
  BY <1>2, <1>5, <1>6 DEF Todos

LEMMA OthersKeep ==
  ASSUME TypeInv, NEW w \in Workers, Others(w), WorkerOK(w)'
  PROVE  WorkersOK'
BY DEF TypeInv, WorkersOK, WorkerOK, Others

\* What is left to send, seen from its head.
LEMMA CurrentSend ==
  ASSUME TypeInv, NEW w \in Workers, NEW ch, Sending(w, ch)
  PROVE  /\ pc[w] = "send" /\ user[w] \in Users
         /\ ch = "mail" => todo[w] \in {<<"mail">>, <<"mail", "sms">>}
         /\ ch = "im"   => todo[w] = <<"im", "mail">>
         /\ ch = "sms"  => todo[w] \in {<<"sms">>, <<"sms", "mail">>}
<1>1. pc[w] = "send" /\ Head(todo[w]) = ch
  BY DEF Sending, Current
<1>2. user[w] \in Users /\ todo[w] \in Todos \ {<<>>}
  BY <1>1 DEF TypeInv, Types, WorkersOK, WorkerOK
<1>3. /\ Head(<<"mail">>) = "mail" /\ Head(<<"mail", "sms">>) = "mail"
      /\ Head(<<"im", "mail">>) = "im"
      /\ Head(<<"sms">>) = "sms" /\ Head(<<"sms", "mail">>) = "sms"
  OBVIOUS
<1>4. "mail" # "im" /\ "mail" # "sms" /\ "im" # "sms"
  OBVIOUS
<1>. QED
  BY <1>1, <1>2, <1>3, <1>4, Zenon DEF Todos

LEMMA BeginMoves ==
  ASSUME TypeInv, NEW w \in Workers, NEW u \in Users, Begin(w, u)
  PROVE  /\ TypeInv' /\ Others(w)
         /\ pc[w] = "idle" /\ todo[w] = <<>> /\ pc'[w] = "send" /\ user'[w] = u
         /\ todo'[w] \in Todos \ {<<>>, <<"sms">>}
         /\ todo'[w] \in WithSms => AllowSms(u) \/ faults' = faults - 1
         /\ faults' \in {faults, faults - 1}
         /\ UNCHANGED <<day, count, ttl, mails, sms, straddled>> /\ begun' = begun + 1
<1>1. /\ pc[w] = "idle" /\ begun' = begun + 1 /\ user' = [user EXCEPT ![w] = u]
      /\ pc' = [pc EXCEPT ![w] = "send"]
      /\ UNCHANGED <<eod, scope, day, count, ttl, mails, sms, straddled>>
  BY DEF Begin, Goto, redis
<1>2. PICK p \in Plans, smsRead \in BOOLEAN :
         /\ IF smsRead THEN UNCHANGED faults ELSE Fault
         /\ todo' = [todo EXCEPT ![w] = Sends(p, p.allowSms /\ (~smsRead \/ AllowSms(u)))]
  BY DEF Begin
<1>. DEFINE ok == p.allowSms /\ (~smsRead \/ AllowSms(u))
            new == Sends(p, ok)
<1>3. todo' = [todo EXCEPT ![w] = new]
  BY <1>2
<1>4. p.prefer \in {"sms", "im", "email"}
  BY DEF Plans
<1>5. \/ new \in {<<"sms", "mail">>, <<"mail", "sms">>} /\ ok
      \/ new \in {<<"mail">>, <<"im", "mail">>}
  BY <1>4, Zenon DEF Sends
<1>6. new \in Todos \ {<<>>, <<"sms">>} /\ (new \in WithSms => ok)
  <2>1. \A x \in {<<"sms", "mail">>, <<"mail", "sms">>, <<"mail">>, <<"im", "mail">>} :
           x \in Todos \ {<<>>, <<"sms">>}
    BY DEF Todos
  <2>2. \A x \in {<<"mail">>, <<"im", "mail">>} : x \notin WithSms
    BY DEF WithSms
  <2>. QED
    BY <1>5, <2>1, <2>2, Zenon
<1>7. faults' \in {faults, faults - 1} /\ faults' \in 0..MaxFaults
      /\ (new \in WithSms => AllowSms(u) \/ faults' = faults - 1)
  <2>1. faults \in 0..MaxFaults /\ MaxFaults \in Nat
    BY DispatchAssumption DEF TypeInv, Types
  <2>2. CASE smsRead
    BY <1>2, <1>6, <2>1, <2>2
  <2>3. CASE ~smsRead
    BY <1>2, <2>1, <2>3 DEF Fault
  <2>. QED
    BY <2>2, <2>3
<1>. HIDE DEF new
<1>8. /\ pc \in [Workers -> Labels] /\ user \in [Workers -> Scopes] /\ todo \in [Workers -> Todos]
      /\ u \in Scopes /\ "send" \in Labels
  BY DEF TypeInv, Types, Scopes, Labels
<1>9. /\ todo'[w] = new /\ user'[w] = u /\ pc'[w] = "send" /\ Others(w)
      /\ pc' \in [Workers -> Labels] /\ user' \in [Workers -> Scopes]
      /\ todo' \in [Workers -> Todos]
  BY <1>1, <1>3, <1>6, <1>8 DEF Others
<1>10. WorkerOK(w)'
  BY <1>6, <1>9 DEF WorkerOK
<1>11. Types'
  <2>1. begun' \in Int
    BY <1>1 DEF TypeInv, Types
  <2>2. /\ scope' \in [Workers -> SUBSET Scopes] /\ eod' \in [Workers -> 1..Days]
        /\ day' \in 1..Days /\ count' \in [Counted -> Nat] /\ ttl' \in [Counted -> 1..Days]
        /\ mails' \in Nat /\ sms' \in [Scopes -> [1..Days -> Nat]]
        /\ straddled' \subseteq 1..Days
    BY <1>1 DEF TypeInv, Types
  <2>. QED
    BY <1>7, <1>9, <2>1, <2>2 DEF Types
<1>12. todo[w] = <<>>
  BY <1>1 DEF TypeInv, WorkersOK, WorkerOK
<1>. QED
  BY <1>1, <1>6, <1>7, <1>9, <1>10, <1>11, <1>12, OthersKeep DEF TypeInv

LEMMA MailMoves ==
  ASSUME TypeInv, NEW w \in Workers, SendMail(w)
  PROVE  /\ TypeInv' /\ Others(w)
         /\ pc[w] = "send" /\ todo[w] \in {<<"mail">>, <<"mail", "sms">>}
         /\ todo[w] = <<"mail">> => pc'[w] = "idle" /\ todo'[w] = <<>>
         /\ todo[w] = <<"mail", "sms">> =>
               pc'[w] = "send" /\ todo'[w] = <<"sms">> /\ user'[w] = user[w]
         /\ faults' \in {faults, faults - 1}
         /\ UNCHANGED <<day, count, ttl, begun, sms, straddled>> /\ mails' = mails + 1
<1>1. /\ Sending(w, "mail") /\ Ensure /\ mails' = mails + 1 /\ Finish(w)
      /\ UNCHANGED <<eod, scope, sms, day, count, ttl, begun, straddled>>
  BY DEF SendMail, Sending, redis
<1>2. pc[w] = "send" /\ user[w] \in Users /\ todo[w] \in {<<"mail">>, <<"mail", "sms">>}
  BY <1>1, CurrentSend
<1>3. /\ todo' \in [Workers -> Todos] /\ pc' \in [Workers -> Labels]
      /\ user' \in [Workers -> Scopes]
      /\ \A q \in Workers \ {w} : pc'[q] = pc[q] /\ user'[q] = user[q] /\ todo'[q] = todo[q]
      /\ todo[w] = <<"mail">> => pc'[w] = "idle" /\ todo'[w] = <<>>
      /\ todo[w] = <<"mail", "sms">> =>
            pc'[w] = "send" /\ todo'[w] = <<"sms">> /\ user'[w] = user[w]
  <2>1. pc[w] # "idle"
    BY <1>2
  <2>. QED
    BY <1>1, <2>1, FinishMoves
<1>4. Others(w)
  BY <1>1, <1>3 DEF Others
<1>5. WorkerOK(w)'
  <2>1. CASE todo[w] = <<"mail">>
    BY <1>3, <2>1 DEF WorkerOK
  <2>2. CASE todo[w] = <<"mail", "sms">>
    <3>1. pc'[w] = "send" /\ todo'[w] = <<"sms">> /\ user'[w] \in Users
      BY <1>2, <1>3, <2>2, Zenon
    <3>. QED
      BY <3>1 DEF WorkerOK
  <2>. QED
    BY <1>2, <2>1, <2>2
<1>6. faults' \in {faults, faults - 1} /\ faults' \in 0..MaxFaults
  <2>1. faults \in 0..MaxFaults /\ MaxFaults \in Nat
    BY DispatchAssumption DEF TypeInv, Types
  <2>2. faults' = faults \/ (faults > 0 /\ faults' = faults - 1)
    BY <1>1 DEF Ensure, Fault
  <2>. QED
    BY <2>1, <2>2
<1>7. Types'
  <2>1. mails' \in Nat
    BY <1>1 DEF TypeInv, Types
  <2>. QED
    BY <1>1, <1>3, <1>6, <2>1 DEF TypeInv, Types
<1>. QED
  BY <1>1, <1>2, <1>3, <1>4, <1>5, <1>6, <1>7, OthersKeep DEF TypeInv

LEMMA ImMoves ==
  ASSUME TypeInv, NEW w \in Workers, SendIM(w)
  PROVE  /\ TypeInv' /\ Others(w)
         /\ pc[w] = "send" /\ todo[w] = <<"im", "mail">>
         /\ pc'[w] = "send" /\ todo'[w] = <<"mail">>
         /\ UNCHANGED <<day, count, ttl, begun, mails, sms, straddled, faults>>
<1>1. /\ Sending(w, "im") /\ Finish(w)
      /\ UNCHANGED <<eod, scope, mails, sms, faults, day, count, ttl, begun, straddled>>
  BY DEF SendIM, Sending, redis
<1>2. pc[w] = "send" /\ user[w] \in Users /\ todo[w] = <<"im", "mail">>
  BY <1>1, CurrentSend
<1>3. /\ todo' \in [Workers -> Todos] /\ pc' \in [Workers -> Labels]
      /\ user' \in [Workers -> Scopes]
      /\ \A q \in Workers \ {w} : pc'[q] = pc[q] /\ user'[q] = user[q] /\ todo'[q] = todo[q]
      /\ pc'[w] = "send" /\ todo'[w] = <<"mail">> /\ user'[w] = user[w]
  <2>1. pc[w] # "idle" /\ todo[w] \in {<<"im", "mail">>, <<"sms", "mail">>}
    BY <1>2
  <2>. QED
    BY <1>1, <2>1, FinishMoves
<1>4. Others(w)
  BY <1>1, <1>3 DEF Others
<1>5. WorkerOK(w)'
  BY <1>1, <1>2, <1>3 DEF WorkerOK
<1>6. Types'
  BY <1>1, <1>3 DEF TypeInv, Types
<1>. QED
  BY <1>1, <1>2, <1>3, <1>4, <1>5, <1>6, OthersKeep DEF TypeInv

\* One SMS more for the user and for all.
LEMMA AcceptedType ==
  ASSUME TypeInv, NEW u \in Users, Accepted(u)
  PROVE  /\ sms' \in [Scopes -> [1..Days -> Nat]]
         /\ \A s \in Scopes, d \in 1..Days :
               sms'[s][d] = IF d = day /\ s \in {"all", u} THEN sms[s][d] + 1 ELSE sms[s][d]
<1>1. sms \in [Scopes -> [1..Days -> Nat]] /\ day \in 1..Days
  BY DEF TypeInv, Types
<1>2. sms' = [s \in Scopes |-> IF s \in {"all", u} THEN [sms[s] EXCEPT ![day] = sms[s][day] + 1]
                                                  ELSE sms[s]]
  BY DEF Accepted
<1>3. ASSUME NEW s \in Scopes
      PROVE  /\ sms[s] \in [1..Days -> Nat]
             /\ [sms[s] EXCEPT ![day] = sms[s][day] + 1] \in [1..Days -> Nat]
  <2>1. sms[s] \in [1..Days -> Nat]
    BY <1>1
  <2>2. sms[s][day] + 1 \in Nat
    BY <1>1, <2>1
  <2>. QED
    BY <1>1, <2>1, <2>2
<1>. QED
  BY <1>1, <1>2, <1>3

LEMMA SmsMoves ==
  ASSUME TypeInv, NEW w \in Workers, SendSms(w)
  PROVE  /\ TypeInv' /\ Others(w)
         /\ pc[w] = "send" /\ user[w] \in Users /\ todo[w] \in {<<"sms">>, <<"sms", "mail">>}
         /\ \/ pc'[w] = "confirm" /\ todo'[w] = todo[w] /\ user'[w] = user[w]
            \/ pc'[w] = "idle" /\ todo'[w] = <<>> /\ todo[w] = <<"sms">>
            \/ pc'[w] = "send" /\ todo'[w] = <<"mail">> /\ todo[w] = <<"sms", "mail">>
         /\ \/ Accepted(user[w]) /\ pc'[w] = "confirm" /\ UNCHANGED faults
            \/ Accepted(user[w]) /\ pc'[w] # "confirm" /\ faults' = faults - 1
            \/ sms' = sms /\ pc'[w] # "confirm" /\ UNCHANGED faults
         /\ UNCHANGED <<day, count, ttl, begun, mails, straddled>>
<1>1. /\ Sending(w, "sms") /\ UNCHANGED <<eod, scope, mails, day, count, ttl, begun, straddled>>
      /\ \/ Accepted(user[w]) /\ Goto(w, "confirm") /\ UNCHANGED <<user, todo, faults>>
         \/ Finish(w) /\ UNCHANGED <<sms, faults>>
         \/ Fault /\ Accepted(user[w]) /\ Finish(w)
  BY DEF SendSms, Sending, redis
<1>2. /\ pc[w] = "send" /\ user[w] \in Users
      /\ todo[w] \in {<<"sms">>, <<"sms", "mail">>}
  BY <1>1, CurrentSend
<1>3. /\ pc \in [Workers -> Labels] /\ user \in [Workers -> Scopes] /\ todo \in [Workers -> Todos]
      /\ sms \in [Scopes -> [1..Days -> Nat]] /\ faults \in 0..MaxFaults /\ MaxFaults \in Nat
      /\ "confirm" \in Labels
  BY DispatchAssumption DEF TypeInv, Types, Labels
<1>4. sms' \in [Scopes -> [1..Days -> Nat]]
  BY <1>1, <1>2, <1>3, AcceptedType
<1>5. faults' \in 0..MaxFaults
  BY <1>1, <1>3 DEF Fault
<1>6. CASE Accepted(user[w]) /\ Goto(w, "confirm") /\ UNCHANGED <<user, todo, faults>>
  <2>1. pc' = [pc EXCEPT ![w] = "confirm"] /\ UNCHANGED <<user, todo, faults>>
    BY <1>6 DEF Goto
  <2>2. /\ pc' \in [Workers -> Labels] /\ user' \in [Workers -> Scopes]
        /\ todo' \in [Workers -> Todos] /\ pc'[w] = "confirm"
    BY <1>3, <2>1
  <2>3. Others(w)
    BY <1>1, <1>3, <2>1 DEF Others
  <2>4. WorkerOK(w)'
    BY <1>2, <2>1, <2>2 DEF WorkerOK
  <2>5. Types'
    BY <1>1, <1>4, <1>5, <2>2 DEF TypeInv, Types
  <2>. QED
    BY <1>1, <1>2, <1>6, <2>1, <2>2, <2>3, <2>4, <2>5, OthersKeep DEF TypeInv
<1>7. CASE Finish(w) /\ \/ UNCHANGED <<sms, faults>>
                        \/ Fault /\ Accepted(user[w])
  <2>1. pc[w] # "idle"
    BY <1>2
  <2>2. /\ todo' \in [Workers -> Todos] /\ pc' \in [Workers -> Labels]
        /\ user' \in [Workers -> Scopes]
        /\ \A q \in Workers \ {w} : pc'[q] = pc[q] /\ user'[q] = user[q] /\ todo'[q] = todo[q]
        /\ todo[w] = <<"sms">> => pc'[w] = "idle" /\ todo'[w] = <<>>
        /\ todo[w] = <<"sms", "mail">> =>
              pc'[w] = "send" /\ todo'[w] = <<"mail">> /\ user'[w] = user[w]
    BY <1>7, <2>1, FinishMoves
  <2>3. Others(w)
    BY <1>1, <2>2 DEF Others
  <2>4. WorkerOK(w)'
    BY <1>2, <2>2 DEF WorkerOK
  <2>5. Types'
    BY <1>1, <1>4, <1>5, <2>2 DEF TypeInv, Types
  <2>6. \/ pc'[w] = "idle" /\ todo'[w] = <<>> /\ todo[w] = <<"sms">>
        \/ pc'[w] = "send" /\ todo'[w] = <<"mail">> /\ todo[w] = <<"sms", "mail">>
    BY <1>2, <2>2
  <2>7. pc'[w] # "confirm"
    BY <2>6
  <2>8. \/ Accepted(user[w]) /\ faults' = faults - 1
        \/ sms' = sms /\ UNCHANGED faults
    BY <1>7 DEF Fault
  <2>. QED
    BY <1>1, <1>2, <2>3, <2>4, <2>5, <2>6, <2>7, <2>8, OthersKeep DEF TypeInv
<1>. QED
  BY <1>1, <1>6, <1>7

\* Confirm and its two halves for each scope.
LEMMA ConfirmMoves ==
  ASSUME TypeInv, NEW w \in Workers, Confirm(w)
  PROVE  /\ TypeInv' /\ Others(w)
         /\ pc[w] = "confirm" /\ pc'[w] = "incr" /\ todo' = todo /\ user' = user
         /\ scope'[w] = {"all", user[w]}
         /\ UNCHANGED <<day, count, ttl, begun, mails, sms, straddled, faults>>
<1>1. /\ pc[w] = "confirm" /\ pc' = [pc EXCEPT ![w] = "incr"]
      /\ eod' = [eod EXCEPT ![w] = day] /\ scope' = [scope EXCEPT ![w] = {"all", user[w]}]
      /\ UNCHANGED <<user, todo, day, count, ttl, begun, mails, sms, straddled, faults>>
  BY DEF Confirm, Goto, redis, tally
<1>2. /\ user[w] \in Users /\ todo[w] \in {<<"sms">>, <<"sms", "mail">>}
      /\ pc \in [Workers -> Labels] /\ scope \in [Workers -> SUBSET Scopes]
      /\ eod \in [Workers -> 1..Days] /\ day \in 1..Days
      /\ {"all", user[w]} \in SUBSET Scopes /\ "incr" \in Labels
  BY <1>1 DEF TypeInv, Types, WorkersOK, WorkerOK, Scopes, Labels
<1>3. pc'[w] = "incr" /\ scope'[w] = {"all", user[w]} /\ Others(w)
  BY <1>1, <1>2 DEF Others
<1>4. WorkerOK(w)'
  <2>0. <<"sms">> # <<>> /\ <<"sms", "mail">> # <<>>
    OBVIOUS
  <2>1. todo'[w] \in {<<"sms">>, <<"sms", "mail">>} /\ todo'[w] # <<>> /\ user'[w] \in Users
    BY <1>1, <1>2, <2>0, Zenon
  <2>2. scope'[w] = {"all", user'[w]} /\ pc'[w] = "incr"
    BY <1>1, <1>3
  <2>. QED
    BY <2>1, <2>2 DEF WorkerOK
<1>5. /\ pc' \in [Workers -> Labels] /\ scope' \in [Workers -> SUBSET Scopes]
      /\ eod' \in [Workers -> 1..Days]
  BY <1>1, <1>2
<1>6. Types'
  BY <1>1, <1>5 DEF TypeInv, Types
<1>. QED
  BY <1>1, <1>3, <1>4, <1>6, OthersKeep DEF TypeInv

LEMMA NextScopeType ==
  ASSUME TypeInv, NEW w \in Workers, pc[w] \in {"incr", "expire"}
  PROVE  /\ user[w] \in Users /\ "all" # user[w] /\ todo[w] \in {<<"sms">>, <<"sms", "mail">>}
         /\ NextScope(w) \in scope[w] /\ NextScope(w) \in Scopes
         /\ <<NextScope(w), day>> \in Counted
         /\ scope[w] \ {NextScope(w)} \in {{}, {user[w]}}
<1>1. /\ user[w] \in Users /\ todo[w] \in {<<"sms">>, <<"sms", "mail">>}
      /\ scope[w] \in {{"all", user[w]}, {user[w]}} /\ day \in 1..Days
  BY DEF TypeInv, Types, WorkersOK, WorkerOK
<1>2. "all" # user[w]
  BY <1>1, DispatchAssumption
<1>. QED
  BY <1>1, <1>2 DEF NextScope, Scopes, Counted

LEMMA IncrMoves ==
  ASSUME TypeInv, NEW w \in Workers, Incr(w)
  PROVE  /\ TypeInv' /\ Others(w)
         /\ pc[w] = "incr" /\ pc'[w] = "expire" /\ todo' = todo /\ user' = user /\ scope' = scope
         /\ \/ /\ count' = [count EXCEPT ![<<NextScope(w), day>>] = @ + 1]
               /\ UNCHANGED faults
            \/ faults' = faults - 1 /\ UNCHANGED count
         /\ UNCHANGED <<day, ttl, begun, mails, sms, straddled>>
<1>1. /\ pc[w] = "incr" /\ pc' = [pc EXCEPT ![w] = "expire"]
      /\ \/ /\ count' = [count EXCEPT ![<<NextScope(w), day>>] = @ + 1]
            /\ UNCHANGED faults
         \/ Fault /\ UNCHANGED count
      /\ UNCHANGED <<user, todo, eod, scope, day, ttl, begun, mails, sms, straddled>>
  BY DEF Incr, Goto, tally
<1>2. /\ user[w] \in Users /\ todo[w] \in {<<"sms">>, <<"sms", "mail">>}
      /\ scope[w] \in {{"all", user[w]}, {user[w]}}
      /\ pc \in [Workers -> Labels] /\ "expire" \in Labels
  BY <1>1 DEF TypeInv, Types, WorkersOK, WorkerOK, Labels
<1>3. pc' \in [Workers -> Labels] /\ pc'[w] = "expire" /\ Others(w)
  BY <1>1, <1>2 DEF Others
<1>4. WorkerOK(w)'
  <2>1. todo'[w] \in {<<"sms">>, <<"sms", "mail">>} /\ todo'[w] # <<>> /\ user'[w] \in Users
    BY <1>1, <1>2
  <2>2. scope'[w] \in {{"all", user'[w]}, {user'[w]}} /\ pc'[w] = "expire"
    BY <1>1, <1>2, <1>3
  <2>. QED
    BY <2>1, <2>2 DEF WorkerOK
<1>5. faults' \in 0..MaxFaults
  BY <1>1, DispatchAssumption DEF TypeInv, Types, Fault
<1>6. count' \in [Counted -> Nat]
  <2>1. count \in [Counted -> Nat] /\ <<NextScope(w), day>> \in Counted
    BY <1>1, NextScopeType DEF TypeInv, Types
  <2>. HIDE DEF NextScope, Counted
  <2>. QED
    BY <1>1, <2>1
<1>7. Types'
  BY <1>1, <1>3, <1>5, <1>6 DEF TypeInv, Types
<1>. QED
  BY <1>1, <1>3, <1>4, <1>7, OthersKeep DEF TypeInv, Fault

LEMMA ExpireMoves ==
  ASSUME TypeInv, NEW w \in Workers, Expire(w)
  PROVE  /\ TypeInv' /\ Others(w)
         /\ pc[w] = "expire" /\ scope'[w] = scope[w] \ {NextScope(w)}
         /\ \/ /\ scope'[w] = {user[w]} /\ pc'[w] = "incr"
               /\ todo'[w] = todo[w] /\ user'[w] = user[w]
            \/ /\ scope'[w] = {}
               /\ \/ pc'[w] = "idle" /\ todo'[w] = <<>> /\ todo[w] = <<"sms">>
                  \/ /\ pc'[w] = "send" /\ todo'[w] = <<"mail">> /\ user'[w] = user[w]
                     /\ todo[w] = <<"sms", "mail">>
         /\ \/ ttl' = [ttl EXCEPT ![<<NextScope(w), day>>] = eod[w]]
            \/ ttl' = ttl
         /\ straddled' = IF eod[w] = day THEN straddled ELSE straddled \cup {day}
         /\ UNCHANGED <<day, count, begun, mails, sms, faults>>
<1>. DEFINE rest == scope[w] \ {NextScope(w)}
<1>1. /\ pc[w] = "expire" /\ scope' = [scope EXCEPT ![w] = rest]
      /\ \/ ttl' = [ttl EXCEPT ![<<NextScope(w), day>>] = eod[w]]
         \/ ttl' = ttl
      /\ straddled' = IF eod[w] = day THEN straddled ELSE straddled \cup {day}
      /\ UNCHANGED <<day, count, begun, mails, sms, faults>>
  BY DEF Expire
<1>2. \/ rest # {} /\ pc' = [pc EXCEPT ![w] = "incr"] /\ UNCHANGED <<user, todo, eod>>
      \/ rest = {} /\ Finish(w) /\ eod' = [eod EXCEPT ![w] = 1]
  BY DEF Expire, Goto
<1>3. /\ user[w] \in Users /\ todo[w] \in {<<"sms">>, <<"sms", "mail">>}
      /\ <<NextScope(w), day>> \in Counted /\ rest \in {{}, {user[w]}}
  BY <1>1, NextScopeType
<1>. HIDE DEF rest
<1>4. /\ pc \in [Workers -> Labels] /\ user \in [Workers -> Scopes] /\ todo \in [Workers -> Todos]
      /\ scope \in [Workers -> SUBSET Scopes] /\ eod \in [Workers -> 1..Days]
      /\ day \in 1..Days /\ ttl \in [Counted -> 1..Days] /\ straddled \subseteq 1..Days
      /\ "incr" \in Labels
  BY DEF TypeInv, Types, Labels
<1>0. 1 \in 1..Days /\ rest \in SUBSET Scopes
  <2>1. user[w] \in Scopes
    BY <1>3 DEF Scopes
  <2>. QED
    BY <1>3, <2>1, DispatchAssumption
<1>5. /\ scope' \in [Workers -> SUBSET Scopes] /\ scope'[w] = rest
      /\ \A q \in Workers \ {w} : scope'[q] = scope[q]
  BY <1>0, <1>1, <1>4
<1>6. straddled' \subseteq 1..Days
  BY <1>1, <1>4
<1>7. ttl' \in [Counted -> 1..Days]
  <2>1. eod[w] \in 1..Days
    BY <1>4
  <2>. QED
    BY <1>1, <1>3, <1>4, <2>1
<1>8. CASE rest # {} /\ pc' = [pc EXCEPT ![w] = "incr"] /\ UNCHANGED <<user, todo, eod>>
  <2>1. pc' \in [Workers -> Labels] /\ pc'[w] = "incr" /\ Others(w)
    BY <1>4, <1>5, <1>8 DEF Others
  <2>2. rest = {user[w]}
    BY <1>3, <1>8
  <2>3. WorkerOK(w)'
    BY <1>3, <1>5, <1>8, <2>1, <2>2 DEF WorkerOK
  <2>4. Types'
    BY <1>1, <1>5, <1>6, <1>7, <1>8, <2>1 DEF TypeInv, Types
  <2>. QED
    BY <1>1, <1>5, <1>8, <2>1, <2>2, <2>3, <2>4, OthersKeep DEF TypeInv, rest
<1>9. CASE rest = {} /\ Finish(w) /\ eod' = [eod EXCEPT ![w] = 1]
  <2>1. pc[w] # "idle"
    BY <1>1
  <2>2. /\ todo' \in [Workers -> Todos] /\ pc' \in [Workers -> Labels]
        /\ user' \in [Workers -> Scopes]
        /\ \A q \in Workers \ {w} : pc'[q] = pc[q] /\ user'[q] = user[q] /\ todo'[q] = todo[q]
        /\ todo[w] = <<"sms">> => pc'[w] = "idle" /\ todo'[w] = <<>>
        /\ todo[w] = <<"sms", "mail">> =>
              pc'[w] = "send" /\ todo'[w] = <<"mail">> /\ user'[w] = user[w]
    BY <1>9, <2>1, FinishMoves
  <2>3. Others(w)
    BY <1>5, <2>2 DEF Others
  <2>4. WorkerOK(w)'
    BY <1>3, <2>2 DEF WorkerOK
  <2>5. eod' \in [Workers -> 1..Days]
    BY <1>0, <1>4, <1>9
  <2>6. Types'
    BY <1>1, <1>5, <1>6, <1>7, <2>2, <2>5 DEF TypeInv, Types
  <2>. QED
    BY <1>1, <1>3, <1>5, <1>9, <2>2, <2>3, <2>4, <2>6, OthersKeep DEF TypeInv, rest
<1>. QED
  BY <1>2, <1>8, <1>9

LEMMA CrashMoves ==
  ASSUME TypeInv, NEW w \in Workers, Crash(w)
  PROVE  /\ TypeInv' /\ Others(w)
         /\ pc[w] # "idle" /\ pc'[w] = "idle" /\ todo'[w] = <<>>
         /\ begun' = begun - (IF MailPending(w) THEN 1 ELSE 0) /\ faults' = faults - 1
         /\ UNCHANGED <<day, count, ttl, mails, sms, straddled>>
<1>1. /\ pc[w] # "idle" /\ faults > 0 /\ faults' = faults - 1
      /\ pc' = [pc EXCEPT ![w] = "idle"] /\ todo' = [todo EXCEPT ![w] = <<>>]
      /\ user' = [user EXCEPT ![w] = "all"] /\ eod' = [eod EXCEPT ![w] = 1]
      /\ scope' = [scope EXCEPT ![w] = {}]
      /\ begun' = begun - (IF MailPending(w) THEN 1 ELSE 0)
      /\ UNCHANGED <<day, count, ttl, mails, sms, straddled>>
  BY DEF Crash, Fault, Goto, MailPending, redis
<1>2. /\ pc \in [Workers -> Labels] /\ user \in [Workers -> Scopes] /\ todo \in [Workers -> Todos]
      /\ scope \in [Workers -> SUBSET Scopes] /\ eod \in [Workers -> 1..Days]
      /\ 1 \in 1..Days /\ "idle" \in Labels /\ <<>> \in Todos /\ "all" \in Scopes
      /\ begun \in Int
  BY DispatchAssumption DEF TypeInv, Types, Labels, Scopes, Todos
<1>3. /\ pc' \in [Workers -> Labels] /\ user' \in [Workers -> Scopes] /\ todo' \in [Workers -> Todos]
      /\ scope' \in [Workers -> SUBSET Scopes] /\ eod' \in [Workers -> 1..Days]
      /\ pc'[w] = "idle" /\ todo'[w] = <<>> /\ Others(w)
  BY <1>1, <1>2 DEF Others
<1>4. begun' \in Int
  BY <1>1, <1>2
<1>5. faults' \in 0..MaxFaults
  BY <1>1, DispatchAssumption DEF TypeInv, Types
<1>6. Types'
  BY <1>1, <1>3, <1>4, <1>5 DEF TypeInv, Types
<1>7. WorkerOK(w)'
  BY <1>3 DEF WorkerOK
<1>. QED
  BY <1>1, <1>3, <1>6, <1>7, OthersKeep DEF TypeInv

\* A step of no worker: only these variables change.
LEMMA RestMoves ==
  ASSUME TypeInv, \/ \E w \in Workers : GiveUp(w)
                  \/ Midnight \/ Settings \/ (\E k \in Counted : Evict(k)) \/ UNCHANGED vars
  PROVE  /\ TypeInv' /\ UNCHANGED <<pc, user, todo, scope, begun, mails, sms, straddled>>
         /\ \/ day' = day + 1 /\ UNCHANGED <<count, ttl>>
            \/ /\ day' = day
               /\ \/ UNCHANGED <<count, ttl>>
                  \/ \E k \in Counted : /\ ttl[k] < day /\ count' = [count EXCEPT ![k] = 0]
                                        /\ ttl' = [ttl EXCEPT ![k] = Days]
         /\ faults' \in {faults, faults - 1}
<1>1. UNCHANGED <<pc, user, todo, eod, scope, begun, mails, sms, straddled>>
  BY DEF GiveUp, Midnight, Settings, Evict, vars, worker, tally
<1>2. day' = day \/ (day < Days /\ day' = day + 1)
  BY DEF GiveUp, Midnight, Settings, Evict, vars
<1>3. faults' = faults \/ (faults > 0 /\ faults' = faults - 1)
  BY DEF GiveUp, Midnight, Settings, Evict, vars, Fault, Administration, PutRow, PutReload, Outdate
<1>4. \/ UNCHANGED <<count, ttl>>
      \/ day' = day /\ \E k \in Counted : /\ ttl[k] < day /\ count' = [count EXCEPT ![k] = 0]
                                          /\ ttl' = [ttl EXCEPT ![k] = Days]
  BY DEF GiveUp, Midnight, Settings, Evict, vars, redis
<1>5. Days \in 1..Days /\ Days \in Nat /\ MaxFaults \in Nat
  BY DispatchAssumption
<1>6. day' \in 1..Days /\ faults' \in 0..MaxFaults
  BY <1>2, <1>3, <1>5 DEF TypeInv, Types
<1>7. count' \in [Counted -> Nat] /\ ttl' \in [Counted -> 1..Days]
  <2>1. count \in [Counted -> Nat] /\ ttl \in [Counted -> 1..Days]
    BY DEF TypeInv, Types
  <2>. QED
    BY <1>4, <1>5, <2>1
<1>8. Types'
  BY <1>1, <1>6, <1>7 DEF TypeInv, Types
<1>9. WorkersOK'
  BY <1>1 DEF TypeInv, WorkersOK, WorkerOK
<1>10. (day' = day + 1 /\ UNCHANGED <<count, ttl>>) \/ day' = day
  BY DEF GiveUp, Midnight, Settings, Evict, vars, redis
<1>. QED
  BY <1>1, <1>3, <1>4, <1>8, <1>9, <1>10 DEF TypeInv

\* The actions, as the lemmas above take them.
LEMMA NextCases ==
  ASSUME [Next]_vars
  PROVE  \/ \E w \in Workers : \/ SendMail(w) \/ SendIM(w) \/ SendSms(w)
                               \/ Confirm(w) \/ Incr(w) \/ Expire(w) \/ Crash(w)
                               \/ \E u \in Users : Begin(w, u)
         \/ \/ \E w \in Workers : GiveUp(w)
            \/ Midnight \/ Settings \/ (\E k \in Counted : Evict(k)) \/ UNCHANGED vars
BY DEF Next, Work

LEMMA TypeStep == TypeInv /\ [Next]_vars => TypeInv'
BY NextCases, BeginMoves, MailMoves, ImMoves, SmsMoves, ConfirmMoves, IncrMoves, ExpireMoves,
   CrashMoves, RestMoves

-----------------------------------------------------------------------------
(* Settings                                                                *)

\* A copy that is fresh was loaded after the last answer, unless the load
\* failed, or the row is off and its answer still to come.
CopyInv ==
    /\ row \in [version : Nat, enabled : BOOLEAN] /\ writing \in BOOLEAN
    /\ answered \in Nat /\ cached \in Nat /\ answered <= row.version
    /\ ~row.enabled /\ ~writing => answered = 0
    /\ fresh => cached >= answered \/ loadFailed \/ (~row.enabled /\ writing)

LEMMA EnsureKeeps == CopyInv /\ Ensure => CopyInv'
<1> SUFFICES ASSUME CopyInv, Ensure PROVE CopyInv'
  OBVIOUS
<1>1. UNCHANGED <<row, writing, answered>>
  BY DEF Ensure, table
<1>2. CASE (fresh \/ row.enabled = FALSE) /\ UNCHANGED <<cached, loadFailed>>
  BY <1>1, <1>2 DEF CopyInv
<1>3. CASE cached' = row.version
  BY <1>1, <1>3 DEF CopyInv
<1>4. CASE loadFailed' = TRUE /\ UNCHANGED cached
  BY <1>1, <1>4 DEF CopyInv
<1>. QED
  BY <1>2, <1>3, <1>4 DEF Ensure

LEMMA CopyStep == CopyInv /\ [Next]_vars => CopyInv'
<1> SUFFICES ASSUME CopyInv, [Next]_vars PROVE CopyInv'
  OBVIOUS
<1>1. CASE UNCHANGED settings
  BY <1>1 DEF CopyInv, settings, table, provider
<1>2. CASE Ensure
  BY <1>2, EnsureKeeps
<1>3. ASSUME NEW enabled \in BOOLEAN, PutRow(enabled) PROVE CopyInv'
  BY <1>3 DEF PutRow, CopyInv
<1>4. CASE PutReload
  <2>1. /\ UNCHANGED <<row, cached>> /\ writing' = FALSE /\ fresh' = FALSE
        /\ answered' = IF row.enabled THEN row.version ELSE 0
    BY <1>4 DEF PutReload, AfterReload
  <2>2. row.enabled \in BOOLEAN /\ row.version \in Nat
    BY DEF CopyInv
  <2>3. /\ row' \in [version : Nat, enabled : BOOLEAN] /\ writing' \in BOOLEAN
        /\ cached' \in Nat /\ row' = row
    BY <2>1 DEF CopyInv
  <2>4. row.enabled => answered' = row.version
    BY <2>1, Zenon
  <2>5. ~row.enabled => answered' = 0
    BY <2>1, Zenon
  <2>6. answered' \in Nat /\ answered' <= row.version
    BY <2>2, <2>4, <2>5
  <2>7. ~fresh' /\ (~row'.enabled => answered' = 0) /\ answered' <= row'.version
    BY <2>1, <2>3, <2>5, <2>6, Zenon
  <2>. QED
    BY <2>3, <2>6, <2>7, Zenon DEF CopyInv
<1>5. CASE Outdate
  BY <1>5 DEF Outdate, CopyInv, table
<1>6. UNCHANGED settings \/ Ensure \/ Administration
  BY DEF Next, GiveUp, Begin, Work, SendMail, SendIM, SendSms, Confirm, Incr, Expire, Crash,
         Midnight, Evict, Settings, vars
<1>. QED
  BY <1>1, <1>2, <1>3, <1>4, <1>5, <1>6 DEF Administration

\* No mail goes out with the settings from before an answered change, however
\* the change, the loads and the sends of all workers interleave.
THEOREM ChangeUsedSafe == Spec => ChangeIsUsed
<1>1. Init => TypeInv /\ CopyInv
  <2> SUFFICES ASSUME Init PROVE CopyInv
    BY TypeInit
  <2>1. row = [version |-> 0, enabled |-> FALSE] /\ writing = FALSE /\ answered = 0
        /\ cached = 0 /\ fresh = FALSE
    BY DEF Init, ConfigInit
  <2>2. row \in [version : Nat, enabled : BOOLEAN] /\ row.version = 0
    BY <2>1
  <2>3. answered \in Nat /\ cached \in Nat /\ answered <= row.version
    BY <2>1, <2>2
  <2>. QED
    BY <2>1, <2>2, <2>3, Zenon DEF CopyInv
<1>2. TypeInv /\ CopyInv /\ [Next]_vars
         => [mails' > mails => cached' >= answered \/ ~row.enabled \/ loadFailed']_vars
  <2> SUFFICES ASSUME TypeInv, CopyInv, Next, mails' > mails
               PROVE  cached' >= answered \/ ~row.enabled \/ loadFailed'
    OBVIOUS
  <2>1. mails' = mails \/ Ensure
    BY DEF Next, GiveUp, Begin, Work, SendMail, SendIM, SendSms, Confirm, Incr, Expire, Crash,
           Midnight, Evict, Settings, tally
  <2>2. ~(mails' = mails)
    BY DEF TypeInv, Types
  <2>. QED
    BY <2>1, <2>2 DEF Ensure, CopyInv
<1>. QED
  BY <1>1, <1>2, TypeStep, CopyStep, PTL DEF Spec, ChangeIsUsed
-----------------------------------------------------------------------------
(* Mail                                                                    *)

\* Of two sets of workers that differ by w at most.
LEMMA OneMoves ==
  ASSUME NEW S \in SUBSET Workers, NEW T \in SUBSET Workers, NEW w \in Workers,
         \A q \in Workers \ {w} : q \in S <=> q \in T
  PROVE  /\ Cardinality(S) \in Nat /\ Cardinality(T) \in Nat
         /\ (w \in S <=> w \in T) => Cardinality(T) = Cardinality(S)
         /\ w \in T /\ w \notin S => Cardinality(T) = Cardinality(S) + 1
         /\ w \notin T /\ w \in S => Cardinality(T) = Cardinality(S) - 1
<1>1. IsFiniteSet(S) /\ IsFiniteSet(T)
  BY DispatchAssumption, FS_Subset
<1>2. Cardinality(S) \in Nat /\ Cardinality(T) \in Nat
  BY <1>1, FS_CardinalityType
<1>3. (w \in S <=> w \in T) => T = S
  OBVIOUS
<1>4. ASSUME w \in T, w \notin S PROVE Cardinality(T) = Cardinality(S) + 1
  <2>1. T = S \cup {w}
    BY <1>4
  <2>. QED
    BY <1>1, <1>4, <2>1, FS_AddElement
<1>5. ASSUME w \notin T, w \in S PROVE Cardinality(T) = Cardinality(S) - 1
  <2>1. S = T \cup {w}
    BY <1>5
  <2>2. Cardinality(S) = Cardinality(T) + 1
    BY <1>1, <1>5, <2>1, FS_AddElement
  <2>. QED
    BY <1>2, <2>2
<1>. QED
  BY <1>2, <1>3, <1>4, <1>5

\* Mail in what is left to send at a label; beyond its head, when that is in hand.
HasMail(p, t) == \E i \in DOMAIN t : t[i] = "mail" /\ (i > 1 \/ p = "send")

LEMMA MailShape ==
  ASSUME NEW p, NEW t \in Todos
  PROVE  /\ t \in {<<>>, <<"sms">>} => ~HasMail(p, t)
         /\ t \in {<<"mail">>, <<"mail", "sms">>} /\ p = "send" => HasMail(p, t)
         /\ t \in {<<"im", "mail">>, <<"sms", "mail">>} => HasMail(p, t)
<1>1. ASSUME t = <<>> PROVE ~HasMail(p, t)
  BY <1>1 DEF HasMail
<1>2. ASSUME t = <<"sms">> PROVE ~HasMail(p, t)
  BY <1>2 DEF HasMail
<1>3. ASSUME t = <<"mail">> \/ t = <<"mail", "sms">>, p = "send" PROVE HasMail(p, t)
  BY <1>3 DEF HasMail
<1>4. ASSUME t = <<"im", "mail">> \/ t = <<"sms", "mail">> PROVE HasMail(p, t)
  BY <1>4 DEF HasMail
<1>. QED
  BY <1>1, <1>2, <1>3, <1>4, Zenon

\* A step in which w's mail is begun, attempted or given up, or stays as it is.
LEMMA MailCount ==
  ASSUME MailIsAttempted, TypeInv, TypeInv', NEW w \in Workers, Others(w),
         LET had == HasMail(pc[w], todo[w])
             has == HasMail(pc'[w], todo'[w]) IN
         \/ ~had /\ has /\ begun' = begun + 1 /\ mails' = mails
         \/ had /\ ~has /\ begun' = begun /\ mails' = mails + 1
         \/ had /\ ~has /\ begun' = begun - 1 /\ mails' = mails
         \/ (had <=> has) /\ begun' = begun /\ mails' = mails
  PROVE  MailIsAttempted'
<1>. DEFINE S == {q \in Workers : HasMail(pc[q], todo[q])}
            T == {q \in Workers : HasMail(pc'[q], todo'[q])}
<1>1. S \in SUBSET Workers /\ T \in SUBSET Workers /\ \A q \in Workers \ {w} : q \in S <=> q \in T
  BY DEF Others
<1>2. /\ Cardinality(S) \in Nat /\ Cardinality(T) \in Nat
      /\ (w \in S <=> w \in T) => Cardinality(T) = Cardinality(S)
      /\ w \in T /\ w \notin S => Cardinality(T) = Cardinality(S) + 1
      /\ w \notin T /\ w \in S => Cardinality(T) = Cardinality(S) - 1
  BY <1>1, OneMoves
<1>3. begun = mails + Cardinality(S)
  BY DEF MailIsAttempted, MailPending, HasMail
<1>4. begun \in Int /\ mails \in Nat
  BY DEF TypeInv, Types
<1>5. begun' = mails' + Cardinality(T)
  <2>1. CASE w \notin S /\ w \in T /\ begun' = begun + 1 /\ mails' = mails
    BY <1>2, <1>3, <1>4, <2>1
  <2>2. CASE w \in S /\ w \notin T /\ begun' = begun /\ mails' = mails + 1
    BY <1>2, <1>3, <1>4, <2>2
  <2>3. CASE w \in S /\ w \notin T /\ begun' = begun - 1 /\ mails' = mails
    BY <1>2, <1>3, <1>4, <2>3
  <2>4. CASE (w \in S <=> w \in T) /\ begun' = begun /\ mails' = mails
    BY <1>2, <1>3, <2>4
  <2>. QED
    BY <2>1, <2>2, <2>3, <2>4
<1>. QED
  BY <1>5 DEF MailIsAttempted, MailPending, HasMail

LEMMA MailStep == TypeInv /\ MailIsAttempted /\ [Next]_vars => MailIsAttempted'
<1> SUFFICES ASSUME TypeInv, MailIsAttempted, [Next]_vars PROVE MailIsAttempted'
  OBVIOUS
<1>1. TypeInv'
  BY TypeStep
<1>2. \A q \in Workers : todo[q] \in Todos /\ todo'[q] \in Todos
  BY <1>1 DEF TypeInv, Types
<1>3. ASSUME NEW w \in Workers, NEW u \in Users, Begin(w, u) PROVE MailIsAttempted'
  <2>1. /\ Others(w) /\ todo[w] = <<>> /\ pc'[w] = "send"
        /\ todo'[w] \in Todos \ {<<>>, <<"sms">>}
        /\ begun' = begun + 1 /\ mails' = mails
    BY <1>3, BeginMoves
  <2>2. todo'[w] \in {<<"mail">>, <<"mail", "sms">>, <<"im", "mail">>, <<"sms", "mail">>}
    BY <2>1 DEF Todos
  <2>3. ~HasMail(pc[w], todo[w]) /\ HasMail(pc'[w], todo'[w])
    BY <1>2, <2>1, <2>2, MailShape
  <2>. QED
    BY <1>1, <2>1, <2>3, MailCount
<1>4. ASSUME NEW w \in Workers, SendMail(w) PROVE MailIsAttempted'
  <2>1. /\ Others(w) /\ pc[w] = "send" /\ todo[w] \in {<<"mail">>, <<"mail", "sms">>}
        /\ todo'[w] \in {<<>>, <<"sms">>} /\ begun' = begun /\ mails' = mails + 1
    BY <1>4, MailMoves
  <2>2. HasMail(pc[w], todo[w]) /\ ~HasMail(pc'[w], todo'[w])
    BY <1>2, <2>1, MailShape
  <2>. QED
    BY <1>1, <2>1, <2>2, MailCount
<1>5. ASSUME NEW w \in Workers, SendIM(w) PROVE MailIsAttempted'
  <2>1. /\ Others(w) /\ todo[w] = <<"im", "mail">> /\ pc'[w] = "send" /\ todo'[w] = <<"mail">>
        /\ begun' = begun /\ mails' = mails
    BY <1>5, ImMoves
  <2>2. HasMail(pc[w], todo[w]) /\ HasMail(pc'[w], todo'[w])
    BY <1>2, <2>1, MailShape
  <2>. QED
    BY <1>1, <2>1, <2>2, MailCount
\* A step with an SMS in hand: mail comes after it or not at all.
<1>6. ASSUME NEW w \in Workers, Others(w), UNCHANGED <<begun, mails>>,
             \/ /\ todo[w] \in {<<"sms">>, <<"sms", "mail">>} /\ todo'[w] = todo[w]
             \/ todo[w] = <<"sms">> /\ todo'[w] = <<>>
             \/ todo[w] = <<"sms", "mail">> /\ todo'[w] = <<"mail">> /\ pc'[w] = "send"
      PROVE  MailIsAttempted'
  <2>1. HasMail(pc[w], todo[w]) <=> HasMail(pc'[w], todo'[w])
    BY <1>2, <1>6, MailShape
  <2>. QED
    BY <1>1, <1>6, <2>1, MailCount
<1>7. ASSUME NEW w \in Workers, SendSms(w) PROVE MailIsAttempted'
  BY <1>6, <1>7, SmsMoves
<1>8. ASSUME NEW w \in Workers, Confirm(w) PROVE MailIsAttempted'
  BY <1>6, <1>8, ConfirmMoves DEF TypeInv, WorkersOK, WorkerOK
<1>9. ASSUME NEW w \in Workers, Incr(w) \/ Expire(w) PROVE MailIsAttempted'
  BY <1>6, <1>9, IncrMoves, ExpireMoves, NextScopeType
<1>10. ASSUME NEW w \in Workers, Crash(w) PROVE MailIsAttempted'
  <2>1. /\ Others(w) /\ todo'[w] = <<>> /\ mails' = mails
        /\ begun' = begun - (IF MailPending(w) THEN 1 ELSE 0)
    BY <1>10, CrashMoves
  <2>2. ~HasMail(pc'[w], todo'[w]) /\ (MailPending(w) <=> HasMail(pc[w], todo[w]))
    BY <1>2, <2>1, MailShape DEF MailPending, HasMail
  <2>3. begun \in Int
    BY DEF TypeInv, Types
  <2>4. CASE MailPending(w)
    BY <1>1, <2>1, <2>2, <2>4, MailCount
  <2>5. CASE ~MailPending(w)
    BY <1>1, <2>1, <2>2, <2>3, <2>5, MailCount
  <2>. QED
    BY <2>4, <2>5
<1>11. CASE \/ \E w \in Workers : GiveUp(w)
            \/ Midnight \/ Settings \/ (\E k \in Counted : Evict(k)) \/ UNCHANGED vars
  <2>1. UNCHANGED <<pc, todo, begun, mails>>
    BY <1>11, RestMoves
  <2>. QED
    BY <2>1 DEF MailIsAttempted, MailPending
<1>. QED
  BY <1>3, <1>4, <1>5, <1>7, <1>8, <1>9, <1>10, <1>11, NextCases

\* Mail is attempted for every alert whose plan was read, whatever the plan,
\* the quota and the providers say and however often a worker ends between.
THEOREM MailSafe == Spec => []MailIsAttempted
<1>1. Init => TypeInv /\ MailIsAttempted
  <2> SUFFICES ASSUME Init PROVE MailIsAttempted
    BY TypeInit
  <2>1. {w \in Workers : MailPending(w)} = {}
    BY DEF Init, MailPending
  <2>2. begun = 0 /\ mails = 0
    BY DEF Init
  <2>. QED
    BY <2>1, <2>2, FS_EmptySet DEF MailIsAttempted
<1>. QED
  BY <1>1, TypeStep, MailStep, PTL DEF Spec

-----------------------------------------------------------------------------
(* The quota                                                               *)

\* A worker that was allowed an SMS which counts for s and has not sent it,
Holds(s, p, u, t) == p = "send" /\ t \in WithSms /\ s \in {"all", u}
\* ... and one that has sent it and not yet counted it.
Owes(s, p, u, sc) ==
    /\ s \in {"all", u}
    /\ \/ p = "confirm"
       \/ p = "incr" /\ s \in sc
       \/ p = "expire" /\ s \in sc \ {IF "all" \in sc THEN "all" ELSE u}

Allowed(s)   == {w \in Workers : Holds(s, pc[w], user[w], todo[w])}
Uncounted(s) == {w \in Workers : Owes(s, pc[w], user[w], scope[w])}
Used         == MaxFaults - faults
Bound(s)     == Limit(s) + Cardinality(Workers) - 1 + Used

\* Today's SMS are counted, or about to be, or a failure kept them from it;
CountedInv == \A s \in Scopes : day \notin straddled =>
    sms[s][day] <= count[<<s, day>>] + Cardinality(Uncounted(s)) + Used

\* ... so those that were allowed, while fewer than the limit were counted,
\* are no more than the workers that do not owe a count.
AllowedInv == \A s \in Scopes : Limit(s) > 0 /\ day \notin straddled =>
    sms[s][day] + Cardinality(Allowed(s)) <= Bound(s)

\* The days before keep what they had, and those to come have none.
OtherDaysInv == \A s \in Scopes :
    /\ \A d \in 1..(day - 1) : Limit(s) > 0 /\ d \notin straddled => sms[s][d] <= Bound(s)
    /\ \A d \in (day + 1)..Days : sms[s][d] = 0

\* A counter does not expire before its day is over.
ExpiryInv == \A s \in Scopes, d \in day..Days : d \notin straddled => ttl[<<s, d>>] >= d

QuotaInv == CountedInv /\ AllowedInv /\ OtherDaysInv /\ ExpiryInv

LEMMA QuotaTypes ==
  ASSUME TypeInv, NEW s \in Scopes
  PROVE  /\ Limit(s) \in Nat /\ Used \in Nat /\ Cardinality(Workers) \in Nat
         /\ Cardinality(Allowed(s)) \in Nat /\ Cardinality(Uncounted(s)) \in Nat
         /\ Cardinality(Allowed(s)) <= Cardinality(Workers)
         /\ \A d \in 1..Days : sms[s][d] \in Nat /\ count[<<s, d>>] \in Nat
<1>1. Limit(s) \in Nat /\ Used \in Nat
  BY DispatchAssumption DEF TypeInv, Types, Limit, Used
<1>2. Allowed(s) \subseteq Workers /\ Uncounted(s) \subseteq Workers
  BY DEF Allowed, Uncounted
<1>3. IsFiniteSet(Workers)
  BY DispatchAssumption
<1>4. /\ Cardinality(Workers) \in Nat
      /\ Cardinality(Allowed(s)) \in Nat /\ Cardinality(Uncounted(s)) \in Nat
      /\ Cardinality(Allowed(s)) <= Cardinality(Workers)
  BY <1>2, <1>3, FS_Subset, FS_CardinalityType
<1>5. \A d \in 1..Days : sms[s][d] \in Nat /\ count[<<s, d>>] \in Nat
  <2>1. sms[s] \in [1..Days -> Nat]
    BY DEF TypeInv, Types
  <2>2. \A d \in 1..Days : <<s, d>> \in Counted
    BY DEF Counted
  <2>3. count \in [Counted -> Nat]
    BY DEF TypeInv, Types
  <2>. QED
    BY <2>1, <2>2, <2>3
<1>. QED
  BY <1>1, <1>4, <1>5

LEMMA QuotaInit == Init => QuotaInv
<1> SUFFICES ASSUME Init PROVE QuotaInv
  OBVIOUS
<1>1. TypeInv
  BY TypeInit
<1>2. Days \in Nat /\ 1 \in 1..Days
  BY DispatchAssumption
<1>3. /\ day = 1 /\ \A s \in Scopes, d \in 1..Days : sms[s][d] = 0 /\ ttl[<<s, d>>] = Days
  BY DEF Init, Counted
<1>4. CountedInv
  <2> SUFFICES ASSUME NEW s \in Scopes
               PROVE  sms[s][day] <= count[<<s, day>>] + Cardinality(Uncounted(s)) + Used
    BY DEF CountedInv
  <2>1. count[<<s, day>>] \in Nat /\ Cardinality(Uncounted(s)) \in Nat /\ Used \in Nat
    BY <1>1, <1>2, <1>3, QuotaTypes
  <2>. QED
    BY <1>2, <1>3, <2>1
<1>5. AllowedInv
  <2> SUFFICES ASSUME NEW s \in Scopes, Limit(s) > 0
               PROVE  sms[s][day] + Cardinality(Allowed(s)) <= Bound(s)
    BY DEF AllowedInv
  <2>1. /\ Limit(s) \in Nat /\ Used \in Nat /\ Cardinality(Workers) \in Nat
        /\ Cardinality(Allowed(s)) \in Nat /\ Cardinality(Allowed(s)) <= Cardinality(Workers)
    BY <1>1, QuotaTypes
  <2>2. sms[s][day] = 0
    BY <1>2, <1>3
  <2>. QED
    BY <2>1, <2>2 DEF Bound
<1>6. OtherDaysInv
  <2>1. \A d \in (day + 1)..Days : d \in 1..Days
    BY <1>2, <1>3
  <2>2. 1..(day - 1) = {}
    BY <1>3
  <2>. QED
    BY <1>3, <2>1, <2>2 DEF OtherDaysInv
<1>7. ExpiryInv
  <2>1. \A d \in day..Days : d \in 1..Days /\ Days >= d
    BY <1>2, <1>3
  <2>. QED
    BY <1>3, <2>1 DEF ExpiryInv
<1>. QED
  BY <1>4, <1>5, <1>6, <1>7 DEF QuotaInv

\* What a step of w does to the sets of one scope.
LEMMA ScopeMoves ==
  ASSUME TypeInv, NEW w \in Workers, Others(w), NEW s \in Scopes
  PROVE  LET held == Holds(s, pc[w], user[w], todo[w])
             holds == Holds(s, pc'[w], user'[w], todo'[w])
             owed == Owes(s, pc[w], user[w], scope[w])
             owes == Owes(s, pc'[w], user'[w], scope'[w]) IN
         /\ (held <=> holds) => Cardinality(Allowed(s)') = Cardinality(Allowed(s))
         /\ holds /\ ~held => Cardinality(Allowed(s)') = Cardinality(Allowed(s)) + 1
         /\ held /\ ~holds => Cardinality(Allowed(s)') = Cardinality(Allowed(s)) - 1
         /\ (owed <=> owes) => Cardinality(Uncounted(s)') = Cardinality(Uncounted(s))
         /\ owes /\ ~owed => Cardinality(Uncounted(s)') = Cardinality(Uncounted(s)) + 1
         /\ owed /\ ~owes => Cardinality(Uncounted(s)') = Cardinality(Uncounted(s)) - 1
<1>1. /\ Allowed(s) \in SUBSET Workers /\ Allowed(s)' \in SUBSET Workers
      /\ \A q \in Workers \ {w} : q \in Allowed(s) <=> q \in Allowed(s)'
      /\ w \in Allowed(s) <=> Holds(s, pc[w], user[w], todo[w])
      /\ w \in Allowed(s)' <=> Holds(s, pc'[w], user'[w], todo'[w])
  BY DEF Allowed, Others
<1>2. /\ Uncounted(s) \in SUBSET Workers /\ Uncounted(s)' \in SUBSET Workers
      /\ \A q \in Workers \ {w} : q \in Uncounted(s) <=> q \in Uncounted(s)'
      /\ w \in Uncounted(s) <=> Owes(s, pc[w], user[w], scope[w])
      /\ w \in Uncounted(s)' <=> Owes(s, pc'[w], user'[w], scope'[w])
  BY DEF Uncounted, Others
<1>3. LET A == Allowed(s)
          B == Allowed(s)' IN
      /\ (w \in A <=> w \in B) => Cardinality(B) = Cardinality(A)
      /\ w \in B /\ w \notin A => Cardinality(B) = Cardinality(A) + 1
      /\ w \notin B /\ w \in A => Cardinality(B) = Cardinality(A) - 1
  BY <1>1, OneMoves
<1>4. LET A == Uncounted(s)
          B == Uncounted(s)' IN
      /\ (w \in A <=> w \in B) => Cardinality(B) = Cardinality(A)
      /\ w \in B /\ w \notin A => Cardinality(B) = Cardinality(A) + 1
      /\ w \notin B /\ w \in A => Cardinality(B) = Cardinality(A) - 1
  BY <1>2, OneMoves
<1>. HIDE DEF Allowed, Uncounted, Holds, Owes
<1>. QED
  BY <1>1, <1>2, <1>3, <1>4, Zenon

\* One scope in a step of w: what is sent today is counted, or owed by one
\* worker more, or explained by a failure; and only what was allowed is sent.
LEMMA ScopeKeeps ==
  ASSUME TypeInv, QuotaInv, TypeInv', NEW w \in Workers, Others(w), NEW s \in Scopes,
         day' = day, straddled \subseteq straddled',
         LET held == Holds(s, pc[w], user[w], todo[w])
             holds == Holds(s, pc'[w], user'[w], todo'[w])
             owed == Owes(s, pc[w], user[w], scope[w])
             owes == Owes(s, pc'[w], user'[w], scope'[w])
             c == count[<<s, day>>]
             n == sms[s][day] IN
         \/ /\ (owed <=> owes) /\ (holds => held) /\ sms'[s][day] = n
            /\ count'[<<s, day>>] = c /\ faults' \in {faults, faults - 1}
         \/ /\ ~owed /\ owes /\ held /\ ~holds /\ sms'[s][day] = n + 1
            /\ count'[<<s, day>>] = c /\ faults' = faults
         \/ /\ ~owed /\ ~owes /\ held /\ ~holds /\ sms'[s][day] = n + 1
            /\ count'[<<s, day>>] = c /\ faults' = faults - 1
         \/ /\ owed /\ ~owes /\ (holds => held) /\ sms'[s][day] = n
            /\ \/ count'[<<s, day>>] = c + 1 /\ faults' = faults
               \/ count'[<<s, day>>] = c /\ faults' = faults - 1
  PROVE  /\ day \notin straddled' =>
              sms'[s][day] <= count'[<<s, day>>] + Cardinality(Uncounted(s)') + Used'
         /\ Limit(s) > 0 /\ day \notin straddled' =>
              sms'[s][day] + Cardinality(Allowed(s)') <= Bound(s)'
<1>. DEFINE held == Holds(s, pc[w], user[w], todo[w])
            holds == Holds(s, pc'[w], user'[w], todo'[w])
            owed == Owes(s, pc[w], user[w], scope[w])
            owes == Owes(s, pc'[w], user'[w], scope'[w])
            A == Cardinality(Allowed(s))
            U == Cardinality(Uncounted(s))
            c == count[<<s, day>>]
            n == sms[s][day]
<1>1. day \in 1..Days
  BY DEF TypeInv, Types
<1>2. /\ Limit(s) \in Nat /\ Used \in Nat /\ Cardinality(Workers) \in Nat
      /\ A \in Nat /\ U \in Nat /\ n \in Nat /\ c \in Nat
  BY <1>1, QuotaTypes
<1>3. /\ (held <=> holds) => Cardinality(Allowed(s)') = A
      /\ holds /\ ~held => Cardinality(Allowed(s)') = A + 1
      /\ held /\ ~holds => Cardinality(Allowed(s)') = A - 1
      /\ (owed <=> owes) => Cardinality(Uncounted(s)') = U
      /\ owes /\ ~owed => Cardinality(Uncounted(s)') = U + 1
      /\ owed /\ ~owes => Cardinality(Uncounted(s)') = U - 1
  BY ScopeMoves
<1>4. (holds => held) => Cardinality(Allowed(s)') \in {A, A - 1}
  BY <1>3
<1>5. /\ day \notin straddled => n <= c + U + Used
      /\ Limit(s) > 0 /\ day \notin straddled => n + A <= Limit(s) + Cardinality(Workers) - 1 + Used
      /\ day \notin straddled' => day \notin straddled
  BY DEF QuotaInv, CountedInv, AllowedInv, Bound
<1>6. faults \in Int /\ MaxFaults \in Int /\ Used = MaxFaults - faults /\ Used' = MaxFaults - faults'
      /\ Bound(s)' = Limit(s) + Cardinality(Workers) - 1 + Used'
  BY DispatchAssumption DEF TypeInv, Types, Used, Bound, Limit
<1>. HIDE DEF held, holds, owed, owes, A, U, c, n
<1>7. CASE /\ (owed <=> owes) /\ (holds => held) /\ sms'[s][day] = n
           /\ count'[<<s, day>>] = c /\ faults' \in {faults, faults - 1}
  <2>1. Cardinality(Uncounted(s)') = U /\ Cardinality(Allowed(s)') \in {A, A - 1}
    BY <1>3, <1>4, <1>7, Zenon
  <2>. QED
    BY <1>2, <1>5, <1>6, <1>7, <2>1
<1>8. CASE /\ ~owed /\ owes /\ held /\ ~holds /\ sms'[s][day] = n + 1
           /\ count'[<<s, day>>] = c /\ faults' = faults
  <2>1. Cardinality(Uncounted(s)') = U + 1 /\ Cardinality(Allowed(s)') = A - 1
    BY <1>3, <1>8, Zenon
  <2>. QED
    BY <1>2, <1>5, <1>6, <1>8, <2>1
<1>9. CASE /\ ~owed /\ ~owes /\ held /\ ~holds /\ sms'[s][day] = n + 1
           /\ count'[<<s, day>>] = c /\ faults' = faults - 1
  <2>1. Cardinality(Uncounted(s)') = U /\ Cardinality(Allowed(s)') = A - 1
    BY <1>3, <1>9, Zenon
  <2>. QED
    BY <1>2, <1>5, <1>6, <1>9, <2>1
<1>10. CASE /\ owed /\ ~owes /\ (holds => held) /\ sms'[s][day] = n
            /\ \/ count'[<<s, day>>] = c + 1 /\ faults' = faults
               \/ count'[<<s, day>>] = c /\ faults' = faults - 1
  <2>1. Cardinality(Uncounted(s)') = U - 1 /\ Cardinality(Allowed(s)') \in {A, A - 1}
    BY <1>3, <1>4, <1>10, Zenon
  <2>. QED
    BY <1>2, <1>5, <1>6, <1>10, <2>1
<1>. QED
  BY <1>7, <1>8, <1>9, <1>10 DEF held, holds, owed, owes, c, n

\* The other days: nothing changes there, and failures only raise the bound.
LEMMA OtherDaysKeep ==
  ASSUME TypeInv, QuotaInv, TypeInv', day' = day, straddled \subseteq straddled',
         faults' \in {faults, faults - 1},
         \A s \in Scopes, d \in 1..Days : d # day => sms'[s][d] = sms[s][d]
  PROVE  OtherDaysInv'
<1>1. day \in 1..Days /\ Days \in Nat
  BY DispatchAssumption DEF TypeInv, Types
<1>2. ASSUME NEW s \in Scopes, NEW d \in 1..(day - 1), Limit(s) > 0, d \notin straddled'
      PROVE  sms'[s][d] <= Bound(s)'
  <2>1. d \in 1..Days /\ d # day
    BY <1>1
  <2>2. sms'[s][d] = sms[s][d] /\ sms[s][d] <= Bound(s)
    BY <1>2, <2>1 DEF QuotaInv, OtherDaysInv
  <2>3. /\ Limit(s) \in Nat /\ Used \in Nat /\ Cardinality(Workers) \in Nat /\ sms[s][d] \in Nat
    BY <2>1, QuotaTypes
  <2>4. Used' = Used \/ Used' = Used + 1
    BY DispatchAssumption DEF TypeInv, Types, Used
  <2>. QED
    BY <2>2, <2>3, <2>4 DEF Bound, Limit
<1>3. ASSUME NEW s \in Scopes, NEW d \in (day + 1)..Days PROVE sms'[s][d] = 0
  <2>1. d \in 1..Days /\ d # day
    BY <1>1
  <2>. QED
    BY <2>1 DEF QuotaInv, OtherDaysInv
<1>. QED
  BY <1>2, <1>3 DEF OtherDaysInv, Limit

\* All scopes and days of a step of w that leaves the counters' expiry alone.
LEMMA QuotaKeeps ==
  ASSUME TypeInv, QuotaInv, TypeInv', day' = day, straddled' = straddled, ttl' = ttl,
         faults' \in {faults, faults - 1},
         \A s \in Scopes, d \in 1..Days : d # day => sms'[s][d] = sms[s][d],
         \A s \in Scopes :
            /\ day \notin straddled' =>
                 sms'[s][day] <= count'[<<s, day>>] + Cardinality(Uncounted(s)') + Used'
            /\ Limit(s) > 0 /\ day \notin straddled' =>
                 sms'[s][day] + Cardinality(Allowed(s)') <= Bound(s)'
  PROVE  QuotaInv'
<1>1. OtherDaysInv'
  BY OtherDaysKeep
<1>2. ExpiryInv'
  BY DEF QuotaInv, ExpiryInv
<1>. QED
  BY <1>1, <1>2 DEF QuotaInv, CountedInv, AllowedInv, Limit

LEMMA SmsShape ==
  /\ <<"sms">> \in WithSms /\ <<"sms", "mail">> \in WithSms /\ <<"mail", "sms">> \in WithSms
  /\ <<>> \notin WithSms /\ <<"mail">> \notin WithSms /\ <<"im", "mail">> \notin WithSms
BY DEF WithSms

\* Allow has seen fewer than the limit; the workers that owe a count and those
\* that are allowed are different ones.
LEMMA BeginQuota ==
  ASSUME TypeInv, QuotaInv, NEW w \in Workers, NEW u \in Users, Begin(w, u)
  PROVE  QuotaInv'
<1>1. /\ TypeInv' /\ Others(w)
      /\ pc[w] = "idle" /\ pc'[w] = "send" /\ user'[w] = u
      /\ todo'[w] \in WithSms => AllowSms(u) \/ faults' = faults - 1
      /\ faults' \in {faults, faults - 1}
      /\ UNCHANGED <<day, count, ttl, sms, straddled>>
  BY BeginMoves
<1>2. ASSUME NEW s \in Scopes
      PROVE  /\ day \notin straddled' =>
                  sms'[s][day] <= count'[<<s, day>>] + Cardinality(Uncounted(s)') + Used'
             /\ Limit(s) > 0 /\ day \notin straddled' =>
                  sms'[s][day] + Cardinality(Allowed(s)') <= Bound(s)'
  <2>1. /\ ~Holds(s, pc[w], user[w], todo[w])
        /\ ~Owes(s, pc[w], user[w], scope[w]) /\ ~Owes(s, pc'[w], user'[w], scope'[w])
    BY <1>1 DEF Holds, Owes
  <2>2. CASE ~Holds(s, pc'[w], user'[w], todo'[w])
    BY <1>1, <2>1, <2>2, ScopeKeeps
  <2>3. CASE Holds(s, pc'[w], user'[w], todo'[w])
    <3>. DEFINE A == Cardinality(Allowed(s))
                U == Cardinality(Uncounted(s))
                c == count[<<s, day>>]
                n == sms[s][day]
                all == Cardinality(Workers)
    <3>1. Cardinality(Allowed(s)') = A + 1 /\ Cardinality(Uncounted(s)') = U
      BY <1>1, <2>1, <2>3, ScopeMoves
    <3>2. day \in 1..Days
      BY DEF TypeInv, Types
    <3>3. /\ Limit(s) \in Nat /\ Used \in Nat /\ all \in Nat
          /\ A \in Nat /\ U \in Nat /\ n \in Nat /\ c \in Nat
      BY <3>2, QuotaTypes
    <3>4. (Used' = Used /\ faults' = faults) \/ (Used' = Used + 1 /\ faults' = faults - 1)
      <4>1. faults \in Int /\ MaxFaults \in Int
        BY DispatchAssumption DEF TypeInv, Types
      <4>. QED
        BY <1>1, <4>1 DEF Used
    <3>5. A + 1 + U <= all
      <4>1. Allowed(s)' \subseteq Workers /\ Uncounted(s)' \subseteq Workers
            /\ Allowed(s)' \cap Uncounted(s)' = {}
        BY DEF Allowed, Uncounted, Holds, Owes
      <4>2. IsFiniteSet(Workers) /\ IsFiniteSet(Allowed(s)') /\ IsFiniteSet(Uncounted(s)')
        BY <4>1, FS_Subset, DispatchAssumption
      <4>3. Cardinality(Allowed(s)' \cup Uncounted(s)')
               = (A + 1) + U - Cardinality(Allowed(s)' \cap Uncounted(s)')
        BY <3>1, <4>2, FS_Union
      <4>4. Cardinality(Allowed(s)' \cap Uncounted(s)') = 0
        BY <4>1, FS_EmptySet
      <4>5. Cardinality(Allowed(s)' \cup Uncounted(s)') <= all
        BY <4>1, <4>2, FS_Subset
      <4>. QED
        BY <3>3, <4>3, <4>4, <4>5
    <3>6. /\ day \notin straddled => n <= c + U + Used
          /\ Limit(s) > 0 /\ day \notin straddled => n + A <= Limit(s) + all - 1 + Used
      BY DEF QuotaInv, CountedInv, AllowedInv, Bound
    <3>7. Bound(s)' = Limit(s) + all - 1 + Used'
      BY DEF Bound, Limit
    <3>8. (Limit(s) > 0 => c < Limit(s)) \/ faults' = faults - 1
      BY <1>1, <2>3 DEF Holds, AllowSms, Within
    <3>9. sms'[s][day] = n /\ count'[<<s, day>>] = c /\ straddled' = straddled
      BY <1>1
    <3>10. faults - 1 # faults
      BY DEF TypeInv, Types
    <3>. HIDE DEF A, U, c, n, all
    <3>. QED
      BY <3>1, <3>3, <3>4, <3>5, <3>6, <3>7, <3>8, <3>9, <3>10
  <2>. QED
    BY <2>2, <2>3
<1>. QED
  BY <1>1, <1>2, QuotaKeeps

LEMMA SmsQuota ==
  ASSUME TypeInv, QuotaInv, NEW w \in Workers, SendSms(w)
  PROVE  QuotaInv'
<1>1. /\ TypeInv' /\ Others(w)
      /\ pc[w] = "send" /\ user[w] \in Users /\ todo[w] \in {<<"sms">>, <<"sms", "mail">>}
      /\ \/ pc'[w] = "confirm" /\ todo'[w] = todo[w] /\ user'[w] = user[w]
         \/ pc'[w] = "idle" /\ todo'[w] = <<>> /\ todo[w] = <<"sms">>
         \/ pc'[w] = "send" /\ todo'[w] = <<"mail">> /\ todo[w] = <<"sms", "mail">>
      /\ \/ Accepted(user[w]) /\ pc'[w] = "confirm" /\ UNCHANGED faults
         \/ Accepted(user[w]) /\ pc'[w] # "confirm" /\ faults' = faults - 1
         \/ sms' = sms /\ pc'[w] # "confirm" /\ UNCHANGED faults
      /\ UNCHANGED <<day, count, ttl, straddled>>
  BY SmsMoves
<1>2. day \in 1..Days
  BY DEF TypeInv, Types
<1>3. \A s \in Scopes :
         /\ Holds(s, pc[w], user[w], todo[w]) <=> s \in {"all", user[w]}
         /\ ~Owes(s, pc[w], user[w], scope[w]) /\ ~Holds(s, pc'[w], user'[w], todo'[w])
         /\ pc'[w] = "confirm" => (Owes(s, pc'[w], user'[w], scope'[w]) <=> s \in {"all", user[w]})
         /\ pc'[w] # "confirm" => ~Owes(s, pc'[w], user'[w], scope'[w])
  <2>1. todo[w] \in WithSms /\ (pc'[w] = "send" => todo'[w] \notin WithSms)
    <3>1. todo[w] \in WithSms
      BY <1>1, SmsShape, Zenon
    <3>2. pc'[w] = "send" => todo'[w] = <<"mail">>
      BY <1>1, Zenon
    <3>. QED
      BY <3>1, <3>2, SmsShape, Zenon
  <2>2. pc'[w] \in {"confirm", "idle", "send"}
    BY <1>1
  <2>. QED
    BY <1>1, <2>1, <2>2 DEF Holds, Owes
<1>4. \A s \in Scopes, d \in 1..Days :
         \/ sms'[s][d] = sms[s][d] /\ (sms' = sms \/ d # day \/ s \notin {"all", user[w]})
         \/ Accepted(user[w]) /\ d = day /\ s \in {"all", user[w]} /\ sms'[s][d] = sms[s][d] + 1
  <2>1. CASE sms' = sms
    BY <2>1
  <2>2. CASE Accepted(user[w])
    BY <1>1, <2>2, AcceptedType
  <2>. QED
    BY <1>1, <2>1, <2>2
<1>5. faults' \in {faults, faults - 1} /\ straddled \subseteq straddled'
  BY <1>1
<1>6. ASSUME NEW s \in Scopes
      PROVE  /\ day \notin straddled' =>
                  sms'[s][day] <= count'[<<s, day>>] + Cardinality(Uncounted(s)') + Used'
             /\ Limit(s) > 0 /\ day \notin straddled' =>
                  sms'[s][day] + Cardinality(Allowed(s)') <= Bound(s)'
  <2>. DEFINE held == Holds(s, pc[w], user[w], todo[w])
              holds == Holds(s, pc'[w], user'[w], todo'[w])
              owed == Owes(s, pc[w], user[w], scope[w])
              owes == Owes(s, pc'[w], user'[w], scope'[w])
              n == sms[s][day]
  <2>1. ~owed /\ ~holds /\ count'[<<s, day>>] = count[<<s, day>>]
    BY <1>1, <1>3
  <2>2. \/ (owed <=> owes) /\ sms'[s][day] = n /\ faults' \in {faults, faults - 1}
        \/ owes /\ held /\ sms'[s][day] = n + 1 /\ faults' = faults
        \/ ~owes /\ held /\ sms'[s][day] = n + 1 /\ faults' = faults - 1
    <3>1. CASE s \notin {"all", user[w]}
      BY <1>2, <1>3, <1>4, <1>5, <3>1
    <3>2. CASE s \in {"all", user[w]} /\ Accepted(user[w]) /\ pc'[w] = "confirm" /\ UNCHANGED faults
      <4>1. sms'[s][day] = n + 1
        BY <1>1, <1>2, <3>2, AcceptedType
      <4>. QED
        BY <1>3, <3>2, <4>1
    <3>3. CASE s \in {"all", user[w]} /\ Accepted(user[w]) /\ pc'[w] # "confirm" /\ faults' = faults - 1
      <4>1. sms'[s][day] = n + 1
        BY <1>1, <1>2, <3>3, AcceptedType
      <4>. QED
        BY <1>3, <3>3, <4>1
    <3>4. CASE sms' = sms /\ pc'[w] # "confirm" /\ UNCHANGED faults
      BY <1>3, <3>4
    <3>. QED
      BY <1>1, <3>1, <3>2, <3>3, <3>4
  <2>. QED
    BY <1>1, <1>5, <2>1, <2>2, ScopeKeeps
<1>7. \A s \in Scopes, d \in 1..Days : d # day => sms'[s][d] = sms[s][d]
  BY <1>4
<1>. QED
  BY <1>1, <1>5, <1>6, <1>7, QuotaKeeps

\* The other steps of a worker send no SMS.
LEMMA QuietQuota ==
  ASSUME TypeInv, QuotaInv, NEW w \in Workers, SendMail(w) \/ SendIM(w) \/ Confirm(w) \/ Crash(w)
  PROVE  QuotaInv'
<1>1. TypeInv' /\ Others(w) /\ UNCHANGED <<day, count, ttl, sms, straddled>>
  BY MailMoves, ImMoves, ConfirmMoves, CrashMoves
<1>2. faults' \in {faults, faults - 1}
  BY MailMoves, ImMoves, ConfirmMoves, CrashMoves
<1>3. \A s \in Scopes :
         /\ Holds(s, pc'[w], user'[w], todo'[w]) => Holds(s, pc[w], user[w], todo[w])
         /\ \/ Owes(s, pc[w], user[w], scope[w]) <=> Owes(s, pc'[w], user'[w], scope'[w])
            \/ /\ ~Owes(s, pc'[w], user'[w], scope'[w]) /\ faults' = faults - 1
  <2>1. CASE SendMail(w)
    <3>1. /\ pc[w] = "send" /\ todo[w] \in {<<"mail">>, <<"mail", "sms">>}
          /\ todo[w] = <<"mail">> => pc'[w] = "idle" /\ todo'[w] = <<>>
          /\ todo[w] = <<"mail", "sms">> => pc'[w] = "send" /\ user'[w] = user[w]
      BY <2>1, MailMoves
    <3>2. CASE todo[w] = <<"mail">>
      BY <3>1, <3>2 DEF Holds, Owes
    <3>3. CASE todo[w] = <<"mail", "sms">>
      <4>1. todo[w] \in WithSms
        BY <3>3, SmsShape, Zenon
      <4>2. pc'[w] = "send" /\ user'[w] = user[w]
        BY <3>1, <3>3, Zenon
      <4>. QED
        BY <3>1, <4>1, <4>2 DEF Holds, Owes
    <3>. QED
      BY <3>1, <3>2, <3>3
  <2>2. CASE SendIM(w)
    <3>1. pc[w] = "send" /\ pc'[w] = "send" /\ todo'[w] \notin WithSms
      BY <2>2, ImMoves, SmsShape
    <3>. QED
      BY <3>1 DEF Holds, Owes
  <2>3. CASE Confirm(w)
    <3>1. pc[w] = "confirm" /\ pc'[w] = "incr" /\ user' = user /\ scope'[w] = {"all", user[w]}
      BY <2>3, ConfirmMoves
    <3>. QED
      BY <3>1 DEF Holds, Owes
  <2>4. CASE Crash(w)
    <3>1. pc'[w] = "idle" /\ faults' = faults - 1
      BY <2>4, CrashMoves
    <3>. QED
      BY <3>1 DEF Holds, Owes
  <2>. QED
    BY <2>1, <2>2, <2>3, <2>4
<1>4. ASSUME NEW s \in Scopes
      PROVE  /\ day \notin straddled' =>
                  sms'[s][day] <= count'[<<s, day>>] + Cardinality(Uncounted(s)') + Used'
             /\ Limit(s) > 0 /\ day \notin straddled' =>
                  sms'[s][day] + Cardinality(Allowed(s)') <= Bound(s)'
  <2>. DEFINE held == Holds(s, pc[w], user[w], todo[w])
              holds == Holds(s, pc'[w], user'[w], todo'[w])
              owed == Owes(s, pc[w], user[w], scope[w])
              owes == Owes(s, pc'[w], user'[w], scope'[w])
  <2>1. /\ holds => held /\ count'[<<s, day>>] = count[<<s, day>>] /\ sms'[s][day] = sms[s][day]
        /\ (owed <=> owes) \/ (owed /\ ~owes /\ faults' = faults - 1)
    BY <1>1, <1>3
  <2>2. count'[<<s, day>>] = count[<<s, day>>] /\ sms'[s][day] = sms[s][day]
    BY <1>1
  <2>. QED
    BY <1>1, <1>2, <2>1, <2>2, ScopeKeeps
<1>. QED
  BY <1>1, <1>2, <1>4, QuotaKeeps

LEMMA IncrQuota ==
  ASSUME TypeInv, QuotaInv, NEW w \in Workers, Incr(w)
  PROVE  QuotaInv'
<1>1. /\ TypeInv' /\ Others(w)
      /\ pc[w] = "incr" /\ pc'[w] = "expire" /\ todo' = todo /\ user' = user /\ scope' = scope
      /\ \/ /\ count' = [count EXCEPT ![<<NextScope(w), day>>] = @ + 1]
            /\ UNCHANGED faults
         \/ faults' = faults - 1 /\ UNCHANGED count
      /\ UNCHANGED <<day, ttl, sms, straddled>>
  BY IncrMoves
<1>2. /\ NextScope(w) \in scope[w] /\ NextScope(w) \in {"all", user[w]}
      /\ <<NextScope(w), day>> \in Counted /\ day \in 1..Days /\ count \in [Counted -> Nat]
  BY <1>1, NextScopeType DEF TypeInv, Types, NextScope
<1>3. ASSUME NEW s \in Scopes
      PROVE  /\ day \notin straddled' =>
                  sms'[s][day] <= count'[<<s, day>>] + Cardinality(Uncounted(s)') + Used'
             /\ Limit(s) > 0 /\ day \notin straddled' =>
                  sms'[s][day] + Cardinality(Allowed(s)') <= Bound(s)'
  <2>. DEFINE held == Holds(s, pc[w], user[w], todo[w])
              holds == Holds(s, pc'[w], user'[w], todo'[w])
              owed == Owes(s, pc[w], user[w], scope[w])
              owes == Owes(s, pc'[w], user'[w], scope'[w])
  <2>1. ~holds /\ (owed <=> s \in {"all", user[w]} /\ s \in scope[w])
        /\ (owes <=> s \in {"all", user[w]} /\ s \in scope[w] \ {NextScope(w)})
    BY <1>1 DEF Holds, Owes, NextScope
  <2>2. <<s, day>> \in Counted
    BY <1>2 DEF Counted
  <2>. HIDE DEF held, holds, owed, owes
  <2>3. CASE s = NextScope(w)
    <3>1. owed /\ ~owes
      BY <1>2, <2>1, <2>3
    <3>2. \/ count'[<<s, day>>] = count[<<s, day>>] + 1 /\ faults' = faults
          \/ count'[<<s, day>>] = count[<<s, day>>] /\ faults' = faults - 1
      BY <1>1, <1>2, <2>3
    <3>. QED
      BY <1>1, <2>1, <3>1, <3>2, ScopeKeeps DEF held, holds, owed, owes
  <2>4. CASE s # NextScope(w)
    <3>1. owed <=> owes
      BY <2>1, <2>4
    <3>2. <<s, day>> # <<NextScope(w), day>>
      BY <2>4
    <3>3. count'[<<s, day>>] = count[<<s, day>>] /\ faults' \in {faults, faults - 1}
      BY <1>1, <1>2, <2>2, <3>2
    <3>. QED
      BY <1>1, <2>1, <3>1, <3>3, ScopeKeeps DEF held, holds, owed, owes
  <2>. QED
    BY <2>3, <2>4
<1>. QED
  BY <1>1, <1>3, QuotaKeeps

LEMMA ExpireQuota ==
  ASSUME TypeInv, QuotaInv, NEW w \in Workers, Expire(w)
  PROVE  QuotaInv'
<1>1. /\ TypeInv' /\ Others(w)
      /\ pc[w] = "expire" /\ scope'[w] = scope[w] \ {NextScope(w)}
      /\ \/ /\ scope'[w] = {user[w]} /\ pc'[w] = "incr"
            /\ todo'[w] = todo[w] /\ user'[w] = user[w]
         \/ /\ scope'[w] = {}
            /\ \/ pc'[w] = "idle" /\ todo'[w] = <<>> /\ todo[w] = <<"sms">>
               \/ /\ pc'[w] = "send" /\ todo'[w] = <<"mail">> /\ user'[w] = user[w]
                  /\ todo[w] = <<"sms", "mail">>
      /\ \/ ttl' = [ttl EXCEPT ![<<NextScope(w), day>>] = eod[w]]
         \/ ttl' = ttl
      /\ straddled' = IF eod[w] = day THEN straddled ELSE straddled \cup {day}
      /\ UNCHANGED <<day, count, sms, faults>>
  BY ExpireMoves
<1>2. straddled \subseteq straddled'
  BY <1>1
<1>3. ASSUME NEW s \in Scopes
      PROVE  /\ day \notin straddled' =>
                  sms'[s][day] <= count'[<<s, day>>] + Cardinality(Uncounted(s)') + Used'
             /\ Limit(s) > 0 /\ day \notin straddled' =>
                  sms'[s][day] + Cardinality(Allowed(s)') <= Bound(s)'
  <2>. DEFINE held == Holds(s, pc[w], user[w], todo[w])
              holds == Holds(s, pc'[w], user'[w], todo'[w])
              owed == Owes(s, pc[w], user[w], scope[w])
              owes == Owes(s, pc'[w], user'[w], scope'[w])
  <2>1. owed <=> s \in {"all", user[w]} /\ s \in scope'[w]
    BY <1>1 DEF Owes, NextScope
  <2>2. (owed <=> owes) /\ ~holds
    <3>1. CASE scope'[w] = {user[w]} /\ pc'[w] = "incr" /\ user'[w] = user[w]
      BY <2>1, <3>1 DEF Owes, Holds
    <3>2. CASE scope'[w] = {} /\ pc'[w] = "idle"
      BY <2>1, <3>2 DEF Owes, Holds
    <3>3. CASE scope'[w] = {} /\ pc'[w] = "send" /\ todo'[w] = <<"mail">>
      <4>1. todo'[w] \notin WithSms
        BY <3>3, SmsShape, Zenon
      <4>. QED
        BY <2>1, <3>3, <4>1 DEF Owes, Holds
    <3>. QED
      BY <1>1, <3>1, <3>2, <3>3
  <2>3. sms'[s][day] = sms[s][day] /\ count'[<<s, day>>] = count[<<s, day>>] /\ faults' = faults
    BY <1>1
  <2>. QED
    BY <1>1, <1>2, <2>2, <2>3, ScopeKeeps
<1>4. OtherDaysInv'
  BY <1>1, <1>2, OtherDaysKeep
<1>5. ExpiryInv'
  <2> SUFFICES ASSUME NEW s \in Scopes, NEW d \in day..Days, d \notin straddled'
               PROVE  ttl'[<<s, d>>] >= d
    BY <1>1 DEF ExpiryInv
  <2>1. ttl \in [Counted -> 1..Days] /\ day \in 1..Days /\ d \notin straddled
    BY <1>2 DEF TypeInv, Types
  <2>2. d \in 1..Days
    BY <2>1, DispatchAssumption
  <2>3. <<s, d>> \in Counted /\ ttl[<<s, d>>] >= d
    BY <2>1, <2>2 DEF Counted, QuotaInv, ExpiryInv
  <2>4. CASE ttl' = ttl
    BY <2>3, <2>4
  <2>5. CASE ttl' = [ttl EXCEPT ![<<NextScope(w), day>>] = eod[w]]
    <3>1. CASE <<s, d>> = <<NextScope(w), day>>
      <4>1. d = day /\ ttl'[<<s, d>>] = eod[w]
        BY <2>1, <2>3, <2>5, <3>1
      <4>2. eod[w] = day
        BY <1>1, <4>1
      <4>. QED
        BY <2>2, <4>1, <4>2
    <3>2. CASE <<s, d>> # <<NextScope(w), day>>
      BY <2>1, <2>3, <2>5, <3>2
    <3>. QED
      BY <3>1, <3>2
  <2>. QED
    BY <1>1, <2>4, <2>5
<1>. QED
  BY <1>1, <1>3, <1>4, <1>5 DEF QuotaInv, CountedInv, AllowedInv, Limit

LEMMA RestQuota ==
  ASSUME TypeInv, QuotaInv,
         \/ \E w \in Workers : GiveUp(w)
         \/ Midnight \/ Settings \/ (\E k \in Counted : Evict(k)) \/ UNCHANGED vars
  PROVE  QuotaInv'
<1>1. /\ TypeInv' /\ UNCHANGED <<pc, user, todo, scope, sms, straddled>>
      /\ \/ day' = day + 1 /\ UNCHANGED <<count, ttl>>
         \/ /\ day' = day
            /\ \/ UNCHANGED <<count, ttl>>
               \/ \E k \in Counted : /\ ttl[k] < day /\ count' = [count EXCEPT ![k] = 0]
                                     /\ ttl' = [ttl EXCEPT ![k] = Days]
      /\ faults' \in {faults, faults - 1}
  BY RestMoves
<1>2. /\ day \in 1..Days /\ day' \in 1..Days /\ Days \in Nat
      /\ count \in [Counted -> Nat] /\ ttl \in [Counted -> 1..Days]
  BY <1>1, DispatchAssumption DEF TypeInv, Types
<1>3. Used' \in {Used, Used + 1}
  BY <1>1, DispatchAssumption DEF TypeInv, Types, Used
<1>4. \A s \in Scopes : Allowed(s)' = Allowed(s) /\ Uncounted(s)' = Uncounted(s)
  BY <1>1 DEF Allowed, Uncounted
<1>5. ASSUME NEW s \in Scopes
      PROVE  /\ Limit(s) \in Nat /\ Used \in Nat /\ Cardinality(Workers) \in Nat
             /\ Cardinality(Allowed(s)) \in Nat /\ Cardinality(Uncounted(s)) \in Nat
             /\ Cardinality(Allowed(s)) <= Cardinality(Workers)
             /\ \A d \in 1..Days : sms[s][d] \in Nat /\ count[<<s, d>>] \in Nat
             /\ Bound(s)' = Limit(s) + Cardinality(Workers) - 1 + Used'
  BY QuotaTypes DEF Bound, Limit
<1>6. CASE day' = day + 1 /\ UNCHANGED <<count, ttl>>
  <2>1. CountedInv'
    <3> SUFFICES ASSUME NEW s \in Scopes
                 PROVE  sms[s][day'] <= count[<<s, day'>>] + Cardinality(Uncounted(s)) + Used'
      BY <1>1, <1>4, <1>6 DEF CountedInv
    <3>1. sms[s][day'] = 0
      BY <1>2, <1>6 DEF QuotaInv, OtherDaysInv
    <3>. QED
      BY <1>2, <1>3, <1>5, <3>1
  <2>2. AllowedInv'
    <3> SUFFICES ASSUME NEW s \in Scopes, Limit(s) > 0
                 PROVE  sms[s][day'] + Cardinality(Allowed(s)) <= Bound(s)'
      BY <1>1, <1>4 DEF AllowedInv, Limit
    <3>1. sms[s][day'] = 0
      BY <1>2, <1>6 DEF QuotaInv, OtherDaysInv
    <3>. QED
      BY <1>3, <1>5, <3>1
  <2>3. OtherDaysInv'
    <3>1. ASSUME NEW s \in Scopes, NEW d \in 1..(day' - 1), Limit(s) > 0, d \notin straddled
          PROVE  sms[s][d] <= Bound(s)'
      <4>1. d \in 1..Days /\ (d = day \/ d \in 1..(day - 1))
        BY <1>2, <1>6
      <4>2. sms[s][d] <= Bound(s)
        <5>1. CASE d = day
          <6>1. sms[s][d] + Cardinality(Allowed(s)) <= Bound(s)
            BY <3>1, <5>1 DEF QuotaInv, AllowedInv
          <6>2. sms[s][d] \in Nat
            BY <1>5, <4>1
          <6>3. Limit(s) \in Nat /\ Used \in Nat /\ Cardinality(Workers) \in Nat
            BY <1>5
          <6>4. Cardinality(Allowed(s)) \in Nat /\ Bound(s) \in Int
            BY <1>5, <6>3 DEF Bound
          <6>. QED
            BY <5>1, <6>1, <6>2, <6>4
        <5>2. CASE d \in 1..(day - 1)
          BY <3>1, <5>2 DEF QuotaInv, OtherDaysInv
        <5>. QED
          BY <4>1, <5>1, <5>2
      <4>3. Bound(s) \in Int /\ Bound(s)' \in Int /\ Bound(s) <= Bound(s)'
        BY <1>3, <1>5 DEF Bound
      <4>4. sms[s][d] \in Nat
        BY <1>5, <4>1
      <4>. QED
        BY <4>2, <4>3, <4>4
    <3>2. ASSUME NEW s \in Scopes, NEW d \in (day' + 1)..Days PROVE sms[s][d] = 0
      <4>1. d \in (day + 1)..Days
        BY <1>2, <1>6
      <4>. QED
        BY <4>1 DEF QuotaInv, OtherDaysInv
    <3>. QED
      BY <1>1, <3>1, <3>2 DEF OtherDaysInv, Limit
  <2>4. ExpiryInv'
    <3>1. \A d \in day'..Days : d \in day..Days
      BY <1>2, <1>6
    <3>. QED
      BY <1>1, <1>6, <3>1 DEF QuotaInv, ExpiryInv
  <2>. QED
    BY <2>1, <2>2, <2>3, <2>4 DEF QuotaInv
<1>7. CASE day' = day
  <2>1. \A s \in Scopes : day \notin straddled => count'[<<s, day>>] = count[<<s, day>>]
    <3>1. ASSUME NEW s \in Scopes, day \notin straddled PROVE ttl[<<s, day>>] >= day
                                                             /\ <<s, day>> \in Counted
      BY <1>2, <3>1 DEF QuotaInv, ExpiryInv, Counted
    <3>2. \A s \in Scopes : ttl[<<s, day>>] >= day /\ <<s, day>> \in Counted =>
             ~(ttl[<<s, day>>] < day)
      BY <1>2
    <3>. QED
      BY <1>1, <1>2, <3>1, <3>2
  <2>2. CountedInv'
    <3> SUFFICES ASSUME NEW s \in Scopes, day \notin straddled
                 PROVE  sms[s][day] <= count'[<<s, day>>] + Cardinality(Uncounted(s)) + Used'
      BY <1>1, <1>4, <1>7 DEF CountedInv
    <3>1. sms[s][day] <= count[<<s, day>>] + Cardinality(Uncounted(s)) + Used
      BY DEF QuotaInv, CountedInv
    <3>2. count'[<<s, day>>] = count[<<s, day>>] /\ count[<<s, day>>] \in Nat
          /\ sms[s][day] \in Nat
      BY <1>2, <1>5, <2>1
    <3>. QED
      BY <1>3, <1>5, <3>1, <3>2
  <2>3. AllowedInv'
    <3> SUFFICES ASSUME NEW s \in Scopes, Limit(s) > 0, day \notin straddled
                 PROVE  sms[s][day] + Cardinality(Allowed(s)) <= Bound(s)'
      BY <1>1, <1>4, <1>7 DEF AllowedInv, Limit
    <3>1. sms[s][day] + Cardinality(Allowed(s)) <= Bound(s)
      BY DEF QuotaInv, AllowedInv
    <3>2. sms[s][day] \in Nat
      BY <1>2, <1>5
    <3>. QED
      BY <1>3, <1>5, <3>1, <3>2 DEF Bound
  <2>4. OtherDaysInv'
    BY <1>1, <1>7, OtherDaysKeep
  <2>5. ExpiryInv'
    <3> SUFFICES ASSUME NEW s \in Scopes, NEW d \in day..Days, d \notin straddled
                 PROVE  ttl'[<<s, d>>] >= d
      BY <1>1, <1>7 DEF ExpiryInv
    <3>1. d \in 1..Days
      BY <1>2
    <3>2. <<s, d>> \in Counted /\ ttl[<<s, d>>] >= d
      BY <3>1 DEF Counted, QuotaInv, ExpiryInv
    <3>3. ttl'[<<s, d>>] \in {ttl[<<s, d>>], Days}
      BY <1>1, <1>2, <1>7, <3>2
    <3>. QED
      BY <1>2, <3>1, <3>2, <3>3
  <2>. QED
    BY <2>2, <2>3, <2>4, <2>5 DEF QuotaInv
<1>. QED
  BY <1>1, <1>6, <1>7

LEMMA QuotaStep == TypeInv /\ QuotaInv /\ [Next]_vars => QuotaInv'
BY NextCases, BeginQuota, SmsQuota, QuietQuota, IncrQuota, ExpireQuota, RestQuota

\* The SMS that count for a user or for everybody on one day pass its limit by
\* no more than the workers sending beside the first and one for each failure,
\* unless a worker was between send and count over midnight.
THEOREM QuotaNearlySafe == Spec => []SmsQuotaNearlyHolds
<1>1. ASSUME TypeInv, QuotaInv
      PROVE  SmsQuotaNearlyHolds
  <2> SUFFICES ASSUME NEW s \in Scopes, NEW d \in (1..Days) \ straddled, Limit(s) > 0
               PROVE  sms[s][d] <= Bound(s)
    BY DEF SmsQuotaNearlyHolds, Bound, Used
  <2>1. day \in 1..Days /\ Days \in Nat
    BY <1>1, DispatchAssumption DEF TypeInv, Types
  <2>2. /\ \A e \in 1..Days : sms[s][e] \in Nat
        /\ Cardinality(Allowed(s)) \in Nat
        /\ Limit(s) \in Nat /\ Used \in Nat /\ Cardinality(Workers) \in Nat
    BY <1>1, QuotaTypes
  <2>3. sms[s][d] \in Nat /\ Bound(s) \in Nat
    BY <2>2 DEF Bound
  <2>4. CASE d = day
    <3>1. sms[s][d] + Cardinality(Allowed(s)) <= Bound(s)
      BY <1>1, <2>4 DEF QuotaInv, AllowedInv
    <3>. QED
      BY <2>2, <2>3, <3>1
  <2>5. CASE d \in 1..(day - 1)
    BY <1>1, <2>5 DEF QuotaInv, OtherDaysInv
  <2>6. CASE d \in (day + 1)..Days
    BY <1>1, <2>6, <2>3 DEF QuotaInv, OtherDaysInv
  <2>. QED
    BY <2>1, <2>4, <2>5, <2>6
<1>. QED
  BY <1>1, QuotaInit, TypeInit, TypeStep, QuotaStep, PTL DEF Spec

=============================================================================
