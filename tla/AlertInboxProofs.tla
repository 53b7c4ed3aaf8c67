-------------------------- MODULE AlertInboxProofs --------------------------
(***************************************************************************)
(* Theorems about AlertInbox, for any events, users, partitions and bounds.*)
(***************************************************************************)
EXTENDS AlertInbox, TLAPS, FiniteSetTheorems

USE InboxAssumption

-----------------------------------------------------------------------------
\* The labels, statuses and counters keep their types in every step: the
\* worker never has a message in hand that the partition does not hold.
InHandOK ==
    \A p \in Parts : /\ pos[p] <= Len(log[p])
                     /\ committed[p] <= pos[p]
                     /\ pc[p] # "idle" => pos[p] > 0

\* Exactly the worker about to insert holds the row lock, and what it read
\* is still the row's value.
LockOK ==
    \A p \in Parts : /\ pc[p] = "insert" <=> seqLock = p
                     /\ pc[p] = "insert" => next[p] = nextCursor

TypeInv == TypeOK /\ InHandOK /\ LockOK

LEMMA InitType == Init => TypeInv
<1> SUFFICES ASSUME Init PROVE TypeInv
  OBVIOUS
<1> USE DEF Init
<1>1. TypeOK
  BY DEF TypeOK, KafkaOK, WorkerOK, InboxOK, MarksOK, BudgetOK, Labels, FirstCursor
<1>2. InHandOK
  BY DEF InHandOK
<1>3. LockOK
  BY DEF LockOK
<1>. QED
  BY <1>1, <1>2, <1>3 DEF TypeInv

LEMMA InHandType ==
  ASSUME TypeInv, NEW p \in Parts, pc[p] # "idle"
  PROVE  /\ InHand(p) \in Message
         /\ Event(p) \in Events
         /\ RetryCount(InHand(p)) \in Nat
         /\ RetryMessage(InHand(p)) \in Message
<1>1. pos[p] \in 1..Len(log[p]) /\ log[p] \in Seq(Message)
  BY DEF TypeInv, TypeOK, KafkaOK, InHandOK
<1>2. InHand(p) \in Message
  BY <1>1 DEF InHand
<1>3. RetryCount(InHand(p)) \in Nat
  BY <1>2 DEF RetryCount, Message
<1>. QED
  BY <1>2, <1>3 DEF RetryMessage, Message, Event

LEMMA StepType == TypeInv /\ [Next]_vars => TypeInv'
<1> SUFFICES ASSUME TypeInv, [Next]_vars PROVE TypeInv'
  OBVIOUS
<1> USE DEF kafka, worker, inbox, client, budget, Goto, Fault, At
<1>a. KafkaOK /\ WorkerOK /\ InboxOK /\ MarksOK /\ BudgetOK /\ InHandOK /\ LockOK
  BY DEF TypeInv, TypeOK
<1>b. SUFFICES KafkaOK' /\ WorkerOK' /\ InboxOK' /\ MarksOK' /\ BudgetOK' /\ InHandOK' /\ LockOK'
  BY DEF TypeInv, TypeOK
<1>1. ASSUME NEW p \in AlertParts, NEW e \in Events, Emit(p, e)
      PROVE  KafkaOK' /\ WorkerOK' /\ InboxOK' /\ MarksOK' /\ BudgetOK' /\ InHandOK' /\ LockOK'
  <2>0. p \in Parts /\ [ev |-> e, hdr |-> <<>>] \in Message
    BY <1>1 DEF Parts, Message
  <2>1. WorkerOK' /\ InboxOK' /\ MarksOK'
    BY <1>1, <1>a DEF Emit, WorkerOK, InboxOK, MarksOK
  <2>2. KafkaOK'
    BY <1>1, <1>a, <2>0 DEF Emit, KafkaOK
  <2>3. BudgetOK'
    BY <1>1, <1>a, <2>0 DEF Emit, BudgetOK
  <2>4. InHandOK'
    BY <1>1, <1>a, <2>0 DEF Emit, InHandOK, KafkaOK, WorkerOK
  <2>5. LockOK'
    BY <1>1, <1>a DEF Emit, LockOK, WorkerOK
  <2>. QED  BY <2>1, <2>2, <2>3, <2>4, <2>5
<1>2. ASSUME NEW e \in Events, DeleteRule(e)
      PROVE  KafkaOK' /\ WorkerOK' /\ InboxOK' /\ MarksOK' /\ BudgetOK' /\ InHandOK' /\ LockOK'
  <2>1. KafkaOK' /\ WorkerOK' /\ InboxOK' /\ BudgetOK'
    BY <1>2, <1>a DEF DeleteRule, KafkaOK, WorkerOK, InboxOK, BudgetOK
  <2>2. MarksOK'
    BY <1>2, <1>a DEF DeleteRule, MarksOK
  <2>3. InHandOK'
    BY <1>2, <1>a DEF DeleteRule, InHandOK, KafkaOK, WorkerOK
  <2>4. LockOK'
    BY <1>2, <1>a DEF DeleteRule, LockOK, WorkerOK
  <2>. QED  BY <2>1, <2>2, <2>3, <2>4
<1>3. ASSUME NEW e \in Events, Age(e)
      PROVE  KafkaOK' /\ WorkerOK' /\ InboxOK' /\ MarksOK' /\ BudgetOK' /\ InHandOK' /\ LockOK'
  <2>1. KafkaOK' /\ WorkerOK' /\ InboxOK' /\ BudgetOK'
    BY <1>3, <1>a DEF Age, KafkaOK, WorkerOK, InboxOK, BudgetOK
  <2>2. MarksOK'
    BY <1>3, <1>a DEF Age, MarksOK
  <2>3. InHandOK'
    BY <1>3, <1>a DEF Age, InHandOK, KafkaOK, WorkerOK
  <2>4. LockOK'
    BY <1>3, <1>a DEF Age, LockOK, WorkerOK
  <2>. QED  BY <2>1, <2>2, <2>3, <2>4
<1>4. ASSUME NEW e \in Events, WsDeliver(e)
      PROVE  KafkaOK' /\ WorkerOK' /\ InboxOK' /\ MarksOK' /\ BudgetOK' /\ InHandOK' /\ LockOK'
  <2>1. KafkaOK' /\ WorkerOK' /\ InboxOK' /\ BudgetOK'
    BY <1>4, <1>a DEF WsDeliver, KafkaOK, WorkerOK, InboxOK, BudgetOK
  <2>2. MarksOK'
    BY <1>4, <1>a DEF WsDeliver, MarksOK
  <2>3. InHandOK'
    BY <1>4, <1>a DEF WsDeliver, InHandOK, KafkaOK, WorkerOK
  <2>4. LockOK'
    BY <1>4, <1>a DEF WsDeliver, LockOK, WorkerOK
  <2>. QED  BY <2>1, <2>2, <2>3, <2>4
<1>5. ASSUME NEW e \in Events, Ack(e)
      PROVE  KafkaOK' /\ WorkerOK' /\ InboxOK' /\ MarksOK' /\ BudgetOK' /\ InHandOK' /\ LockOK'
  <2>1. KafkaOK' /\ WorkerOK' /\ MarksOK' /\ BudgetOK'
    BY <1>5, <1>a DEF Ack, KafkaOK, WorkerOK, MarksOK, BudgetOK
  <2>2. InboxOK'
    BY <1>5, <1>a DEF Ack, InboxOK
  <2>3. InHandOK'
    BY <1>5, <1>a DEF Ack, InHandOK, KafkaOK, WorkerOK
  <2>4. LockOK'
    BY <1>5, <1>a DEF Ack, LockOK, WorkerOK
  <2>. QED  BY <2>1, <2>2, <2>3, <2>4
<1>6. ASSUME NEW u \in Users, Pull(u)
      PROVE  KafkaOK' /\ WorkerOK' /\ InboxOK' /\ MarksOK' /\ BudgetOK' /\ InHandOK' /\ LockOK'
  <2>1. KafkaOK' /\ WorkerOK' /\ InboxOK' /\ BudgetOK'
    BY <1>6, <1>a DEF Pull, KafkaOK, WorkerOK, InboxOK, BudgetOK
  <2>0. Page(u) \subseteq Events
    BY DEF Page, Pullable
  <2>2. MarksOK'
    BY <1>6, <1>a, <2>0 DEF Pull, MarksOK, InboxOK
  <2>3. InHandOK'
    BY <1>6, <1>a DEF Pull, InHandOK, KafkaOK, WorkerOK
  <2>4. LockOK'
    BY <1>6, <1>a DEF Pull, LockOK, WorkerOK
  <2>. QED  BY <2>1, <2>2, <2>3, <2>4
<1>7. ASSUME NEW p \in Parts, Fetch(p)
      PROVE  KafkaOK' /\ WorkerOK' /\ InboxOK' /\ MarksOK' /\ BudgetOK' /\ InHandOK' /\ LockOK'
  <2>1. InboxOK' /\ MarksOK' /\ BudgetOK'
    BY <1>7, <1>a DEF Fetch, InboxOK, MarksOK, BudgetOK
  <2>2. KafkaOK'
    BY <1>7, <1>a DEF Fetch, KafkaOK
  <2>3. WorkerOK'
    BY <1>7, <1>a DEF Fetch, WorkerOK, Labels
  <2>4. InHandOK'
    BY <1>7, <1>a DEF Fetch, InHandOK, KafkaOK, WorkerOK
  <2>5. LockOK'
    BY <1>7, <1>a DEF Fetch, LockOK, WorkerOK
  <2>. QED  BY <2>1, <2>2, <2>3, <2>4, <2>5
<1>8. ASSUME NEW p \in Parts, Lookup(p)
      PROVE  KafkaOK' /\ WorkerOK' /\ InboxOK' /\ MarksOK' /\ BudgetOK' /\ InHandOK' /\ LockOK'
  <2>1. KafkaOK' /\ InboxOK' /\ MarksOK'
    BY <1>8, <1>a DEF Lookup, KafkaOK, InboxOK, MarksOK
  <2>2. WorkerOK'
    BY <1>8, <1>a DEF Lookup, WorkerOK, Labels
  <2>3. BudgetOK'
    BY <1>8, <1>a DEF Lookup, BudgetOK
  <2>4. InHandOK'
    BY <1>8, <1>a DEF Lookup, InHandOK, KafkaOK, WorkerOK
  <2>5. LockOK'
    BY <1>8, <1>a DEF Lookup, LockOK, WorkerOK
  <2>. QED  BY <2>1, <2>2, <2>3, <2>4, <2>5
<1>9. ASSUME NEW p \in Parts, LockCursor(p)
      PROVE  KafkaOK' /\ WorkerOK' /\ InboxOK' /\ MarksOK' /\ BudgetOK' /\ InHandOK' /\ LockOK'
  <2>1. KafkaOK' /\ InboxOK' /\ MarksOK'
    BY <1>9, <1>a DEF LockCursor, KafkaOK, InboxOK, MarksOK
  <2>2. WorkerOK'
    BY <1>9, <1>a DEF LockCursor, WorkerOK, Labels, LockFree, InboxOK
  <2>3. BudgetOK'
    BY <1>9, <1>a DEF LockCursor, BudgetOK
  <2>4. InHandOK'
    BY <1>9, <1>a DEF LockCursor, InHandOK, KafkaOK, WorkerOK
  <2>5. LockOK'
    BY <1>9, <1>a DEF LockCursor, LockFree, LockOK, WorkerOK
  <2>. QED  BY <2>1, <2>2, <2>3, <2>4, <2>5
<1>10. ASSUME NEW p \in Parts, CommitInsert(p)
      PROVE  KafkaOK' /\ WorkerOK' /\ InboxOK' /\ MarksOK' /\ BudgetOK' /\ InHandOK' /\ LockOK'
  <2>0. Event(p) \in Events /\ RetryMessage(InHand(p)) \in Message
    BY <1>10, InHandType DEF CommitInsert
  <2>1. KafkaOK' /\ MarksOK'
    BY <1>10, <1>a DEF CommitInsert, KafkaOK, MarksOK
  <2>2. WorkerOK'
    BY <1>10, <1>a, <2>0 DEF CommitInsert, WorkerOK, Labels
  <2>3. InboxOK'
    BY <1>10, <1>a, <2>0 DEF CommitInsert, InboxOK, StoreRecord, LockOK
  <2>4. BudgetOK'
    BY <1>10, <1>a, <2>0 DEF CommitInsert, BudgetOK
  <2>5. InHandOK'
    BY <1>10, <1>a, <2>0 DEF CommitInsert, InHandOK, KafkaOK, WorkerOK
  <2>6. LockOK'
    BY <1>10, <1>a DEF CommitInsert, StoreRecord, LockOK, WorkerOK
  <2>. QED  BY <2>1, <2>2, <2>3, <2>4, <2>5, <2>6
<1>11. ASSUME NEW p \in Parts, Notify(p)
      PROVE  KafkaOK' /\ WorkerOK' /\ InboxOK' /\ MarksOK' /\ BudgetOK' /\ InHandOK' /\ LockOK'
  <2>0. Event(p) \in Events /\ RetryMessage(InHand(p)) \in Message
    BY <1>11, InHandType DEF Notify
  <2>1. KafkaOK' /\ InboxOK' /\ BudgetOK'
    BY <1>11, <1>a DEF Notify, KafkaOK, InboxOK, BudgetOK
  <2>2. WorkerOK'
    BY <1>11, <1>a, <2>0 DEF Notify, WorkerOK, Labels
  <2>3. MarksOK'
    BY <1>11, <1>a, <2>0 DEF Notify, MarksOK
  <2>4. InHandOK'
    BY <1>11, <1>a, <2>0 DEF Notify, InHandOK, KafkaOK, WorkerOK
  <2>5. LockOK'
    BY <1>11, <1>a DEF Notify, LockOK, WorkerOK
  <2>. QED  BY <2>1, <2>2, <2>3, <2>4, <2>5
<1>12. ASSUME NEW p \in Parts, Route(p)
      PROVE  KafkaOK' /\ WorkerOK' /\ InboxOK' /\ MarksOK' /\ BudgetOK' /\ InHandOK' /\ LockOK'
  <2>1. KafkaOK' /\ InboxOK' /\ MarksOK'
    BY <1>12, <1>a DEF Route, KafkaOK, InboxOK, MarksOK
  <2>2. WorkerOK'
    BY <1>12, <1>a DEF Route, WorkerOK, Labels
  <2>3. BudgetOK'
    BY <1>12, <1>a DEF Route, BudgetOK
  <2>4. InHandOK'
    BY <1>12, <1>a DEF Route, InHandOK, KafkaOK, WorkerOK
  <2>5. LockOK'
    BY <1>12, <1>a DEF Route, LockOK, WorkerOK
  <2>. QED  BY <2>1, <2>2, <2>3, <2>4, <2>5
<1>13. ASSUME NEW p \in Parts, Publish(p)
      PROVE  KafkaOK' /\ WorkerOK' /\ InboxOK' /\ MarksOK' /\ BudgetOK' /\ InHandOK' /\ LockOK'
  <2>0. Event(p) \in Events /\ RetryMessage(InHand(p)) \in Message
    BY <1>13, InHandType DEF Publish
  <2>1. KafkaOK' /\ InboxOK'
    BY <1>13, <1>a DEF Publish, KafkaOK, InboxOK
  <2>2. WorkerOK'
    BY <1>13, <1>a, <2>0 DEF Publish, WorkerOK, Labels
  <2>3. MarksOK'
    BY <1>13, <1>a, <2>0 DEF Publish, MarksOK
  <2>4. BudgetOK'
    BY <1>13, <1>a, <2>0 DEF Publish, BudgetOK
  <2>5. InHandOK'
    BY <1>13, <1>a, <2>0 DEF Publish, InHandOK, KafkaOK, WorkerOK
  <2>6. LockOK'
    BY <1>13, <1>a DEF Publish, LockOK, WorkerOK
  <2>. QED  BY <2>1, <2>2, <2>3, <2>4, <2>5, <2>6
<1>14. ASSUME NEW p \in Parts, MarkSent(p)
      PROVE  KafkaOK' /\ WorkerOK' /\ InboxOK' /\ MarksOK' /\ BudgetOK' /\ InHandOK' /\ LockOK'
  <2>0. Event(p) \in Events /\ RetryMessage(InHand(p)) \in Message
    BY <1>14, InHandType DEF MarkSent
  <2>1. KafkaOK' /\ MarksOK'
    BY <1>14, <1>a DEF MarkSent, KafkaOK, MarksOK
  <2>2. WorkerOK'
    BY <1>14, <1>a, <2>0 DEF MarkSent, WorkerOK, Labels
  <2>3. InboxOK'
    BY <1>14, <1>a, <2>0 DEF MarkSent, InboxOK, Sent
  <2>4. BudgetOK'
    BY <1>14, <1>a, <2>0 DEF MarkSent, BudgetOK
  <2>5. InHandOK'
    BY <1>14, <1>a, <2>0 DEF MarkSent, InHandOK, KafkaOK, WorkerOK
  <2>6. LockOK'
    BY <1>14, <1>a DEF MarkSent, LockOK, WorkerOK
  <2>. QED  BY <2>1, <2>2, <2>3, <2>4, <2>5, <2>6
<1>15. ASSUME NEW p \in Parts, Fail(p)
      PROVE  KafkaOK' /\ WorkerOK' /\ InboxOK' /\ MarksOK' /\ BudgetOK' /\ InHandOK' /\ LockOK'
  <2>0. Event(p) \in Events /\ RetryMessage(InHand(p)) \in Message
    BY <1>15, InHandType DEF Fail
  <2>1. InboxOK'
    BY <1>15, <1>a DEF Fail, InboxOK
  <2>2. KafkaOK'
    <3>1. ASSUME NEW q \in RetryParts,
                 log' = [log EXCEPT ![q] = Append(@, RetryMessage(InHand(p)))]
          PROVE  log' \in [Parts -> Seq(Message)]
      BY <3>1, <1>a, <2>0 DEF KafkaOK, Parts
    <3>2. log' \in [Parts -> Seq(Message)]
      BY <1>15, <1>a, <3>1 DEF Fail, KafkaOK
    <3>. QED  BY <1>15, <1>a, <3>2 DEF Fail, KafkaOK
  <2>3. WorkerOK'
    BY <1>15, <1>a, <2>0 DEF Fail, WorkerOK, Labels
  <2>4. MarksOK'
    BY <1>15, <1>a, <2>0 DEF Fail, MarksOK
  <2>5. BudgetOK'
    BY <1>15, <1>a, <2>0 DEF Fail, BudgetOK
  <2>6. InHandOK'
    <3>1. ASSUME NEW r \in RetryParts, NEW q \in Parts,
                 log' = [log EXCEPT ![r] = Append(@, RetryMessage(InHand(p)))]
          PROVE  Len(log'[q]) >= Len(log[q])
      <4>1. log \in [Parts -> Seq(Message)] /\ r \in Parts
        BY <1>a, <3>1 DEF KafkaOK, Parts
      <4>2. log[q] \in Seq(Message) /\ Len(log[q]) \in Nat
        BY <4>1
      <4>3. CASE q = r
        <5>1. log'[q] = Append(log[q], RetryMessage(InHand(p)))
          BY <3>1, <4>1, <4>3
        <5>. QED  BY <5>1, <4>2, <2>0
      <4>4. CASE q # r
        BY <3>1, <4>1, <4>2, <4>4
      <4>. QED  BY <4>3, <4>4
    <3>2. ASSUME NEW q \in Parts, UNCHANGED log
          PROVE  Len(log'[q]) >= Len(log[q])
      BY <3>2, <1>a DEF KafkaOK
    <3>3. \A q \in Parts : Len(log'[q]) >= Len(log[q])
      BY <1>15, <3>1, <3>2 DEF Fail
    <3>4. \A q \in Parts : Len(log[q]) \in Nat /\ Len(log'[q]) \in Nat
      BY <1>a, <2>2 DEF KafkaOK
    <3>5. /\ UNCHANGED <<pos, committed>>
          /\ \A q \in Parts : pc'[q] # "idle" => pc[q] # "idle"
      BY <1>15, <1>a DEF Fail, WorkerOK
    <3>. QED  BY <1>a, <3>3, <3>4, <3>5 DEF InHandOK, KafkaOK
  <2>7. LockOK'
    BY <1>15, <1>a DEF Fail, LockOK, WorkerOK
  <2>. QED  BY <2>1, <2>2, <2>3, <2>4, <2>5, <2>6, <2>7
<1>16. ASSUME NEW p \in Parts, CommitOffset(p)
      PROVE  KafkaOK' /\ WorkerOK' /\ InboxOK' /\ MarksOK' /\ BudgetOK' /\ InHandOK' /\ LockOK'
  <2>1. InboxOK' /\ MarksOK'
    BY <1>16, <1>a DEF CommitOffset, InboxOK, MarksOK
  <2>2. KafkaOK'
    BY <1>16, <1>a DEF CommitOffset, KafkaOK
  <2>3. WorkerOK'
    BY <1>16, <1>a DEF CommitOffset, WorkerOK, Labels
  <2>4. BudgetOK'
    BY <1>16, <1>a DEF CommitOffset, BudgetOK
  <2>5. InHandOK'
    BY <1>16, <1>a DEF CommitOffset, InHandOK, KafkaOK, WorkerOK
  <2>6. LockOK'
    BY <1>16, <1>a DEF CommitOffset, LockOK, WorkerOK
  <2>. QED  BY <2>1, <2>2, <2>3, <2>4, <2>5, <2>6
<1>17. ASSUME NEW p \in Parts, Crash(p)
      PROVE  KafkaOK' /\ WorkerOK' /\ InboxOK' /\ MarksOK' /\ BudgetOK' /\ InHandOK' /\ LockOK'
  <2>1. InboxOK' /\ MarksOK'
    BY <1>17, <1>a DEF Crash, InboxOK, MarksOK
  <2>2. KafkaOK'
    BY <1>17, <1>a DEF Crash, KafkaOK
  <2>3. WorkerOK'
    BY <1>17, <1>a DEF Crash, WorkerOK, Labels
  <2>4. BudgetOK'
    BY <1>17, <1>a DEF Crash, BudgetOK
  <2>5. InHandOK'
    BY <1>17, <1>a DEF Crash, InHandOK, KafkaOK, WorkerOK
  <2>6. LockOK'
    BY <1>17, <1>a DEF Crash, LockOK, WorkerOK
  <2>. QED  BY <2>1, <2>2, <2>3, <2>4, <2>5, <2>6
<1>18. ASSUME ExpireStale
      PROVE  KafkaOK' /\ WorkerOK' /\ InboxOK' /\ MarksOK' /\ BudgetOK' /\ InHandOK' /\ LockOK'
  <2>1. KafkaOK' /\ WorkerOK' /\ MarksOK' /\ BudgetOK'
    BY <1>18, <1>a DEF ExpireStale, KafkaOK, WorkerOK, MarksOK, BudgetOK
  <2>2. InboxOK'
    BY <1>18, <1>a DEF ExpireStale, InboxOK, Expirable
  <2>3. InHandOK'
    BY <1>18, <1>a DEF ExpireStale, InHandOK, KafkaOK, WorkerOK
  <2>4. LockOK'
    BY <1>18, <1>a DEF ExpireStale, LockOK, WorkerOK
  <2>. QED  BY <2>1, <2>2, <2>3, <2>4
<1>19. CASE UNCHANGED vars
  BY <1>19, <1>a DEF vars, KafkaOK, WorkerOK, InboxOK, MarksOK, BudgetOK, InHandOK, LockOK
<1>. QED
  BY <1>1, <1>2, <1>3, <1>4, <1>5, <1>6, <1>7, <1>8, <1>9, <1>10, <1>11, <1>12, <1>13, <1>14, <1>15, <1>16, <1>17, <1>18, <1>19 DEF Next, Work

\* Type correctness (TypeOK): in every run, whatever fails or crashes.
THEOREM TypeCorrect == Spec => []TypeOK
<1>1. Init => TypeInv
  BY InitType
<1>2. TypeInv /\ [Next]_vars => TypeInv'
  BY StepType
<1>3. TypeInv => TypeOK
  BY DEF TypeInv
<1>. QED
  BY <1>1, <1>2, <1>3, PTL DEF Spec
-----------------------------------------------------------------------------
(* The safety properties, each from an inductive invariant of its own above *)
(* TypeInv.                                                                *)

LEMMA TypeAlways == Spec => []TypeInv
<1>1. Init => TypeInv
  BY InitType
<1>2. TypeInv /\ [Next]_vars => TypeInv'
  BY StepType
<1>. QED
  BY <1>1, <1>2, PTL DEF Spec

\* The message in hand stays the same as long as its worker does not move.
LEMMA SameEvent ==
  ASSUME TypeInv, NEW p \in Parts, pc[p] # "idle", pos'[p] = pos[p],
         \/ log' = log
         \/ \E q \in Parts, m \in Message : log' = [log EXCEPT ![q] = Append(@, m)]
  PROVE  Event(p)' = Event(p)
<1>1. pos[p] \in 1..Len(log[p]) /\ log[p] \in Seq(Message) /\ log \in [Parts -> Seq(Message)]
  BY DEF TypeInv, TypeOK, KafkaOK, InHandOK
<1>2. CASE log' = log
  BY <1>2 DEF Event, InHand
<1>3. ASSUME NEW q \in Parts, NEW m \in Message, log' = [log EXCEPT ![q] = Append(@, m)]
      PROVE  log'[p][pos[p]] = log[p][pos[p]]
  <2>1. CASE q = p
    BY <1>1, <1>3, <2>1
  <2>2. CASE q # p
    BY <1>1, <1>3, <2>2
  <2>. QED  BY <2>1, <2>2
<1>. QED
  BY <1>2, <1>3 DEF Event, InHand
-----------------------------------------------------------------------------
(* Cursors: a row is stored with the value of alert_cursor_seq, which is   *)
(* beyond every cursor given out and beyond where any client pulls from.   *)

CursorInv ==
    /\ \A e \in Events : status[e] # "NONE" => cursor[e] \in 1..(nextCursor - 1)
    /\ \A u \in Users : at[u] < nextCursor
    /\ CursorsDistinct
    /\ PullSkipsNothing

\* A step that gives out no cursor and moves no client's.
LEMMA QuietCursors ==
  ASSUME CursorInv, UNCHANGED <<nextCursor, cursor, at>>,
         seen \subseteq seen', stale \subseteq stale',
         \A e \in Events : status'[e] # "NONE" => status[e] # "NONE",
         \A e \in Events : status'[e] \in Open => status[e] \in Open
  PROVE  CursorInv'
<1>1. /\ \A e \in Events : status'[e] # "NONE" => cursor'[e] \in 1..(nextCursor' - 1)
      /\ \A u \in Users : at'[u] < nextCursor'
  BY DEF CursorInv
<1>2. CursorsDistinct'
  BY DEF CursorInv, CursorsDistinct
<1>3. PullSkipsNothing'
  BY DEF CursorInv, PullSkipsNothing
<1>. QED
  BY <1>1, <1>2, <1>3 DEF CursorInv

\* The page of a pull is closed downwards: a pullable row below the last one
\* of the page is on the page too.
LEMMA PageClosed ==
  ASSUME TypeInv, NEW u \in Users, NEW last \in Page(u), NEW e \in Pullable(u),
         cursor[e] <= cursor[last]
  PROVE  e \in Page(u)
<1> DEFINE Below(x) == {f \in Pullable(u) : cursor[f] < cursor[x]}
<1>1. Pullable(u) \subseteq Events /\ last \in Pullable(u)
  BY DEF Pullable, Page
<1>2. cursor \in [Events -> Nat]
  BY DEF TypeInv, TypeOK, InboxOK
<1>3. Below(e) \subseteq Below(last)
  BY <1>1, <1>2
<1>4. IsFiniteSet(Below(last))
  <2>1. Below(last) \subseteq Events
    BY <1>1
  <2>. QED  BY <2>1, FS_Subset
<1>5. /\ Cardinality(Below(e)) <= Cardinality(Below(last))
      /\ Cardinality(Below(e)) \in Nat /\ Cardinality(Below(last)) \in Nat
  <2>1. IsFiniteSet(Below(e))
    BY <1>3, <1>4, FS_Subset
  <2>. QED  BY <1>3, <1>4, <2>1, FS_Subset, FS_CardinalityType
<1>6. Cardinality(Below(last)) < PullLimit
  BY DEF Page
<1>7. Cardinality(Below(e)) < PullLimit
  <2> HIDE DEF Below
  <2>. QED  BY <1>5, <1>6
<1>. QED
  BY <1>7 DEF Page

LEMMA StepCursors == TypeInv /\ CursorInv /\ [Next]_vars => CursorInv'
<1> SUFFICES ASSUME TypeInv, CursorInv, [Next]_vars PROVE CursorInv'
  OBVIOUS
<1> USE DEF kafka, worker, inbox, client, budget
<1>a. InboxOK /\ MarksOK /\ LockOK
  BY DEF TypeInv, TypeOK
<1>b. status \in [Events -> {"NONE", "PENDING", "SENT", "ACKED", "EXPIRED"}]
  BY <1>a DEF InboxOK
<1>1. ASSUME UNCHANGED <<inbox, client, stale>> PROVE CursorInv'
  BY <1>1, QuietCursors
<1>2. ASSUME NEW e \in Events, Age(e) \/ WsDeliver(e) PROVE CursorInv'
  BY <1>2, QuietCursors DEF Age, WsDeliver
<1>3. ASSUME NEW e \in Events, Ack(e) PROVE CursorInv'
  <2>1. /\ \A f \in Events : status'[f] # "NONE" => status[f] # "NONE"
        /\ \A f \in Events : status'[f] \in Open => status[f] \in Open
    BY <1>3, <1>b DEF Ack, Open
  <2>. QED  BY <1>3, <2>1, QuietCursors DEF Ack
<1>4. ASSUME ExpireStale PROVE CursorInv'
  <2>1. /\ \A f \in Events : status'[f] # "NONE" => status[f] # "NONE"
        /\ \A f \in Events : status'[f] \in Open => status[f] \in Open
    BY <1>4, <1>b DEF ExpireStale, Expirable, Open
  <2>. QED  BY <1>4, <2>1, QuietCursors DEF ExpireStale
<1>5. ASSUME NEW p \in Parts, MarkSent(p) PROVE CursorInv'
  <2>1. Event(p) \in Events
    BY <1>5, InHandType DEF MarkSent, At
  <2>2. /\ \A f \in Events : status'[f] # "NONE" => status[f] # "NONE"
        /\ \A f \in Events : status'[f] \in Open => status[f] \in Open
    BY <1>5, <1>b, <2>1 DEF MarkSent, Sent, Open
  <2>. QED  BY <1>5, <2>2, QuietCursors DEF MarkSent
<1>6. ASSUME NEW p \in Parts, CommitInsert(p) PROVE CursorInv'
  <2>1. Event(p) \in Events
    BY <1>6, InHandType DEF CommitInsert, At
  <2>2. next[p] = nextCursor /\ nextCursor \in Nat \ {0}
    BY <1>6, <1>a DEF CommitInsert, At, LockOK, InboxOK
  <2>3. CASE UNCHANGED inbox
    BY <1>6, <2>3, QuietCursors DEF CommitInsert
  <2>4. CASE StoreRecord(p) /\ status[Event(p)] # "NONE"
    BY <1>6, <2>2, <2>4, QuietCursors DEF CommitInsert, StoreRecord
  <2>5. CASE StoreRecord(p) /\ status[Event(p)] = "NONE"
    <3>1. /\ status' = [status EXCEPT ![Event(p)] = "PENDING"]
          /\ cursor' = [cursor EXCEPT ![Event(p)] = nextCursor]
          /\ nextCursor' = nextCursor + 1
          /\ UNCHANGED <<seen, at, stale>>
      BY <1>6, <2>2, <2>5 DEF CommitInsert, StoreRecord
    <3>2. cursor \in [Events -> Nat] /\ at \in [Users -> Nat]
      BY <1>a DEF InboxOK, MarksOK
    <3>3. /\ \A e \in Events : status'[e] # "NONE" => cursor'[e] \in 1..(nextCursor' - 1)
          /\ \A u \in Users : at'[u] < nextCursor'
      BY <1>b, <2>1, <2>2, <3>1, <3>2 DEF CursorInv
    <3>4. CursorsDistinct'
      BY <1>b, <2>1, <2>2, <3>1, <3>2 DEF CursorInv, CursorsDistinct
    <3>5. PullSkipsNothing'
      BY <1>b, <2>1, <2>2, <3>1, <3>2 DEF CursorInv, PullSkipsNothing
    <3>. QED  BY <3>3, <3>4, <3>5 DEF CursorInv
  <2>. QED  BY <1>6, <2>3, <2>4, <2>5 DEF CommitInsert
<1>7. ASSUME NEW u \in Users, Pull(u) PROVE CursorInv'
  <2>1. cursor \in [Events -> Nat] /\ at \in [Users -> Nat] /\ nextCursor \in Nat \ {0}
    BY <1>a DEF InboxOK, MarksOK
  <2>2. Page(u) \subseteq Pullable(u) /\ Pullable(u) \subseteq Events
    BY DEF Page, Pullable
  <2>3. UNCHANGED <<inbox, stale>> /\ seen' = seen \cup Page(u)
    BY <1>7 DEF Pull
  <2>4. /\ at' \in [Users -> Nat]
        /\ \A v \in Users : v # u => at'[v] = at[v]
        /\ at'[u] \in {0, at[u]} \/ \E last \in Page(u) : at'[u] = cursor[last]
    BY <1>7, <2>1, <2>2 DEF Pull
  <2>5. \A v \in Users : at'[v] < nextCursor'
    BY <2>1, <2>2, <2>3, <2>4 DEF CursorInv, Pullable, Open
  <2>6. ASSUME NEW e \in Events, status'[e] \in Open, e \notin stale',
               cursor'[e] <= at'[OwnerOf[e]]
        PROVE  e \in seen'
    <3>1. CASE cursor[e] <= at[OwnerOf[e]]
      BY <2>3, <2>6, <3>1 DEF CursorInv, PullSkipsNothing
    <3>2. CASE ~(cursor[e] <= at[OwnerOf[e]])
      <4>1. OwnerOf[e] = u
        BY <2>3, <2>4, <2>6, <3>2
      <4>2. e \in Pullable(u)
        BY <2>1, <2>3, <2>6, <3>2, <4>1 DEF Pullable
      <4>3. cursor[e] # 0
        BY <2>1, <3>2, <4>1
      <4>4. PICK last \in Page(u) : at'[u] = cursor[last]
        BY <2>1, <2>3, <2>4, <2>6, <3>2, <4>1, <4>3
      <4>5. e \in Page(u)
        BY <2>3, <2>6, <4>1, <4>2, <4>4, PageClosed
      <4>. QED  BY <2>3, <4>5
    <3>. QED  BY <3>1, <3>2
  <2>. QED  BY <2>3, <2>5, <2>6 DEF CursorInv, CursorsDistinct, PullSkipsNothing
<1>8. CASE UNCHANGED vars
  BY <1>1, <1>8 DEF vars
<1>. QED
  BY <1>1, <1>2, <1>3, <1>4, <1>5, <1>6, <1>7, <1>8
     DEF Next, Work, Emit, DeleteRule, Fetch, Lookup, LockCursor, Notify, Route,
         Publish, Fail, CommitOffset, Crash

\* No two rows share a cursor id, and a pulling client skips no row that is
\* still open, for any number of users, partitions, faults and crashes.
THEOREM CursorsSafe == Spec => [](CursorsDistinct /\ PullSkipsNothing)
<1>1. Init => CursorInv
  BY DEF Init, CursorInv, CursorsDistinct, PullSkipsNothing, Open, FirstCursor
<1>2. TypeInv /\ CursorInv /\ [Next]_vars => CursorInv'
  BY StepCursors
<1>3. CursorInv => CursorsDistinct /\ PullSkipsNothing
  BY DEF CursorInv
<1>. QED
  BY <1>1, <1>2, <1>3, TypeAlways, PTL DEF Spec
-----------------------------------------------------------------------------
(* Status: a worker about to mark a delivery SENT has written it.          *)

StatusInv ==
    /\ StatusIsTrue
    /\ \A p \in Parts : pc[p] = "mark" => Event(p) \in pushed

\* A step that moves no row and leaves what the workers hold where it is.
LEMMA QuietStatus ==
  ASSUME TypeInv, StatusInv, UNCHANGED status,
         pushed \subseteq pushed', seen \subseteq seen',
         \A p \in Parts : pc'[p] = "mark" =>
             pc[p] = "mark" /\ Event(p)' = Event(p)
  PROVE  StatusInv'
BY DEF StatusInv, StatusIsTrue

LEMMA StepStatus == TypeInv /\ StatusInv /\ [Next]_vars => StatusInv'
<1> SUFFICES ASSUME TypeInv, StatusInv, [Next]_vars PROVE StatusInv'
  OBVIOUS
<1> USE DEF kafka, worker, inbox, client, budget, At, Goto
<1>a. KafkaOK /\ WorkerOK /\ InboxOK /\ MarksOK
  BY DEF TypeInv, TypeOK
<1>b. /\ status \in [Events -> {"NONE", "PENDING", "SENT", "ACKED", "EXPIRED"}]
      /\ pc \in [Parts -> Labels]
      /\ pos \in [Parts -> Nat]
  BY <1>a DEF InboxOK, WorkerOK, KafkaOK
<1>c. ASSUME NEW p \in Parts, pc[p] # "idle", UNCHANGED <<log, pos>>
      PROVE  Event(p)' = Event(p)
  BY <1>c DEF Event, InHand
<1>d. ASSUME UNCHANGED <<log, pos, pc>>
      PROVE  \A p \in Parts : pc'[p] = "mark" => pc[p] = "mark" /\ Event(p)' = Event(p)
  BY <1>c, <1>d
<1>1. ASSUME NEW p \in AlertParts, NEW e \in Events, Emit(p, e) PROVE StatusInv'
  <2>1. p \in Parts /\ [ev |-> e, hdr |-> <<>>] \in Message
    BY <1>1 DEF Parts, Message
  <2>2. \A q \in Parts : pc'[q] = "mark" => pc[q] = "mark" /\ Event(q)' = Event(q)
    BY <1>1, <2>1, SameEvent DEF Emit
  <2>. QED  BY <1>1, <2>2, QuietStatus DEF Emit
<1>2. ASSUME NEW e \in Events, DeleteRule(e) \/ Age(e) \/ WsDeliver(e) PROVE StatusInv'
  BY <1>2, <1>d, QuietStatus DEF DeleteRule, Age, WsDeliver
<1>3. ASSUME NEW e \in Events, Ack(e) PROVE StatusInv'
  BY <1>3, <1>b, <1>d DEF Ack, StatusInv, StatusIsTrue
<1>4. ASSUME NEW u \in Users, Pull(u) PROVE StatusInv'
  BY <1>4, <1>d, QuietStatus DEF Pull
<1>5. ASSUME ExpireStale PROVE StatusInv'
  BY <1>5, <1>b, <1>d DEF ExpireStale, StatusInv, StatusIsTrue
<1>6. ASSUME NEW p \in Parts, Fetch(p) PROVE StatusInv'
  <2>1. \A q \in Parts : pc'[q] = "mark" => pc[q] = "mark" /\ Event(q)' = Event(q)
    BY <1>6, <1>b DEF Fetch, Event, InHand
  <2>. QED  BY <1>6, <2>1, QuietStatus DEF Fetch
<1>7. ASSUME NEW p \in Parts,
             Lookup(p) \/ LockCursor(p) \/ Notify(p) \/ Route(p) \/ CommitOffset(p)
      PROVE  StatusInv'
  <2>1. \A q \in Parts : pc'[q] = "mark" => pc[q] = "mark" /\ Event(q)' = Event(q)
    BY <1>7, <1>b, <1>c DEF Lookup, LockCursor, Notify, Route, CommitOffset
  <2>. QED
    BY <1>7, <2>1, QuietStatus DEF Lookup, LockCursor, Notify, Route, CommitOffset
<1>8. ASSUME NEW p \in Parts, CommitInsert(p) PROVE StatusInv'
  <2>1. \A q \in Parts : pc'[q] = "mark" => pc[q] = "mark" /\ Event(q)' = Event(q)
    BY <1>8, <1>b, <1>c DEF CommitInsert
  <2>2. CASE UNCHANGED status
    BY <1>8, <2>1, <2>2, QuietStatus DEF CommitInsert
  <2>3. CASE status' = [status EXCEPT ![Event(p)] = "PENDING"]
    BY <1>8, <1>b, <2>1, <2>3 DEF CommitInsert, StatusInv, StatusIsTrue
  <2>. QED  BY <1>8, <2>2, <2>3 DEF CommitInsert, StoreRecord
<1>9. ASSUME NEW p \in Parts, Publish(p) PROVE StatusInv'
  <2>1. \A q \in Parts : pc'[q] = "mark" =>
            \/ pc[q] = "mark" /\ Event(q)' = Event(q)
            \/ q = p /\ Event(q)' = Event(p) /\ pushed' = pushed \cup {Event(p)}
    BY <1>9, <1>b, <1>c DEF Publish
  <2>2. UNCHANGED <<status, seen>> /\ pushed \subseteq pushed'
    BY <1>9 DEF Publish
  <2>. QED  BY <2>1, <2>2 DEF StatusInv, StatusIsTrue
<1>10. ASSUME NEW p \in Parts, MarkSent(p) PROVE StatusInv'
  <2>1. Event(p) \in pushed
    BY <1>10 DEF MarkSent, StatusInv
  <2>2. \A q \in Parts : pc'[q] = "mark" => pc[q] = "mark" /\ Event(q)' = Event(q)
    BY <1>10, <1>b, <1>c DEF MarkSent
  <2>3. UNCHANGED <<pushed, seen>> /\ (UNCHANGED status \/ Sent(Event(p)))
    BY <1>10 DEF MarkSent
  <2>4. CASE UNCHANGED status
    BY <2>2, <2>3, <2>4, QuietStatus
  <2>5. CASE Sent(Event(p))
    BY <1>b, <2>1, <2>2, <2>3, <2>5 DEF Sent, StatusInv, StatusIsTrue
  <2>. QED  BY <2>3, <2>4, <2>5
<1>11. ASSUME NEW p \in Parts, Fail(p) PROVE StatusInv'
  <2>1. RetryMessage(InHand(p)) \in Message
    BY <1>11, InHandType DEF Fail
  <2>2. \A q \in Parts : pc'[q] = "mark" => pc[q] = "mark"
    BY <1>11, <1>b DEF Fail
  <2>3. \A q \in Parts : pc[q] = "mark" => Event(q)' = Event(q)
    BY <1>11, <1>b, <2>1, SameEvent DEF Fail, Parts
  <2>. QED  BY <1>11, <2>2, <2>3, QuietStatus DEF Fail
<1>12. ASSUME NEW p \in Parts, Crash(p) PROVE StatusInv'
  <2>1. \A q \in Parts : pc'[q] = "mark" => pc[q] = "mark" /\ Event(q)' = Event(q)
    BY <1>12, <1>b DEF Crash, Event, InHand
  <2>. QED  BY <1>12, <2>1, QuietStatus DEF Crash
<1>13. CASE UNCHANGED vars
  BY <1>13, <1>d, QuietStatus DEF vars
<1>. QED
  BY <1>1, <1>2, <1>3, <1>4, <1>5, <1>6, <1>7, <1>8, <1>9, <1>10, <1>11, <1>12,
     <1>13 DEF Next, Work

\* SENT rows are in ws_push and ACKED rows are with the client, in every run.
THEOREM StatusSafe == Spec => []StatusIsTrue
<1>1. Init => StatusInv
  BY DEF Init, StatusInv, StatusIsTrue
<1>2. TypeInv /\ StatusInv /\ [Next]_vars => StatusInv'
  BY StepStatus
<1>3. StatusInv => StatusIsTrue
  BY DEF StatusInv
<1>. QED
  BY <1>1, <1>2, <1>3, TypeAlways, PTL DEF Spec
-----------------------------------------------------------------------------
(* Refinement: every step of the inbox moves a row as the domain package's *)
(* state machine allows, or moves none.                                    *)

LEMMA StepDelivery == TypeInv /\ [Next]_vars => [Delivery!Next]_status
<1> SUFFICES ASSUME TypeInv, [Next]_vars PROVE Delivery!Next \/ UNCHANGED status
  OBVIOUS
<1> USE DEF kafka, worker, inbox, client, budget
<1>b. status \in [Events -> {"NONE", "PENDING", "SENT", "ACKED", "EXPIRED"}]
  BY DEF TypeInv, TypeOK, InboxOK
<1>1. ASSUME NEW e \in Events, Ack(e) PROVE Delivery!Next
  <2>1. Delivery!Move(e, "ACKED")
    BY <1>1, <1>b DEF Ack, Open, Delivery!Move, Delivery!CanTransition
  <2>. QED  BY <2>1 DEF Delivery!Next, Delivery!Statuses
<1>2. ASSUME ExpireStale PROVE Delivery!Next \/ UNCHANGED status
  <2>1. CASE Expirable \in SUBSET Events
    <3>1. Delivery!ExpireAll(Expirable)
      BY <1>2, <1>b DEF ExpireStale, Expirable, Open, Delivery!ExpireAll, Delivery!CanTransition
    <3>. QED  BY <2>1, <3>1 DEF Delivery!Next
  <2>2. Expirable \in SUBSET Events
    BY DEF TypeInv, TypeOK, MarksOK, Expirable
  <2>. QED  BY <2>1, <2>2
<1>3. ASSUME NEW p \in Parts, CommitInsert(p) PROVE Delivery!Next \/ UNCHANGED status
  <2>1. Event(p) \in Events
    BY <1>3, InHandType DEF CommitInsert, At
  <2>2. Delivery!Store(Event(p)) \/ UNCHANGED status
    BY <1>3 DEF CommitInsert, StoreRecord, Delivery!Store
  <2>. QED  BY <2>1, <2>2 DEF Delivery!Next
<1>4. ASSUME NEW p \in Parts, MarkSent(p) PROVE Delivery!Next \/ UNCHANGED status
  <2>1. Event(p) \in Events
    BY <1>4, InHandType DEF MarkSent, At
  <2>2. Delivery!Move(Event(p), "SENT") \/ UNCHANGED status
    BY <1>4 DEF MarkSent, Sent, Delivery!Move, Delivery!CanTransition
  <2>. QED  BY <2>1, <2>2 DEF Delivery!Next, Delivery!Statuses
<1>5. CASE UNCHANGED vars
  BY <1>5 DEF vars
<1>. QED
  BY <1>1, <1>2, <1>3, <1>4, <1>5
     DEF Next, Work, Emit, DeleteRule, Age, WsDeliver, Pull, Fetch, Lookup,
         LockCursor, Notify, Route, Publish, Fail, CommitOffset, Crash

\* The inbox implements AlertDelivery: a row is stored once, only moves
\* forward, and ACKED and EXPIRED are final, whoever races for it.
THEOREM InboxImplementsDelivery == Spec => ImplementsDelivery
<1>1. Init => Delivery!Init
  BY DEF Init, Delivery!Init
<1>2. TypeInv /\ [Next]_vars => [Delivery!Next]_status
  BY StepDelivery
<1>. QED
  BY <1>1, <1>2, TypeAlways, PTL DEF Spec, ImplementsDelivery, Delivery!Spec
-----------------------------------------------------------------------------
(* Offsets: with a retry producer that never fails, whatever a worker is   *)
(* done with is handled, or waits in a retry partition beyond what that    *)
(* partition's worker is done with.                                        *)

\* Messages of p the worker is done with, committed or not.
Done(p) == IF pc[p] \in {"idle", "commit"} THEN pos[p] ELSE pos[p] - 1

Waiting(e) == \E r \in RetryParts : \E i \in DOMAIN log[r] :
                 i > Done(r) /\ log[r][i].ev = e

Settled(e) == Handled(e) \/ Waiting(e)

Stored == {"notify", "route", "publish", "mark"}

OffsetInv ==
    /\ \A p \in Parts : \A i \in DOMAIN log[p] :
          i <= Done(p) => Settled(log[p][i].ev)
    /\ \A p \in Parts : committed[p] <= Done(p)
    /\ \A p \in Parts : pc[p] \in Stored => Handled(Event(p))

\* A step that only adds messages at the end; whatever a worker finishes by
\* it is settled.
LEMMA OffsetsKept ==
  ASSUME TypeInv, TypeInv', OffsetInv, NEW x,
         \A p \in Parts : /\ Len(log[p]) <= Len(log'[p])
                          /\ \A i \in DOMAIN log[p] : log'[p][i] = log[p][i],
         \A p \in Parts : /\ Done(p)' <= Len(log[p])
                          /\ \/ Done(p)' <= Done(p)
                             \/ /\ Done(p)' = Done(p) + 1
                                /\ log[p][Done(p) + 1].ev = x
                                /\ Settled(x)',
         \A p \in Parts : committed'[p] <= Done(p)',
         \A e \in Events : Handled(e) => Handled(e)',
         \A p \in Parts : pc'[p] \in Stored => Handled(Event(p))'
  PROVE  OffsetInv'
<1>0. /\ log \in [Parts -> Seq(Message)] /\ log' \in [Parts -> Seq(Message)]
      /\ \A p \in Parts : Done(p) \in Int /\ Done(p)' \in Int
  BY DEF TypeInv, TypeOK, KafkaOK, Done
<1>1. ASSUME NEW e \in Events, Settled(e) PROVE Settled(e)'
  <2>1. CASE Handled(e)
    BY <2>1 DEF Settled
  <2>2. CASE Waiting(e)
    <3>1. PICK r \in RetryParts : \E i \in DOMAIN log[r] :
                 i > Done(r) /\ log[r][i].ev = e
      BY <2>2 DEF Waiting
    <3>2. PICK i \in DOMAIN log[r] : i > Done(r) /\ log[r][i].ev = e
      BY <3>1
    <3>3. r \in Parts /\ i \in 1..Len(log[r])
      BY <1>0, <3>2 DEF Parts
    <3>4. CASE i > Done(r)'
      <4>1. i \in DOMAIN log'[r] /\ log'[r][i].ev = e
        BY <1>0, <3>2, <3>3
      <4>. QED  BY <3>4, <4>1 DEF Waiting, Settled
    <3>5. CASE ~(i > Done(r)')
      <4>1. i = Done(r) + 1
        BY <1>0, <3>2, <3>3, <3>5
      <4>. QED  BY <1>0, <3>2, <3>3, <3>5, <4>1
    <3>. QED  BY <3>4, <3>5
  <2>. QED  BY <1>1, <2>1, <2>2 DEF Settled
<1>2. ASSUME NEW p \in Parts, NEW i \in DOMAIN log'[p], i <= Done(p)',
             NEW e, e = log'[p][i].ev
      PROVE  Settled(e)'
  <2>1. i \in DOMAIN log[p] /\ log'[p][i] = log[p][i]
    BY <1>0, <1>2
  <2>2. CASE i <= Done(p)
    <3>1. log[p][i] \in Message
      BY <1>0, <2>1
    <3>2. e \in Events
      BY <1>2, <2>1, <3>1 DEF Message
    <3>3. Settled(e)
      BY <1>2, <2>1, <2>2 DEF OffsetInv
    <3>. QED  BY <1>1, <3>2, <3>3
  <2>3. CASE ~(i <= Done(p))
    <3>1. i = Done(p) + 1 /\ Done(p)' = Done(p) + 1
      BY <1>0, <1>2, <2>1, <2>3
    <3>. QED  BY <1>0, <1>2, <2>1, <3>1
  <2>. QED  BY <2>2, <2>3
<1>. QED
  BY <1>2 DEF OffsetInv

\* A step that leaves the log and the offsets of the group alone.
LEMMA OffsetsQuiet ==
  ASSUME TypeInv, TypeInv', OffsetInv, UNCHANGED kafka, NEW x,
         \A e \in Events : Handled(e) => Handled(e)',
         \A p \in Parts : \/ Done(p)' = Done(p)
                          \/ pc[p] # "idle" /\ Done(p)' = Done(p) + 1 /\ Done(p)' = pos[p]
                             /\ Event(p) = x /\ Handled(x)',
         \A p \in Parts : pc'[p] \in Stored =>
             \/ pc[p] \in Stored
             \/ pc[p] # "idle" /\ Event(p) = x /\ Handled(x)'
  PROVE  OffsetInv'
<1>0. /\ log \in [Parts -> Seq(Message)] /\ pos \in [Parts -> Nat]
      /\ \A p \in Parts : Done(p) \in Int
      /\ \A p \in Parts : pos[p] <= Len(log[p]) /\ committed[p] <= Done(p)
      /\ UNCHANGED <<log, pos, committed>>
  BY DEF TypeInv, TypeOK, KafkaOK, Done, InHandOK, OffsetInv, kafka
<1>1. \A p \in Parts : Done(p) <= pos[p] /\ Len(log[p]) \in Nat
  BY <1>0 DEF Done
<1>2. \A p \in Parts : /\ Done(p)' <= Len(log[p])
                       /\ committed'[p] <= Done(p)'
  <2> TAKE p \in Parts
  <2>1. committed[p] \in Nat
    BY DEF TypeInv, TypeOK, KafkaOK
  <2>. QED  BY <1>0, <1>1, <2>1
<1>3. \A p \in Parts : \/ Done(p)' <= Done(p)
                       \/ /\ Done(p)' = Done(p) + 1
                          /\ log[p][Done(p) + 1].ev = x
                          /\ Settled(x)'
  BY <1>0 DEF Event, InHand, Settled
<1>4. ASSUME NEW p \in Parts, pc'[p] \in Stored PROVE Handled(Event(p))'
  <2>1. pc[p] # "idle" /\ Event(p)' = Event(p)
    BY <1>0, <1>4 DEF Event, InHand, Stored
  <2>2. Event(p) \in Events
    BY <2>1, InHandType
  <2>3. ASSUME NEW e, e = Event(p)' PROVE Handled(e)'
    BY <1>4, <2>1, <2>2, <2>3 DEF OffsetInv
  <2>. QED  BY <2>3
<1>5. \A p \in Parts : /\ Len(log[p]) <= Len(log'[p])
                       /\ \A i \in DOMAIN log[p] : log'[p][i] = log[p][i]
  BY <1>0, <1>1
<1>. QED
  BY <1>2, <1>3, <1>4, <1>5, OffsetsKept

LEMMA StepOffsets ==
  TypeInv /\ TypeInv' /\ OffsetInv /\ [Next]_vars /\ ~ProducerMayFail => OffsetInv'
<1> SUFFICES ASSUME TypeInv, TypeInv', OffsetInv, [Next]_vars, ~ProducerMayFail
             PROVE  OffsetInv'
  OBVIOUS
<1> USE DEF worker, inbox, client, budget, At, Goto
<1>a. KafkaOK /\ WorkerOK /\ InboxOK /\ MarksOK /\ InHandOK
  BY DEF TypeInv, TypeOK
<1>b. /\ status \in [Events -> {"NONE", "PENDING", "SENT", "ACKED", "EXPIRED"}]
      /\ pc \in [Parts -> Labels]
      /\ pos \in [Parts -> Nat] /\ committed \in [Parts -> Nat]
      /\ log \in [Parts -> Seq(Message)]
  BY <1>a DEF InboxOK, WorkerOK, KafkaOK
<1>c. ASSUME UNCHANGED <<status, dead, gone>>
      PROVE  \A e \in Events : Handled(e) => Handled(e)'
  BY <1>c DEF Handled
<1>d. ASSUME UNCHANGED <<pos, pc>>
      PROVE  \A p \in Parts : Done(p)' = Done(p)
  BY <1>d DEF Done
<1>1. ASSUME NEW p \in AlertParts, NEW e \in Events, Emit(p, e) PROVE OffsetInv'
  <2> DEFINE m == [ev |-> e, hdr |-> <<>>]
  <2>1. p \in Parts /\ m \in Message
    BY <1>1 DEF Parts, Message
  <2>2. /\ log' = [log EXCEPT ![p] = Append(@, m)]
        /\ UNCHANGED <<pos, committed, pc, status, dead, gone>>
    BY <1>1 DEF Emit
  <2> HIDE DEF m
  <2>3. ASSUME NEW q \in Parts
        PROVE  /\ Len(log[q]) <= Len(log'[q])
               /\ \A i \in DOMAIN log[q] : log'[q][i] = log[q][i]
    BY <1>b, <2>1, <2>2
  <2>4. \A q \in Parts : Done(q)' = Done(q) /\ Done(q) <= Len(log[q]) /\ Done(q) \in Int
    BY <1>a, <1>b, <1>d, <2>2 DEF Done, InHandOK
  <2>5. ASSUME NEW q \in Parts, pc'[q] \in Stored PROVE Handled(Event(q))'
    <3>1. pc[q] # "idle" /\ pc[q] \in Stored
      BY <2>2, <2>5 DEF Stored
    <3>2. Event(q)' = Event(q)
      BY <2>1, <2>2, <3>1, SameEvent
    <3>. QED  BY <2>2, <3>1, <3>2 DEF OffsetInv, Handled
  <2>6. \A q \in Parts : committed'[q] <= Done(q)'
    BY <2>2, <2>4 DEF OffsetInv
  <2>7. \A f \in Events : Handled(f) => Handled(f)'
    BY <1>c, <2>2
  <2>8. \A q \in Parts : Done(q)' <= Done(q) /\ Done(q)' <= Len(log[q])
    BY <2>4
  <2>. QED  BY <2>3, <2>5, <2>6, <2>7, <2>8, OffsetsKept
<1>2. ASSUME NEW e \in Events, Age(e) \/ WsDeliver(e) \/ DeleteRule(e) PROVE OffsetInv'
  <2>1. UNCHANGED <<kafka, pos, pc>> /\ \A f \in Events : Handled(f) => Handled(f)'
    BY <1>2 DEF Age, WsDeliver, DeleteRule, Handled, kafka
  <2>. QED  BY <1>d, <2>1, OffsetsQuiet
<1>3. ASSUME NEW e \in Events, Ack(e) PROVE OffsetInv'
  <2>1. UNCHANGED <<kafka, pos, pc>> /\ \A f \in Events : Handled(f) => Handled(f)'
    BY <1>3, <1>b DEF Ack, Handled, kafka
  <2>. QED  BY <1>d, <2>1, OffsetsQuiet
<1>4. ASSUME NEW u \in Users, Pull(u) PROVE OffsetInv'
  <2>1. UNCHANGED <<kafka, pos, pc>> /\ \A f \in Events : Handled(f) => Handled(f)'
    BY <1>4 DEF Pull, Handled, kafka
  <2>. QED  BY <1>d, <2>1, OffsetsQuiet
<1>5. ASSUME ExpireStale PROVE OffsetInv'
  <2>1. UNCHANGED <<kafka, pos, pc>> /\ \A f \in Events : Handled(f) => Handled(f)'
    BY <1>5, <1>b DEF ExpireStale, Handled, kafka
  <2>. QED  BY <1>d, <2>1, OffsetsQuiet
<1>6. ASSUME NEW p \in Parts, Fetch(p) PROVE OffsetInv'
  <2>1. UNCHANGED <<log, committed, status, dead, gone>>
    BY <1>6 DEF Fetch
  <2>2. \A q \in Parts : Done(q)' = Done(q) /\ Done(q) <= Len(log[q]) /\ Done(q) \in Int
    BY <1>6, <1>a, <1>b DEF Fetch, Done, InHandOK
  <2>3. ASSUME NEW q \in Parts, pc'[q] \in Stored PROVE Handled(Event(q))'
    BY <1>6, <1>b, <2>1, <2>3 DEF Fetch, Stored, OffsetInv, Handled, Event, InHand
  <2>4. \A q \in Parts : committed'[q] <= Done(q)'
    BY <2>1, <2>2 DEF OffsetInv
  <2>5. \A q \in Parts : Len(log[q]) <= Len(log'[q]) /\ \A i \in DOMAIN log[q] : log'[q][i] = log[q][i]
    BY <1>b, <2>1
  <2>. QED  BY <1>c, <2>1, <2>2, <2>3, <2>4, <2>5, OffsetsKept
<1>7. ASSUME NEW p \in Parts, Lookup(p) PROVE OffsetInv'
  <2>1. UNCHANGED kafka /\ \A f \in Events : Handled(f) => Handled(f)'
    BY <1>7 DEF Lookup, Handled
  <2>2. \A q \in Parts : \/ Done(q)' = Done(q)
                         \/ pc[q] # "idle" /\ Done(q)' = Done(q) + 1 /\ Done(q)' = pos[q]
                            /\ Event(q) = Event(p) /\ Event(p) \in gone'
    BY <1>7, <1>b DEF Lookup, Done, kafka
  <2>3. \A q \in Parts : pc'[q] \in Stored => pc[q] \in Stored
    BY <1>7, <1>b DEF Lookup, Stored
  <2>4. ASSUME NEW x, x = Event(p) PROVE OffsetInv'
    BY <2>1, <2>2, <2>3, <2>4, OffsetsQuiet DEF Handled
  <2>. QED  BY <2>4
<1>8. ASSUME NEW p \in Parts, LockCursor(p) \/ Notify(p) \/ Publish(p) PROVE OffsetInv'
  <2>1. UNCHANGED kafka /\ \A f \in Events : Handled(f) => Handled(f)'
    BY <1>8 DEF LockCursor, Notify, Publish, Handled
  <2>2. \A q \in Parts : Done(q)' = Done(q)
    BY <1>8, <1>b DEF LockCursor, Notify, Publish, Done, kafka
  <2>3. \A q \in Parts : pc'[q] \in Stored => pc[q] \in Stored
    BY <1>8, <1>b DEF LockCursor, Notify, Publish, Stored
  <2>. QED  BY <2>1, <2>2, <2>3, OffsetsQuiet
<1>9. ASSUME NEW p \in Parts, CommitInsert(p) PROVE OffsetInv'
  <2>0. Event(p) \in Events
    BY <1>9, InHandType DEF CommitInsert
  <2>1. UNCHANGED kafka /\ \A f \in Events : Handled(f) => Handled(f)'
    BY <1>9, <1>b, <2>0 DEF CommitInsert, StoreRecord, Handled
  <2>2. \A q \in Parts : Done(q)' = Done(q)
    BY <1>9, <1>b DEF CommitInsert, Done, kafka
  <2>3. \A q \in Parts : pc'[q] \in Stored =>
             \/ pc[q] \in Stored
             \/ pc[q] # "idle" /\ Event(q) = Event(p) /\ status'[Event(p)] # "NONE"
    BY <1>9, <1>b, <2>0 DEF CommitInsert, StoreRecord, Stored
  <2>4. ASSUME NEW x, x = Event(p) PROVE OffsetInv'
    BY <2>1, <2>2, <2>3, <2>4, OffsetsQuiet DEF Handled
  <2>. QED  BY <2>4
<1>10. ASSUME NEW p \in Parts, Route(p) \/ MarkSent(p) PROVE OffsetInv'
  <2>0. Event(p) \in Events /\ Handled(Event(p))
    BY <1>10, InHandType DEF Route, MarkSent, OffsetInv, Stored
  <2>1. UNCHANGED kafka /\ \A f \in Events : Handled(f) => Handled(f)'
    BY <1>10, <1>b, <2>0 DEF Route, MarkSent, Sent, Handled
  <2>2. \A q \in Parts : \/ Done(q)' = Done(q)
                         \/ pc[q] # "idle" /\ Done(q)' = Done(q) + 1 /\ Done(q)' = pos[q]
                            /\ Event(q) = Event(p)
    BY <1>10, <1>b DEF Route, MarkSent, Done, kafka
  <2>3. \A q \in Parts : pc'[q] \in Stored => pc[q] \in Stored
    BY <1>10, <1>b DEF Route, MarkSent, Stored
  <2>4. ASSUME NEW x, x = Event(p) PROVE OffsetInv'
    BY <2>0, <2>1, <2>2, <2>3, <2>4, OffsetsQuiet
  <2>. QED  BY <2>4
<1>11. ASSUME NEW p \in Parts, Fail(p) PROVE OffsetInv'
  <2> DEFINE m == RetryMessage(InHand(p))
  <2>0. Event(p) \in Events /\ m \in Message /\ m.ev = Event(p)
    BY <1>11, InHandType DEF Fail, RetryMessage, Event
  <2>1. /\ UNCHANGED <<pos, committed, status, gone>> /\ dead \subseteq dead'
        /\ \A q \in Parts : pc'[q] \in Stored => pc[q] \in Stored
        /\ \A q \in Parts : \/ Done(q)' = Done(q)
                            \/ q = p /\ Done(q)' = Done(q) + 1 /\ Done(q)' = pos[q]
    BY <1>11, <1>b DEF Fail, Done, Stored
  <2>2. \A e \in Events : Handled(e) => Handled(e)'
    BY <2>1 DEF Handled
  <2>3. \/ \E r \in RetryParts : log' = [log EXCEPT ![r] = Append(@, m)]
        \/ log' = log /\ Event(p) \in dead'
    BY <1>11 DEF Fail
  <2>4. pc[p] # "idle"
    BY <1>11 DEF Fail
  <2> HIDE DEF m
  <2>5. ASSUME NEW q \in Parts
        PROVE  /\ Len(log[q]) <= Len(log'[q])
               /\ \A i \in DOMAIN log[q] : log'[q][i] = log[q][i]
    <3>1. CASE log' = log
      BY <1>b, <3>1
    <3>2. ASSUME NEW r \in RetryParts, log' = [log EXCEPT ![r] = Append(@, m)]
          PROVE  /\ Len(log[q]) <= Len(log'[q])
                 /\ \A i \in DOMAIN log[q] : log'[q][i] = log[q][i]
      <4>1. r \in Parts
        BY DEF Parts
      <4>2. CASE q = r
        <5>1. log'[q] = Append(log[q], m) /\ log[q] \in Seq(Message)
          BY <1>b, <3>2, <4>1, <4>2
        <5>. QED  BY <2>0, <5>1
      <4>3. CASE q # r
        BY <1>b, <3>2, <4>1, <4>3
      <4>. QED  BY <4>2, <4>3
    <3>. QED  BY <2>3, <3>1, <3>2
  <2>6. ASSUME NEW q \in Parts, pc'[q] \in Stored PROVE Handled(Event(q))'
    <3>1. pc[q] # "idle" /\ pc[q] \in Stored /\ pos'[q] = pos[q]
      BY <2>1, <2>6 DEF Stored
    <3>2. Event(q)' = Event(q)
      BY <2>0, <2>3, <3>1, SameEvent DEF Parts
    <3>3. Handled(Event(q)) /\ Event(q) \in Events
      BY <3>1, InHandType DEF OffsetInv
    <3>. QED  BY <2>1, <3>2, <3>3 DEF Handled
  <2>7. ASSUME NEW x, x = Event(p) PROVE Settled(x)'
    <3>1. CASE x \in dead'
      BY <3>1 DEF Settled, Handled
    <3>2. ASSUME NEW r \in RetryParts, log' = [log EXCEPT ![r] = Append(@, m)]
          PROVE  Waiting(x)'
      <4>1. r \in Parts /\ Len(log[r]) \in Nat /\ Len(log'[r]) = Len(log[r]) + 1
            /\ log'[r][Len(log[r]) + 1] = m
        BY <1>b, <2>0, <3>2 DEF Parts
      <4>2. Done(r)' <= Len(log[r]) /\ Done(r)' \in Int
        BY <1>a, <1>b, <2>1, <4>1 DEF Done, InHandOK
      <4>3. Len(log[r]) + 1 \in DOMAIN log'[r] /\ Len(log[r]) + 1 > Done(r)'
        BY <1>b, <4>1, <4>2
      <4>. QED  BY <2>0, <2>7, <4>1, <4>3 DEF Waiting
    <3>. QED  BY <2>3, <2>7, <3>1, <3>2 DEF Settled
  <2>8. ASSUME NEW q \in Parts
        PROVE  /\ Done(q)' <= Len(log[q])
               /\ Done(q) \in Int
               /\ committed'[q] <= Done(q)'
    <3>1. pos[q] <= Len(log[q]) /\ committed[q] <= Done(q)
      BY <1>a DEF InHandOK, OffsetInv
    <3>2. /\ Done(q) \in Int /\ Done(q) <= pos[q] /\ Len(log[q]) \in Nat
          /\ pos[q] \in Nat /\ committed[q] \in Nat
      BY <1>b DEF Done
    <3>3. Done(q)' = Done(q) \/ (Done(q)' = Done(q) + 1 /\ Done(q)' = pos[q])
      BY <2>1
    <3>4. committed'[q] = committed[q]
      BY <2>1
    <3>. QED  BY <3>1, <3>2, <3>3, <3>4
  <2>9. ASSUME NEW x, x = Event(p) PROVE OffsetInv'
    <3>1. \A q \in Parts : /\ Done(q)' <= Len(log[q])
                           /\ \/ Done(q)' <= Done(q)
                              \/ /\ Done(q)' = Done(q) + 1
                                 /\ log[q][Done(q) + 1].ev = x
                                 /\ Settled(x)'
      BY <2>1, <2>7, <2>8, <2>9 DEF Event, InHand
    <3>. QED  BY <2>2, <2>5, <2>6, <2>8, <3>1, OffsetsKept
  <2>. QED  BY <2>9
<1>12. ASSUME NEW p \in Parts, CommitOffset(p) PROVE OffsetInv'
  <2>1. UNCHANGED <<log, pos, status, dead, gone>>
    BY <1>12 DEF CommitOffset
  <2>2. \A q \in Parts : /\ Done(q)' = Done(q) /\ Done(q) <= Len(log[q]) /\ Done(q) \in Int
                         /\ committed'[q] \in {committed[q], Done(q)}
                         /\ pc'[q] \in Stored => pc[q] \in Stored
    BY <1>12, <1>a, <1>b DEF CommitOffset, Done, InHandOK, Stored
  <2>3. ASSUME NEW q \in Parts, pc'[q] \in Stored PROVE Handled(Event(q))'
    BY <2>1, <2>2, <2>3 DEF OffsetInv, Handled, Event, InHand
  <2>4. \A q \in Parts : committed'[q] <= Done(q)'
    BY <2>2 DEF OffsetInv
  <2>5. \A q \in Parts : Len(log[q]) <= Len(log'[q]) /\ \A i \in DOMAIN log[q] : log'[q][i] = log[q][i]
    BY <1>b, <2>1
  <2>. QED  BY <1>c, <2>1, <2>2, <2>3, <2>4, <2>5, OffsetsKept
<1>13. ASSUME NEW p \in Parts, Crash(p) PROVE OffsetInv'
  <2>1. UNCHANGED <<log, committed, status, dead, gone>>
    BY <1>13 DEF Crash
  <2>2. \A q \in Parts : /\ Done(q)' = Done(q) \/ Done(q)' = committed[q]
                         /\ pc'[q] \in Stored => pc[q] \in Stored /\ pos'[q] = pos[q]
    BY <1>13, <1>b DEF Crash, Done, Stored
  <2>3. ASSUME NEW q \in Parts
        PROVE  /\ Done(q)' <= Done(q) /\ Done(q)' <= Len(log[q])
               /\ committed'[q] <= Done(q)'
    <3>1. pos[q] <= Len(log[q]) /\ committed[q] <= Done(q)
      BY <1>a DEF InHandOK, OffsetInv
    <3>2. /\ Done(q) \in Int /\ Done(q) <= pos[q] /\ Len(log[q]) \in Nat
          /\ pos[q] \in Nat /\ committed[q] \in Nat
      BY <1>b DEF Done
    <3>3. committed'[q] = committed[q] /\ (Done(q)' = Done(q) \/ Done(q)' = committed[q])
      BY <2>1, <2>2
    <3>. QED  BY <3>1, <3>2, <3>3
  <2>4. ASSUME NEW q \in Parts, pc'[q] \in Stored PROVE Handled(Event(q))'
    BY <2>1, <2>2, <2>4 DEF OffsetInv, Handled, Event, InHand
  <2>5. \A q \in Parts : Len(log[q]) <= Len(log'[q]) /\ \A i \in DOMAIN log[q] : log'[q][i] = log[q][i]
    BY <1>b, <2>1
  <2>. QED  BY <1>c, <2>1, <2>3, <2>4, <2>5, OffsetsKept
<1>14. CASE UNCHANGED vars
  BY <1>14, <1>c, <1>d, OffsetsQuiet DEF vars, kafka
<1>. QED
  BY <1>1, <1>2, <1>3, <1>4, <1>5, <1>6, <1>7, <1>8, <1>9, <1>10, <1>11, <1>12,
     <1>13, <1>14 DEF Next, Work

\* Behind a committed offset no event is lost, on the assumption that the
\* writes to notify_retry and dead_letter themselves never fail.
THEOREM OffsetsSafe == ~ProducerMayFail /\ Spec => []NoEventLost
<1>1. Init => OffsetInv
  BY DEF Init, OffsetInv, Done, Stored
<1>2. TypeInv /\ TypeInv' /\ OffsetInv /\ [Next]_vars /\ ~ProducerMayFail => OffsetInv'
  BY StepOffsets
<1>3. TypeInv /\ OffsetInv => NoEventLost
  <2> SUFFICES ASSUME TypeInv, OffsetInv PROVE NoEventLost
    OBVIOUS
  <2>1. \A p \in Parts : /\ committed[p] <= Done(p) /\ committed[p] \in Nat /\ Done(p) \in Int
                         /\ log[p] \in Seq(Message)
    BY DEF OffsetInv, TypeInv, TypeOK, KafkaOK, Done
  <2>2. ASSUME NEW e, Waiting(e) PROVE Queued(e)
    <3>1. PICK r \in RetryParts : \E i \in DOMAIN log[r] : i > Done(r) /\ log[r][i].ev = e
      BY <2>2 DEF Waiting
    <3>. QED  BY <2>1, <3>1 DEF Queued, Parts
  <2>3. ASSUME NEW p \in Parts, NEW i \in DOMAIN log[p], i <= committed[p]
        PROVE  Settled(log[p][i].ev)
    BY <2>1, <2>3 DEF OffsetInv
  <2>. QED  BY <2>2, <2>3 DEF NoEventLost, Settled
<1>4. ProducerMayFail = FALSE \/ ProducerMayFail = TRUE
  OBVIOUS
<1>. QED
  <2>1. CASE ProducerMayFail = TRUE
    BY <2>1
  <2>2. CASE ProducerMayFail = FALSE
    <3>1. TypeInv /\ TypeInv' /\ OffsetInv /\ [Next]_vars => OffsetInv'
      BY <1>2, <2>2
    <3>. QED  BY <1>1, <1>3, <3>1, TypeAlways, PTL DEF Spec
  <2>. QED  BY <1>4, <2>1, <2>2
=============================================================================
