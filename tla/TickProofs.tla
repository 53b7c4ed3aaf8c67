----------------------------- MODULE TickProofs -----------------------------
(***************************************************************************)
(* Theorems about the programs that the topic tick_raw connects:           *)
(*                                                                         *)
(*   QuoteSource  hq-gateway, which writes it                              *)
(*   TickPush     quote-push, which merges it into the latest quotes       *)
(*   RuleMatch    Flink's matcher, which turns it into alerts              *)
(*                                                                         *)
(* Each is proved about by itself, for any symbols, rules, mirrors,        *)
(* gateways, slots, partitions, logs and bounds.                           *)
(***************************************************************************)
EXTENDS QuoteSource, TickPush, RuleMatch, SequenceTheorems, FiniteSetTheorems,
        WellFoundedInduction, TLAPS

-----------------------------------------------------------------------------
(* QuoteSource: the answers of the HTTP handler                            *)

\* The ticks of a body that are still to be written.
Good(b) == {i \in DOMAIN b : b[i] # 0}

RequestInv ==
    /\ body \in Seq(Pushed \cup {0})
    /\ req \in [at : {"none", "ingest", "200", "503"}, valid : Nat, sent : Nat]
    /\ req.at = "ingest" => req.sent + Cardinality(Good(body)) = req.valid

AcceptedInv == RequestInv /\ AcceptedIsWritten

LEMMA GoodTail ==
  ASSUME NEW b \in Seq(Pushed \cup {0}), b # << >>
  PROVE  /\ Cardinality(Good(b)) \in Nat /\ Cardinality(Good(Tail(b))) \in Nat
         /\ Cardinality(Good(b)) = Cardinality(Good(Tail(b))) + (IF Head(b) = 0 THEN 0 ELSE 1)
         /\ Tail(b) \in Seq(Pushed \cup {0}) /\ Head(b) \in Pushed \cup {0}
<1>1. /\ Tail(b) \in Seq(Pushed \cup {0}) /\ Head(b) = b[1] /\ Head(b) \in Pushed \cup {0}
      /\ Len(b) \in Nat \ {0} /\ Len(Tail(b)) = Len(b) - 1
      /\ \A i \in 1..(Len(b) - 1) : Tail(b)[i] = b[i + 1]
      /\ DOMAIN b = 1..Len(b) /\ DOMAIN Tail(b) = 1..(Len(b) - 1)
  OBVIOUS
<1>. DEFINE Rest == {i \in 2..Len(b) : b[i] # 0}
            shift == [i \in Good(Tail(b)) |-> i + 1]
<1>2. IsFiniteSet(Rest) /\ IsFiniteSet(Good(Tail(b)))
  <2>1. Rest \subseteq 1..Len(b) /\ Good(Tail(b)) \subseteq 1..(Len(b) - 1)
    BY <1>1 DEF Good
  <2>2. IsFiniteSet(1..Len(b)) /\ IsFiniteSet(1..(Len(b) - 1))
    BY <1>1, FS_Interval
  <2>. QED
    BY <2>1, <2>2, FS_Subset
<1>3. shift \in Bijection(Good(Tail(b)), Rest)
  <2>1. \A i \in Good(Tail(b)) : i \in 1..(Len(b) - 1) /\ b[i + 1] # 0
    BY <1>1 DEF Good
  <2>2. shift \in [Good(Tail(b)) -> Rest]
    BY <1>1, <2>1
  <2>3. \A i, j \in Good(Tail(b)) : shift[i] = shift[j] => i = j
    BY <2>1
  <2>4. ASSUME NEW k \in Rest PROVE \E i \in Good(Tail(b)) : shift[i] = k
    <3>1. k - 1 \in Good(Tail(b)) /\ (k - 1) + 1 = k
      BY <1>1 DEF Good
    <3>. QED
      BY <3>1
  <2>. QED
    BY <2>2, <2>3, <2>4 DEF Bijection, Injection, Surjection, IsInjective
<1>4. Cardinality(Rest) = Cardinality(Good(Tail(b)))
  BY <1>2, <1>3, FS_Bijection DEF ExistsBijection
<1>5. Good(b) = IF Head(b) = 0 THEN Rest ELSE Rest \cup {1}
  BY <1>1 DEF Good
<1>6. 1 \notin Rest
  OBVIOUS
<1>. HIDE DEF Rest, shift
<1>7. Cardinality(Good(b)) = Cardinality(Rest) + (IF Head(b) = 0 THEN 0 ELSE 1)
  <2>1. Cardinality(Rest \cup {1}) = Cardinality(Rest) + 1 /\ Cardinality(Rest) \in Nat
    BY <1>2, <1>6, FS_AddElement, FS_CardinalityType
  <2>. QED
    BY <1>5, <2>1
<1>8. Cardinality(Rest) \in Nat
  BY <1>2, FS_CardinalityType
<1>. QED
  BY <1>1, <1>4, <1>7, <1>8

LEMMA AcceptedStep == AcceptedInv /\ [SourceNext]_sourceVars => AcceptedInv'
<1> SUFFICES ASSUME AcceptedInv, [SourceNext]_sourceVars PROVE AcceptedInv'
  OBVIOUS
<1>1. /\ body \in Seq(Pushed \cup {0})
      /\ req \in [at : {"none", "ingest", "200", "503"}, valid : Nat, sent : Nat]
      /\ req.at = "ingest" => req.sent + Cardinality(Good(body)) = req.valid
      /\ req.at = "200" => req.sent = req.valid
  BY DEF AcceptedInv, RequestInv, AcceptedIsWritten
<1>2. CASE Accept
  <2>1. PICK n \in 1..MaxBody : \E b \in [1..n -> Pushed \cup {0}] :
           /\ body' = b
           /\ req' = [at |-> "ingest", sent |-> 0,
                      valid |-> Cardinality({i \in 1..n : b[i] # 0})]
    BY <1>2 DEF Accept
  <2>2. PICK b \in [1..n -> Pushed \cup {0}] :
           /\ body' = b
           /\ req' = [at |-> "ingest", sent |-> 0,
                      valid |-> Cardinality({i \in 1..n : b[i] # 0})]
    BY <2>1
  <2>3. n \in Nat /\ b \in Seq(Pushed \cup {0}) /\ DOMAIN b = 1..n
    BY SourceAssumption, SeqDef
  <2>4. {i \in 1..n : b[i] # 0} = Good(b) /\ Good(b) \subseteq 1..n
    BY <2>3 DEF Good
  <2>5. Cardinality(Good(b)) \in Nat
    <3>1. IsFiniteSet(1..n)
      BY <2>3, FS_Interval
    <3>. QED
      BY <2>4, <3>1, FS_Subset, FS_CardinalityType
  <2>6. /\ req'.at = "ingest" /\ req'.sent = 0 /\ req'.valid = Cardinality(Good(b))
        /\ req' \in [at : {"none", "ingest", "200", "503"}, valid : Nat, sent : Nat]
    BY <2>2, <2>4, <2>5
  <2>. QED
    BY <2>2, <2>3, <2>5, <2>6 DEF AcceptedInv, RequestInv, AcceptedIsWritten
<1>3. CASE Ingest
  <2>1. /\ req.at = "ingest" /\ body # << >>
        /\ \/ Head(body) = 0 /\ body' = Tail(body) /\ req' = req
           \/ Head(body) # 0 /\ req' = [req EXCEPT !.sent = @ + 1] /\ body' = Tail(body)
           \/ req' = [req EXCEPT !.at = "503"] /\ body' = << >>
    BY <1>3 DEF Ingest, FailAll
  <2>2. /\ Cardinality(Good(body)) \in Nat /\ Cardinality(Good(Tail(body))) \in Nat
        /\ Cardinality(Good(body)) =
             Cardinality(Good(Tail(body))) + (IF Head(body) = 0 THEN 0 ELSE 1)
        /\ Tail(body) \in Seq(Pushed \cup {0})
    BY <1>1, <2>1, GoodTail
  <2>3. CASE Head(body) = 0 /\ body' = Tail(body) /\ req' = req
    BY <1>1, <2>1, <2>2, <2>3 DEF AcceptedInv, RequestInv, AcceptedIsWritten
  <2>4. CASE Head(body) # 0 /\ req' = [req EXCEPT !.sent = @ + 1] /\ body' = Tail(body)
    <3>1. /\ req'.at = "ingest" /\ req'.sent = req.sent + 1 /\ req'.valid = req.valid
          /\ req' \in [at : {"none", "ingest", "200", "503"}, valid : Nat, sent : Nat]
      BY <1>1, <2>1, <2>4
    <3>2. req.sent + 1 + Cardinality(Good(Tail(body))) = req.valid
      BY <1>1, <2>1, <2>2, <2>4
    <3>. QED
      BY <2>2, <2>4, <3>1, <3>2 DEF AcceptedInv, RequestInv, AcceptedIsWritten
  <2>5. CASE req' = [req EXCEPT !.at = "503"] /\ body' = << >>
    BY <1>1, <2>5 DEF AcceptedInv, RequestInv, AcceptedIsWritten
  <2>. QED
    BY <2>1, <2>3, <2>4, <2>5
<1>4. CASE Answer
  <2>1. req.at = "ingest" /\ body = << >> /\ body' = body /\ req' = [req EXCEPT !.at = "200"]
    BY <1>4 DEF Answer
  <2>2. Cardinality(Good(body)) = 0
    BY <2>1, FS_EmptySet DEF Good
  <2>3. /\ req'.at = "200" /\ req'.sent = req.sent /\ req'.valid = req.valid
        /\ req' \in [at : {"none", "ingest", "200", "503"}, valid : Nat, sent : Nat]
    BY <1>1, <2>1
  <2>4. req.sent = req.valid
    BY <1>1, <2>1, <2>2
  <2>. QED
    BY <1>1, <2>1, <2>3, <2>4 DEF AcceptedInv, RequestInv, AcceptedIsWritten
<1>5. CASE UNCHANGED <<req, body>>
  BY <1>5 DEF AcceptedInv, RequestInv, AcceptedIsWritten
<1>6. Accept \/ Ingest \/ Answer \/ UNCHANGED <<req, body>>
  BY DEF SourceNext, Source, Poll, Snapshot, Refused, TimesOut, PublishTick, Published, Stop, Emit,
         RestartSource, Trade, Shutdown, Weather, sourceVars, http
<1>. QED
  BY <1>2, <1>3, <1>4, <1>5, <1>6

\* A request is answered with 200 only when each of its ticks that was not
\* rejected is in tick_raw.
THEOREM AcceptedSafe == SourceSpec => []AcceptedIsWritten
<1>1. SourceInit => AcceptedInv
  BY DEF SourceInit, NoRequest, AcceptedInv, RequestInv, AcceptedIsWritten
<1>2. AcceptedInv => AcceptedIsWritten
  BY DEF AcceptedInv
<1>. QED
  BY <1>1, <1>2, AcceptedStep, PTL DEF SourceSpec

-----------------------------------------------------------------------------
(* QuoteSource: prices do not go back                                      *)

Sender == IF kind = "sim" THEN Simulator ELSE active

\* How new a tick from a sender can be.
Newest(who) == IF who \in Hosts THEN Older(who) ELSE market

SourceTypes ==
    /\ market \in Nat \ {0} /\ active \in Hosts /\ tries \in Nat
    /\ tickRaw \in [Polled -> [version : Nat, from : Hosts \cup {Simulator, Client}]]
    /\ batch \in Seq([symbol : Polled, version : Nat])

\* What is in the topic or in hand is no newer than its sender.
TopicInv == \A s \in Polled : tickRaw[s].version <= Newest(tickRaw[s].from)

\* The ticks in hand are of one version, and none of their sender is newer.
BatchInv == \A i \in DOMAIN batch :
    /\ batch[i].version <= Newest(Sender)
    /\ \A j \in DOMAIN batch : batch[j].version = batch[i].version
    /\ tickRaw[batch[i].symbol].from = Sender =>
          tickRaw[batch[i].symbol].version <= batch[i].version

PriceInv ==
    /\ SourceTypes /\ TopicInv /\ BatchInv
    /\ kind \in {"eastmoney", "sim"} /\ (pc = "request" => kind = "eastmoney")

LEMMA HostNumbers ==
  /\ Hosts \subseteq Nat /\ 0 \in Hosts /\ NumHosts \in Nat \ {0}
  /\ Hosts = 0..(NumHosts - 1)
  /\ \A m \in Hosts : Delay[m] \in Nat
  /\ Simulator \notin Hosts /\ Client \notin Hosts
<1>1. /\ IsFiniteSet(Hosts) /\ Hosts # {} /\ Hosts = 0..(NumHosts - 1)
      /\ \A m \in Hosts : Delay[m] \in Nat
  BY SourceAssumption DEF Hosts, NumHosts
<1>2. NumHosts \in Nat
  BY <1>1, FS_CardinalityType DEF NumHosts
<1>3. NumHosts # 0
  BY <1>1
<1>. QED
  BY <1>1, <1>2, <1>3 DEF Simulator, Client

LEMMA NewestType ==
  ASSUME market \in Nat \ {0}
  PROVE  \A who \in Hosts \cup {Simulator, Client} : Newest(who) \in Nat \ {0}
BY HostNumbers DEF Newest, Older

LEMMA HostType == ASSUME active \in Hosts, tries \in Nat PROVE Host \in Hosts
<1>1. \A a \in Nat, n \in Nat \ {0} : a % n \in 0..(n - 1)
  OBVIOUS
<1>2. active + tries \in Nat
  BY HostNumbers
<1>. QED
  BY <1>1, <1>2, HostNumbers DEF Host

LEMMA InSeq == ASSUME NEW S, NEW b \in Seq(S), NEW i \in DOMAIN b PROVE b[i] \in S
<1>1. DOMAIN b = 1..Len(b)
  OBVIOUS
<1>. QED
  BY <1>1

\* The market moves on, and a poll or an answer in between changes nothing.
LEMMA PriceKeeps ==
  ASSUME PriceInv, market' \in Nat, market' >= market, UNCHANGED <<kind, active, tickRaw>>,
         batch' \in {batch, << >>}, tries' \in Nat, pc' = "request" => kind = "eastmoney"
  PROVE  PriceInv'
<1>1. /\ market \in Nat \ {0} /\ active \in Hosts
      /\ tickRaw \in [Polled -> [version : Nat, from : Hosts \cup {Simulator, Client}]]
      /\ batch \in Seq([symbol : Polled, version : Nat])
  BY DEF PriceInv, SourceTypes
<1>2. \A who \in Hosts \cup {Simulator, Client} :
         Newest(who)' >= Newest(who) /\ Newest(who) \in Nat /\ Newest(who)' \in Nat
  BY <1>1, HostNumbers DEF Newest, Older
<1>3. Sender \in Hosts \cup {Simulator, Client} /\ Sender' = Sender
  BY <1>1 DEF Sender
<1>4. SourceTypes'
  <2>1. market' \in Nat \ {0}
    <3>1. market' \in Nat /\ market' >= market /\ market \in Nat /\ market # 0
      BY <1>1
    <3>. QED
      BY <3>1
  <2>2. batch' \in Seq([symbol : Polled, version : Nat])
    <3>1. << >> \in Seq([symbol : Polled, version : Nat])
      OBVIOUS
    <3>. QED
      BY <1>1, <3>1, Zenon
  <2>. QED
    BY <1>1, <2>1, <2>2 DEF SourceTypes
<1>5. TopicInv'
  <2> SUFFICES ASSUME NEW s \in Polled PROVE tickRaw[s].version <= Newest(tickRaw[s].from)'
    BY DEF TopicInv
  <2>1. tickRaw[s].version \in Nat /\ tickRaw[s].from \in Hosts \cup {Simulator, Client}
    BY <1>1
  <2>2. tickRaw[s].version <= Newest(tickRaw[s].from)
    BY DEF PriceInv, TopicInv
  <2>. QED
    BY <1>2, <2>1, <2>2
<1>6. BatchInv'
  <2>1. CASE batch' = << >>
    BY <2>1 DEF BatchInv
  <2>2. CASE batch' = batch
    <3>1. ASSUME NEW i \in DOMAIN batch PROVE batch[i].version <= Newest(Sender)'
      <4>1. batch[i].version <= Newest(Sender)
        BY DEF PriceInv, BatchInv
      <4>3. batch[i] \in [symbol : Polled, version : Nat]
        BY <1>1, InSeq
      <4>2. Newest(Sender)' >= Newest(Sender) /\ Newest(Sender) \in Nat /\ Newest(Sender)' \in Nat
        BY <1>2, <1>3 DEF Newest
      <4>. QED
        BY <4>1, <4>2, <4>3
    <3>2. ASSUME NEW i \in DOMAIN batch
          PROVE  /\ \A j \in DOMAIN batch : batch[j].version = batch[i].version
                 /\ tickRaw[batch[i].symbol].from = Sender =>
                       tickRaw[batch[i].symbol].version <= batch[i].version
      BY DEF PriceInv, BatchInv
    <3>. QED
      BY <1>3, <2>2, <3>1, <3>2 DEF BatchInv
  <2>. QED
    BY <2>1, <2>2
<1>. QED
  BY <1>4, <1>5, <1>6 DEF PriceInv

\* What the batch and the topic hold, told apart.
LEMMA PriceFacts ==
  ASSUME PriceInv
  PROVE  /\ \A i \in DOMAIN batch :
              /\ batch[i].symbol \in Polled /\ batch[i].version \in Nat
              /\ batch[i].version <= Newest(Sender)
              /\ \A j \in DOMAIN batch : batch[j].version = batch[i].version
              /\ tickRaw[batch[i].symbol].from = Sender =>
                    tickRaw[batch[i].symbol].version <= batch[i].version
         /\ \A s \in Polled :
              /\ tickRaw[s].version \in Nat /\ tickRaw[s].from \in Hosts \cup {Simulator, Client}
              /\ tickRaw[s].version <= Newest(tickRaw[s].from)
         /\ Sender \in Hosts \cup {Simulator} /\ Sender # Client
<1>1. ASSUME NEW i \in DOMAIN batch
      PROVE  batch[i].symbol \in Polled /\ batch[i].version \in Nat
  <2>1. batch[i] \in [symbol : Polled, version : Nat]
    BY InSeq DEF PriceInv, SourceTypes
  <2>. QED
    BY <2>1
<1>2. ASSUME NEW s \in Polled
      PROVE  tickRaw[s].version \in Nat /\ tickRaw[s].from \in Hosts \cup {Simulator, Client}
  BY DEF PriceInv, SourceTypes
<1>3. Sender \in Hosts \cup {Simulator} /\ Sender # Client
  BY HostNumbers DEF PriceInv, SourceTypes, Sender, Simulator, Client
<1>. QED
  BY <1>1, <1>2, <1>3 DEF PriceInv, BatchInv, TopicInv

\* A new batch: one version, no newer than its sender and no older than
\* anything of that sender in the topic.
LEMMA NewBatch ==
  ASSUME PriceInv, UNCHANGED <<market, kind, tickRaw, tries>>, active' \in Hosts,
         NEW n \in Nat, NEW q \in [1..n -> Polled], NEW v \in Nat,
         batch' = [i \in DOMAIN q |-> [symbol |-> q[i], version |-> v]],
         v = Newest(Sender'), pc' = "publish"
  PROVE  PriceInv'
<1>1. \A who : Newest(who)' = Newest(who)
  BY DEF Newest, Older
<1>2. DOMAIN batch' = 1..n /\ \A i \in 1..n : batch'[i] = [symbol |-> q[i], version |-> v]
  OBVIOUS
<1>3. batch' \in Seq([symbol : Polled, version : Nat])
  BY <1>2, SeqDef
<1>4. SourceTypes'
  BY <1>3 DEF PriceInv, SourceTypes
<1>5. TopicInv'
  BY <1>1 DEF PriceInv, TopicInv
<1>6. BatchInv'
  <2>1. ASSUME NEW i \in 1..n
        PROVE  /\ batch'[i].symbol = q[i] /\ q[i] \in Polled /\ batch'[i].version = v
               /\ tickRaw[q[i]].from = Sender' => tickRaw[q[i]].version <= v
    BY <1>2, PriceFacts
  <2>2. v <= Newest(Sender)'
    BY <1>1
  <2>. QED
    BY <1>2, <2>1, <2>2 DEF BatchInv
<1>. QED
  BY <1>4, <1>5, <1>6 DEF PriceInv

\* A tick is written: the one at the head of the batch, or a client's at
\* today's price.
LEMMA TickIsWritten ==
  ASSUME PriceInv, UNCHANGED <<market, kind, active, tries>>,
         pc' = "request" => kind = "eastmoney",
         NEW s \in Polled, NEW v \in Nat, NEW who, WrittenBy(s, v, who),
         \/ /\ batch # << >> /\ batch' = Tail(batch)
            /\ s = Head(batch).symbol /\ v = Head(batch).version /\ who = Sender
         \/ batch' = batch /\ v = market /\ who = Client
  PROVE  PriceInv' /\ (tickRaw[s].from = who => tickRaw[s].version <= v)
<1>1. \A w : Newest(w)' = Newest(w)
  BY DEF Newest, Older
<1>2. Sender' = Sender
  BY DEF Sender
<1>3. /\ who \in Hosts \cup {Simulator, Client} /\ v <= Newest(who)
      /\ (tickRaw[s].from = who => tickRaw[s].version <= v)
  <2>1. CASE /\ batch # << >> /\ s = Head(batch).symbol
             /\ v = Head(batch).version /\ who = Sender
    <3>1. 1 \in DOMAIN batch /\ Head(batch) = batch[1]
      BY <2>1 DEF PriceInv, SourceTypes
    <3>. QED
      BY <2>1, <3>1, PriceFacts
  <2>2. CASE v = market /\ who = Client
    <3>1. Newest(Client) = market
      BY HostNumbers DEF Newest
    <3>2. tickRaw[s].version <= Newest(tickRaw[s].from)
      BY PriceFacts
    <3>3. market \in Nat
      BY DEF PriceInv, SourceTypes
    <3>. QED
      BY <2>2, <3>1, <3>2, <3>3
  <2>. QED
    BY <2>1, <2>2
<1>4. /\ tickRaw' \in [Polled -> [version : Nat, from : Hosts \cup {Simulator, Client}]]
      /\ tickRaw'[s].version = v /\ tickRaw'[s].from = who
      /\ \A p \in Polled \ {s} : tickRaw'[p] = tickRaw[p]
  <2>1. tickRaw \in [Polled -> [version : Nat, from : Hosts \cup {Simulator, Client}]]
    BY DEF PriceInv, SourceTypes
  <2>2. [version |-> v, from |-> who] \in [version : Nat, from : Hosts \cup {Simulator, Client}]
    BY <1>3
  <2>. QED
    BY <2>1, <2>2 DEF WrittenBy
<1>5. /\ batch' \in Seq([symbol : Polled, version : Nat])
      /\ \A i \in DOMAIN batch' : \E j \in DOMAIN batch : batch'[i] = batch[j]
  <2>1. batch \in Seq([symbol : Polled, version : Nat])
    BY DEF PriceInv, SourceTypes
  <2>2. CASE batch' = batch
    BY <2>1, <2>2
  <2>3. CASE batch # << >> /\ batch' = Tail(batch)
    <3>1. /\ batch' \in Seq([symbol : Polled, version : Nat])
          /\ Len(batch') = Len(batch) - 1 /\ Len(batch) \in Nat \ {0}
          /\ DOMAIN batch' = 1..Len(batch') /\ DOMAIN batch = 1..Len(batch)
          /\ \A i \in 1..Len(batch') : batch'[i] = batch[i + 1]
      BY <2>1, <2>3
    <3>2. ASSUME NEW i \in DOMAIN batch' PROVE \E j \in DOMAIN batch : batch'[i] = batch[j]
      <4>1. i + 1 \in DOMAIN batch
        BY <3>1
      <4>. QED
        BY <3>1, <4>1
    <3>. QED
      BY <3>1, <3>2
  <2>. QED
    BY <2>2, <2>3
<1>6. SourceTypes'
  BY <1>4, <1>5 DEF PriceInv, SourceTypes
<1>7. TopicInv'
  BY <1>1, <1>3, <1>4, PriceFacts DEF TopicInv
<1>8. BatchInv'
  <2> SUFFICES ASSUME NEW i \in DOMAIN batch'
               PROVE  /\ batch'[i].version <= Newest(Sender)
                      /\ \A j \in DOMAIN batch' : batch'[j].version = batch'[i].version
                      /\ tickRaw'[batch'[i].symbol].from = Sender =>
                            tickRaw'[batch'[i].symbol].version <= batch'[i].version
    BY <1>1, <1>2 DEF BatchInv
  <2>1. PICK k \in DOMAIN batch : batch'[i] = batch[k]
    BY <1>5
  <2>2. /\ batch[k].symbol \in Polled /\ batch[k].version \in Nat
        /\ batch[k].version <= Newest(Sender)
        /\ \A j \in DOMAIN batch : batch[j].version = batch[k].version
        /\ tickRaw[batch[k].symbol].from = Sender =>
              tickRaw[batch[k].symbol].version <= batch[k].version
    BY PriceFacts
  <2>3. \A j \in DOMAIN batch' : batch'[j].version = batch'[i].version
    BY <1>5, <2>1, <2>2
  <2>4. CASE batch[k].symbol # s
    BY <1>4, <2>1, <2>2, <2>3, <2>4
  <2>5. CASE batch[k].symbol = s /\ who = Client
    <3>1. Sender # Client
      BY PriceFacts
    <3>. QED
      BY <1>4, <2>1, <2>2, <2>3, <2>5, <3>1
  <2>6. CASE batch[k].symbol = s /\ batch # << >> /\ v = Head(batch).version
    <3>1. 1 \in DOMAIN batch /\ Head(batch) = batch[1]
      BY <2>6 DEF PriceInv, SourceTypes
    <3>2. v = batch[k].version
      BY <2>2, <2>6, <3>1
    <3>. QED
      BY <1>4, <2>1, <2>2, <2>3, <2>6, <3>2
  <2>. QED
    BY <2>4, <2>5, <2>6
<1>. QED
  BY <1>3, <1>6, <1>7, <1>8 DEF PriceInv

LEMMA OrdersType ==
  ASSUME NEW S \in SUBSET Polled, NEW q \in Orders(S)
  PROVE  \E n \in Nat : q \in [1..n -> Polled]
<1>1. IsFiniteSet(Polled)
  <2>1. 1 \in Int /\ NumSymbols \in Int
    BY SourceAssumption
  <2>. QED
    BY <2>1, FS_Interval DEF Polled
<1>2. IsFiniteSet(S)
  BY <1>1, FS_Subset
<1>3. Cardinality(S) \in Nat
  BY <1>2, FS_CardinalityType
<1>4. q \in [1..Cardinality(S) -> Polled]
  BY DEF Orders
<1>. QED
  BY <1>3, <1>4

LEMMA PriceStep ==
  PriceInv /\ [SourceNext]_sourceVars =>
      /\ PriceInv'
      /\ \A s \in Polled : tickRaw'[s].version < tickRaw[s].version =>
                              tickRaw'[s].from # tickRaw[s].from
<1> SUFFICES ASSUME PriceInv, [SourceNext]_sourceVars
             PROVE  /\ PriceInv'
                    /\ \A s \in Polled : tickRaw'[s].version < tickRaw[s].version =>
                                            tickRaw'[s].from # tickRaw[s].from
  OBVIOUS
<1>1. /\ market \in Nat \ {0} /\ active \in Hosts /\ tries \in Nat
      /\ tickRaw \in [Polled -> [version : Nat, from : Hosts \cup {Simulator, Client}]]
      /\ batch \in Seq([symbol : Polled, version : Nat])
      /\ kind \in {"eastmoney", "sim"} /\ (pc = "request" => kind = "eastmoney")
  BY DEF PriceInv, SourceTypes
<1>2. ASSUME UNCHANGED tickRaw
      PROVE  \A s \in Polled : tickRaw'[s].version < tickRaw[s].version =>
                                  tickRaw'[s].from # tickRaw[s].from
  <2>1. ASSUME NEW s \in Polled PROVE tickRaw[s].version \in Nat
    BY PriceFacts
  <2>. QED
    BY <1>2, <2>1
<1>3. ASSUME NEW s \in Polled, NEW v \in Nat, NEW who, WrittenBy(s, v, who),
             tickRaw[s].from = who => tickRaw[s].version <= v
      PROVE  \A p \in Polled : tickRaw'[p].version < tickRaw[p].version =>
                                  tickRaw'[p].from # tickRaw[p].from
  <2>1. \A p \in Polled : tickRaw[p].version \in Nat
    BY PriceFacts
  <2>2. /\ tickRaw'[s].version = v /\ tickRaw'[s].from = who
        /\ \A p \in Polled \ {s} : tickRaw'[p] = tickRaw[p]
    BY <1>1, <1>3 DEF WrittenBy
  <2>. QED
    BY <1>3, <2>1, <2>2
<1>4. CASE Snapshot
  <2>1. PICK q \in Orders(Batch(start) \ Silent) :
           batch' = [i \in DOMAIN q |-> [symbol |-> q[i], version |-> Older(Host)]]
    BY <1>4 DEF Snapshot
  <2>2. Batch(start) \ Silent \in SUBSET Polled
    BY DEF Batch
  <2>3. PICK n \in Nat : q \in [1..n -> Polled]
    BY <2>2, OrdersType
  <2>4. /\ Host \in Hosts /\ active' = Host /\ kind = "eastmoney" /\ pc' = "publish"
        /\ UNCHANGED <<market, kind, tickRaw, tries>>
    BY <1>1, <1>4, HostType DEF Snapshot, ActiveNow
  <2>5. Newest(Host) = Older(Host) /\ Older(Host) \in Nat
    BY <1>1, <2>4, NewestType DEF Newest
  <2>6. Sender' = Host
    BY <2>4 DEF Sender
  <2>7. PriceInv'
    BY <2>1, <2>3, <2>4, <2>5, <2>6, NewBatch
  <2>. QED
    BY <1>2, <2>4, <2>7
<1>5. CASE Emit
  <2>1. PICK q \in [1..MaxBatch -> Polled] :
           batch' = [i \in DOMAIN q |-> [symbol |-> q[i], version |-> market]]
    BY <1>5 DEF Emit
  <2>2. MaxBatch \in Nat
    BY SourceAssumption
  <2>3. /\ active' = active /\ kind = "sim" /\ pc' = "publish"
        /\ UNCHANGED <<market, kind, tickRaw, tries>>
    BY <1>5 DEF Emit
  <2>4. Sender' = Simulator /\ Newest(Simulator) = market
    BY <2>3, HostNumbers DEF Sender, Newest
  <2>5. PriceInv'
    BY <1>1, <2>1, <2>2, <2>3, <2>4, NewBatch
  <2>. QED
    BY <1>2, <2>3, <2>5
<1>6. CASE PublishTick
  <2>1. batch # << >> /\ pc = "publish" /\ UNCHANGED <<market, kind, active, tries>>
    BY <1>6 DEF PublishTick
  <2>2. CASE /\ batch' = << >> /\ UNCHANGED tickRaw
             /\ pc' = IF kind = "sim" THEN "restart" ELSE "wait"
    BY <1>1, <1>2, <2>1, <2>2, PriceKeeps
  <2>3. CASE /\ WrittenBy(Head(batch).symbol, Head(batch).version, Sender)
             /\ batch' = Tail(batch) /\ UNCHANGED pc
    <3>1. 1 \in DOMAIN batch /\ Head(batch) = batch[1]
      BY <1>1, <2>1
    <3>2. Head(batch).symbol \in Polled /\ Head(batch).version \in Nat
      BY <3>1, PriceFacts
    <3>3. /\ PriceInv'
          /\ tickRaw[Head(batch).symbol].from = Sender =>
                tickRaw[Head(batch).symbol].version <= Head(batch).version
      BY <2>1, <2>3, <3>2, TickIsWritten
    <3>. QED
      BY <1>3, <2>3, <3>2, <3>3
  <2>. QED
    BY <1>6, <2>2, <2>3 DEF PublishTick, Sender
<1>7. CASE Ingest
  <2>1. UNCHANGED <<market, kind, pc, active, tries, batch>>
    BY <1>7 DEF Ingest, poller
  <2>2. CASE UNCHANGED tickRaw
    BY <1>1, <1>2, <2>1, <2>2, PriceKeeps
  <2>3. CASE WrittenBy(Head(body), market, Client)
    <3>1. CASE Head(body) \in Polled
      BY <1>1, <1>3, <2>1, <2>3, <3>1, TickIsWritten
    <3>2. CASE Head(body) \notin Polled
      <4>1. tickRaw' = tickRaw
        BY <1>1, <2>3, <3>2 DEF WrittenBy
      <4>. QED
        BY <1>1, <1>2, <2>1, <4>1, PriceKeeps
    <3>. QED
      BY <3>1, <3>2
  <2>. QED
    BY <1>7, <2>2, <2>3 DEF Ingest
<1>8. CASE Poll \/ Refused \/ TimesOut \/ Published \/ Stop \/ RestartSource
  <2>1. /\ UNCHANGED <<market, kind, active, batch, tickRaw>>
        /\ (pc' = "request" => kind = "eastmoney")
    BY <1>1, <1>8 DEF Poll, Refused, NextMirror, TimesOut, Published, Stop, RestartSource, AfterError,
                      poller
  <2>2. tries' \in Nat
    BY <1>1, <1>8 DEF Poll, Refused, NextMirror, TimesOut, Published, Stop, RestartSource, poller
  <2>. QED
    BY <1>1, <1>2, <2>1, <2>2, PriceKeeps
<1>9. CASE Trade \/ Accept \/ Answer \/ Shutdown \/ UNCHANGED sourceVars
           \/ \E m \in Hosts, w \in {"ok", "error", "hang"} : Weather(m, w)
  <2>1. /\ market' \in Nat /\ market' >= market
        /\ UNCHANGED <<kind, pc, active, tries, batch, tickRaw>>
    BY <1>1, <1>9 DEF Trade, Accept, Answer, Shutdown, Weather, sourceVars, poller
  <2>. QED
    BY <1>1, <1>2, <2>1, PriceKeeps
<1>. QED
  BY <1>4, <1>5, <1>6, <1>7, <1>8, <1>9 DEF SourceNext, Source

\* What tick_raw holds of a symbol never becomes older by a tick of the same
\* sender, be it the simulator, a client or one of the mirrors.
THEOREM BackSafe == SourceSpec => BackOnlyBySender
<1>1. SourceInit => PriceInv
  <2> SUFFICES ASSUME SourceInit PROVE PriceInv
    OBVIOUS
  <2>1. \A w \in Hosts \cup {Simulator, Client} : Newest(w) \in Nat \ {0}
    BY NewestType DEF SourceInit
  <2>2. 0 \in Hosts
    BY HostNumbers
  <2>3. tickRaw \in [Polled -> [version : Nat, from : Hosts \cup {Simulator, Client}]]
    BY <2>2 DEF SourceInit
  <2>4. SourceTypes
    BY <2>2, <2>3 DEF SourceInit, SourceTypes
  <2>5. TopicInv
    BY <2>1, <2>2 DEF SourceInit, TopicInv
  <2>. QED
    BY <2>4, <2>5 DEF SourceInit, PriceInv, BatchInv
<1>2. PriceInv /\ [SourceNext]_sourceVars =>
        PriceInv' /\ [\A s \in Polled : tickRaw'[s].version < tickRaw[s].version =>
                                          tickRaw'[s].from # tickRaw[s].from]_sourceVars
  BY PriceStep
<1>. QED
  BY <1>1, <1>2, PTL DEF SourceSpec, BackOnlyBySender

-----------------------------------------------------------------------------
(* TickPush: offsets                                                       *)

\* A message on its way to a commit has been fetched.
Fetched(m) == m = None \/ (m \in Partitions \X Nat /\ m[2] < pos[m[1]])

OffsetType ==
    /\ pos \in [Partitions -> Nat] /\ committed \in [Partitions -> Nat]
    /\ hand \in {None} \cup (Partitions \X Nat)

\* Everything before the position was merged; nothing beyond it is committed,
\* or about to be.
OffsetInv ==
    /\ OffsetType
    /\ \A p \in Partitions : \A o \in 0..(pos[p] - 1) : <<p, o>> \in merged
    /\ \A p \in Partitions : committed[p] <= pos[p]
    /\ Fetched(hand) /\ Fetched(pending) /\ Fetched(taken)

\* What may be committed: a partition's position is an upper bound.
Commitable(c) == c \in [Partitions -> Nat] /\ \A p \in Partitions : c[p] <= pos[p]

\* A commit of a fetched message (CommitMessages) does not pass the position.
LEMMA CommitOfFetched ==
  ASSUME NEW m, NEW c, OffsetInv, Commitable(c), Fetched(m)
  PROVE  Commitable(CommitOf(m, c))
<1>1. CASE m = None
  BY <1>1 DEF CommitOf
<1>2. CASE m \in Partitions \X Nat /\ m[2] < pos[m[1]] /\ m # None
  <2>1. PICK p \in Partitions, o \in Nat : m = <<p, o>>
    BY <1>2
  <2>2. CommitOf(m, c) = [c EXCEPT ![p] = o + 1] /\ o < pos[p] /\ pos[p] \in Nat
    BY <1>2, <2>1 DEF CommitOf, OffsetInv, OffsetType
  <2>. QED
    BY <2>2 DEF Commitable
<1>. QED
  BY <1>1, <1>2 DEF Fetched

LEMMA OffsetInit == Init => OffsetInv
<1> SUFFICES ASSUME Init PROVE OffsetInv
  OBVIOUS
<1>1. OffsetType /\ \A p \in Partitions : pos[p] = 0 /\ committed[p] = 0
  BY DEF Init, OffsetType
<1>2. Fetched(hand) /\ Fetched(pending) /\ Fetched(taken)
  BY DEF Init, Fetched
<1>. QED
  BY <1>1, <1>2 DEF OffsetInv

LEMMA OffsetStep == OffsetInv /\ [Next]_vars => OffsetInv'
<1> SUFFICES ASSUME OffsetInv, [Next]_vars PROVE OffsetInv'
  OBVIOUS
<1>1. CASE UNCHANGED <<pos, hand, merged, offsets>>
  BY <1>1 DEF offsets, OffsetInv, OffsetType, Fetched
<1>2. ASSUME NEW p \in Partitions, Consume(p) PROVE OffsetInv'
  <2>1. pos' = [pos EXCEPT ![p] = pos[p] + 1] /\ pos[p] \in Nat
    BY <1>2 DEF Consume, OffsetInv, OffsetType
  <2>2. OffsetType'
    BY <1>2, <2>1 DEF Consume, offsets, OffsetInv, OffsetType
  <2>3. \A q \in Partitions : pos[q] \in Nat /\ pos'[q] \in Nat /\ pos[q] <= pos'[q]
    BY <2>1 DEF OffsetInv, OffsetType
  <2>4. \A q \in Partitions : \A o \in 0..(pos'[q] - 1) : <<q, o>> \in merged'
    <3> SUFFICES ASSUME NEW q \in Partitions, NEW o \in 0..(pos'[q] - 1)
                 PROVE  <<q, o>> \in merged'
      OBVIOUS
    <3>1. merged' = merged \cup {<<p, pos[p]>>}
      BY <1>2 DEF Consume
    <3>2. pos'[q] = IF q = p THEN pos[p] + 1 ELSE pos[q]
      BY <2>1 DEF OffsetInv, OffsetType
    <3>3. o \in 0..(pos[q] - 1) \/ (q = p /\ o = pos[p])
      BY <2>1, <2>3, <3>2
    <3>. QED
      BY <3>1, <3>3 DEF OffsetInv
  <2>5. \A q \in Partitions : committed'[q] <= pos'[q]
    BY <1>2, <2>3 DEF Consume, offsets, OffsetInv, OffsetType
  <2>6. ASSUME NEW m, Fetched(m)
        PROVE  m = None \/ (m \in Partitions \X Nat /\ m[2] < pos'[m[1]])
    <3>1. m # None => m[1] \in Partitions /\ m[2] \in Nat
      BY <2>6 DEF Fetched
    <3>. QED
      BY <2>3, <2>6, <3>1 DEF Fetched
  <2>7. hand' = <<p, pos[p]>> /\ pos[p] < pos'[p]
    BY <1>2, <2>1 DEF Consume, OffsetInv, OffsetType
  <2>8. Fetched(hand)' /\ Fetched(pending)' /\ Fetched(taken)'
    BY <1>2, <2>1, <2>6, <2>7 DEF Consume, offsets, OffsetInv, Fetched
  <2>. QED
    BY <2>2, <2>4, <2>5, <2>8 DEF OffsetInv
<1>3. CASE Mark
  <2>1. pending' \in {hand, pending}
    BY <1>3 DEF Mark, Marked
  <2>. QED
    BY <1>3, <2>1 DEF Mark, OffsetInv, OffsetType, Fetched
<1>4. CASE Take
  BY <1>4 DEF Take, consumer, OffsetInv, OffsetType, Fetched
<1>5. CASE Commit
  <2>1. committed' \in {committed, CommitOf(taken, committed)}
    BY <1>5 DEF Commit, Commits, CommitOf
  <2>2. Commitable(committed')
    BY <2>1, CommitOfFetched DEF Commitable, OffsetInv, OffsetType
  <2>3. UNCHANGED <<pos, hand, merged, pending>> /\ taken' = None
    BY <1>5 DEF Commit, consumer
  <2>. QED
    BY <2>2, <2>3 DEF Commitable, OffsetInv, OffsetType, Fetched
<1>6. CASE Restart
  <2>1. Commitable(committed)
    BY DEF Commitable, OffsetInv, OffsetType
  <2>2. /\ Commitable(CommitOf(taken, committed))
        /\ Commitable(CommitOf(pending, committed))
    BY <2>1, CommitOfFetched DEF OffsetInv
  <2>3. /\ Commitable(CommitOf(pending, CommitOf(taken, committed)))
        /\ Commitable(CommitOf(taken, CommitOf(pending, committed)))
    BY <2>2, CommitOfFetched DEF OffsetInv
  <2>4. Commitable(committed') /\ pos' = committed'
    BY <1>6, <2>1, <2>2, <2>3 DEF Restart
  <2>5. merged' = merged /\ hand' = None /\ pending' = None /\ taken' = None
    BY <1>6 DEF Restart
  <2>6. \A p \in Partitions : pos[p] \in Nat /\ pos'[p] \in Nat /\ pos'[p] <= pos[p]
    BY <2>4 DEF Commitable, OffsetInv, OffsetType
  <2>7. \A p \in Partitions : \A o \in 0..(pos'[p] - 1) : <<p, o>> \in merged'
    <3> SUFFICES ASSUME NEW p \in Partitions, NEW o \in 0..(pos'[p] - 1)
                 PROVE  <<p, o>> \in merged
      BY <2>5
    <3>1. o \in 0..(pos[p] - 1)
      BY <2>6
    <3>. QED
      BY <3>1 DEF OffsetInv
  <2>. QED
    BY <2>4, <2>5, <2>6, <2>7 DEF OffsetInv, OffsetType, Commitable, Fetched
<1>7. CASE Flusher
  BY <1>7, <1>1 DEF Flusher, Flush, ResolveWindow, Publish, Flushed, consumer
<1>8. CASE BarLoop \/ Environment \/ UNCHANGED vars
  BY <1>8, <1>1 DEF BarLoop, WriteBar, PushBar, Environment, vars, consumer
<1>. QED
  BY <1>2, <1>3, <1>4, <1>5, <1>6, <1>7, <1>8 DEF Next, Consumer

\* A restart reads every tick again that no process has merged: at no time is
\* an offset committed that Add has not seen, whatever the consumer, the
\* committer and a stop do to offsetPending.
THEOREM CommittedSafe == Spec => []CommittedWasMerged
<1>1. OffsetInv => CommittedWasMerged
  <2> SUFFICES ASSUME OffsetInv, NEW p \in Partitions, NEW o \in 0..(committed[p] - 1)
               PROVE  <<p, o>> \in merged
    BY DEF CommittedWasMerged
  <2>1. o \in 0..(pos[p] - 1)
    BY DEF OffsetInv, OffsetType
  <2>. QED
    BY <2>1 DEF OffsetInv
<1>. QED
  BY OffsetInit, OffsetStep, <1>1, PTL DEF Spec

-----------------------------------------------------------------------------
(* The snapshots                                                           *)

\* From the drain to the end of the flush Redis has the window.
WindowInv ==
    fpc \in {"resolve", "publish"} =>
        \A s \in InWindow : snap[s] = win[s] \/ s \in snapLost

LEMMA WindowInit == Init => WindowInv
BY DEF Init, WindowInv

LEMMA WindowStep == WindowInv /\ [Next]_vars => WindowInv'
<1> SUFFICES ASSUME WindowInv, [Next]_vars PROVE WindowInv'
  OBVIOUS
<1>. USE DEF WindowInv, InWindow
<1>1. CASE UNCHANGED <<win, snap, snapLost>> /\ (fpc' # fpc => fpc = "resolve")
  BY <1>1
<1>2. CASE Flush
  <2>1. win' = latest
    BY <1>2 DEF Flush
  <2>2. PICK ok \in SUBSET {s \in Symbols : latest[s] > 0} :
            /\ snap' = Written(ok)
            /\ \A s \in Symbols : latest[s] > 0 => s \in ok \/ s \in snapLost'
    <3>1. CASE snap' = Written({s \in Symbols : latest[s] > 0})
      BY <3>1
    <3>2. CASE \E ok \in SUBSET {s \in Symbols : latest[s] > 0} :
                  /\ snap' = Written(ok)
                  /\ snapLost' = snapLost \cup ({s \in Symbols : latest[s] > 0} \ ok)
      BY <3>2
    <3>. QED
      BY <1>2, <3>1, <3>2 DEF Flush
  <2>3. \A s \in ok : snap'[s] = latest[s]
    BY <2>2 DEF Written
  <2>. QED
    BY <2>1, <2>2, <2>3
<1>3. CASE ResolveWindow
  BY <1>3, <1>1 DEF ResolveWindow, EndFlush
<1>4. CASE Flushed \/ Restart
  BY <1>4 DEF Flushed, Restart, EndFlush
<1>5. ASSUME NEW t \in Gateways \X Slots, Publish(t) PROVE WindowInv'
  BY <1>5, <1>1 DEF Publish
<1>6. CASE Consumer \/ Take \/ Commit
  BY <1>6, <1>1 DEF Consumer, Consume, Mark, Take, Commit, flusher
<1>7. CASE BarLoop \/ Environment \/ UNCHANGED vars
  BY <1>7, <1>1 DEF BarLoop, WriteBar, PushBar, Environment, vars, flusher
<1>. QED
  BY <1>2, <1>3, <1>4, <1>5, <1>6, <1>7 DEF Next, Flusher

\* A quote in ws_push is in snap:{symbol} too, or the pipeline of
\* WriteSnapshots failed for it: nothing writes between the two.
THEOREM SnapshotSafe == Spec => PublishedIsInSnapshot
<1>1. ASSUME WindowInv, [Next]_vars, NEW s \in Symbols, pushed'[s] \notin {pushed[s], 0}
      PROVE  snap[s] = pushed'[s] \/ s \in snapLost
  <2>1. CASE UNCHANGED pushed \/ pushed' = NoItems
    BY <1>1, <2>1 DEF NoItems
  <2>2. ASSUME NEW t \in Gateways \X Slots, Publish(t)
        PROVE  snap[s] = pushed'[s] \/ s \in snapLost
    <3>1. s \in InWindow /\ pushed'[s] = win[s] /\ fpc = "publish"
      BY <1>1, <2>2 DEF Publish
    <3>. QED
      BY <1>1, <3>1 DEF WindowInv
  <2>3. CASE Flush \/ ResolveWindow \/ Flushed \/ Restart
    BY <2>1, <2>3 DEF Flush, ResolveWindow, Flushed, Restart
  <2>4. CASE Consumer \/ Take \/ Commit
    BY <2>1, <2>4 DEF Consumer, Consume, Mark, Take, Commit, flusher
  <2>5. CASE BarLoop \/ Environment \/ UNCHANGED vars
    BY <2>1, <2>5 DEF BarLoop, WriteBar, PushBar, Environment, vars, flusher
  <2>. QED
    BY <1>1, <2>2, <2>3, <2>4, <2>5 DEF Next, Flusher
<1>2. WindowInv /\ [Next]_vars =>
        [\A s \in Symbols : pushed'[s] \notin {pushed[s], 0} =>
                              snap[s] = pushed'[s] \/ s \in snapLost]_vars
  BY <1>1
<1>. QED
  BY <1>2, WindowInit, WindowStep, PTL DEF Spec, PublishedIsInSnapshot

-----------------------------------------------------------------------------
(* The routes                                                              *)

IndexType ==
    /\ index \in [Keys -> SUBSET (Gateways \cup Slots)]
    /\ \A g \in Gateways : index[g] \subseteq Slots
    /\ now \in Nat /\ moved \in [Keys -> Int]

\* An entry of the cache is the set that Redis holds, or one it has held since
\* the entry was read: the key has moved since.
CacheInv ==
    \A k \in Keys : LET read == cache[k].expires - TTL IN
        \/ cache[k] = Miss
        \/ /\ cache[k].expires \in Int /\ read <= now
           /\ read > moved[k] => cache[k].vals = index[k]

RouterInv == IndexType /\ CacheInv

LEMMA MinOfNat == ASSUME NEW S \in SUBSET Nat, S # {}
                  PROVE  Min(S) \in S /\ \A n \in S : Min(S) <= n
<1>. DEFINE Less == {ss \in Nat \X Nat : ss[1] < ss[2]}
<1>1. IsWellFoundedOn(Less, Nat)
  BY NatLessThanWellFounded DEF OpToRel
<1>. HIDE DEF Less
<1>2. PICK x \in S : \A y \in S : ~ (<<y, x>> \in Less)
  BY <1>1, WFMin
<1>3. \A y \in S : x <= y
  <2> SUFFICES ASSUME NEW y \in S PROVE ~(y < x)
    OBVIOUS
  <2>1. y < x => <<y, x>> \in Less
    BY DEF Less
  <2>. QED
    BY <1>2, <2>1
<1>. QED
  BY <1>3 DEF Min

LEMMA RouterStart == Init => RouterInv
<1> SUFFICES ASSUME Init PROVE RouterInv
  OBVIOUS
<1>1. Min(Slots) \in Slots
  BY MinOfNat, RouterAssumption
<1>2. TTL \in Nat /\ Symbols \cap Gateways = {}
  BY RouterAssumption
<1>3. IndexType
  BY <1>1, <1>2 DEF Init, RouterInit, IndexType, Keys
<1>4. CacheInv
  BY DEF Init, RouterInit, CacheInv
<1>. QED
  BY <1>3, <1>4 DEF RouterInv

\* Reading keys into the cache (Resolve, whether it succeeds or not).
LEMMA FillKeeps ==
  ASSUME RouterInv, NEW K, Fill(K), UNCHANGED <<now, index, moved>>
  PROVE  RouterInv'
<1>1. IndexType'
  BY DEF RouterInv, IndexType
<1>2. ASSUME NEW k \in Keys
      PROVE  cache'[k] = cache[k] \/ cache'[k] = [vals |-> index[k], expires |-> now + TTL]
  BY DEF Fill
<1>3. now \in Nat /\ TTL \in Nat
  BY RouterAssumption DEF RouterInv, IndexType
<1>4. CacheInv'
  <2> SUFFICES ASSUME NEW k \in Keys, cache'[k] # Miss
               PROVE  LET read == cache'[k].expires - TTL IN
                      /\ cache'[k].expires \in Int /\ read <= now
                      /\ read > moved[k] => cache'[k].vals = index[k]
    BY DEF CacheInv
  <2>1. CASE cache'[k] = cache[k]
    BY <2>1 DEF RouterInv, CacheInv
  <2>2. CASE cache'[k] = [vals |-> index[k], expires |-> now + TTL]
    BY <1>3, <2>2
  <2>. QED
    BY <1>2, <2>1, <2>2
<1>. QED
  BY <1>1, <1>4 DEF RouterInv

LEMMA RouterStep == RouterInv /\ [Next]_vars => RouterInv'
<1> SUFFICES ASSUME RouterInv, [Next]_vars PROVE RouterInv'
  OBVIOUS
<1>0. TTL \in Nat /\ now \in Nat /\ moved \in [Keys -> Int]
  BY RouterAssumption DEF RouterInv, IndexType
<1>1. CASE UNCHANGED routing
  BY <1>1 DEF routing, RouterInv, IndexType, CacheInv
<1>2. CASE Tick
  BY <1>0, <1>2 DEF Tick, RouterInv, IndexType, CacheInv
<1>3. ASSUME NEW k \in Keys, NEW S, Move(k, S),
             S \subseteq Gateways \cup Slots, k \in Gateways => S \subseteq Slots
      PROVE  RouterInv'
  <2>1. IndexType'
    BY <1>3 DEF Move, RouterInv, IndexType
  <2>2. CacheInv'
    <3> SUFFICES ASSUME NEW j \in Keys, cache[j] # Miss
                 PROVE  LET read == cache[j].expires - TTL IN
                        /\ cache[j].expires \in Int /\ read <= now
                        /\ read > moved'[j] => cache[j].vals = index'[j]
      BY <1>3 DEF Move, CacheInv
    <3>1. /\ cache[j].expires \in Int /\ cache[j].expires - TTL <= now
          /\ cache[j].expires - TTL > moved[j] => cache[j].vals = index[j]
      BY DEF RouterInv, CacheInv
    <3>2. CASE j = k
      BY <1>0, <1>3, <3>1, <3>2 DEF Move
    <3>3. CASE j # k
      BY <1>0, <1>3, <3>1, <3>3 DEF Move, RouterInv, IndexType
    <3>. QED
      BY <3>2, <3>3
  <2>. QED
    BY <2>1, <2>2 DEF RouterInv
<1>4. CASE Environment
  <2>1. ASSUME NEW s \in Symbols, NEW G \in SUBSET Gateways, Move(s, G) PROVE RouterInv'
    BY <1>3, <2>1, RouterAssumption DEF Keys
  <2>2. ASSUME NEW g \in Gateways, NEW K \in SUBSET Slots, Move(g, K) PROVE RouterInv'
    BY <1>3, <2>2 DEF Keys
  <2>. QED
    BY <1>2, <1>4, <2>1, <2>2 DEF Environment
<1>5. CASE Restart
  BY <1>5 DEF Restart, ForgetRoutes, RouterInv, IndexType, CacheInv
<1>6. CASE ResolveWindow
  BY <1>6, FillKeeps DEF ResolveWindow, ResolveFails
<1>7. CASE PushBar
  BY <1>7, FillKeeps DEF PushBar, ResolveFails
<1>8. CASE Consumer \/ Take \/ Commit
  BY <1>8, <1>1 DEF Consumer, Consume, Mark, Take, Commit
<1>9. CASE Flush \/ Flushed \/ \E t \in Gateways \X Slots : Publish(t)
  BY <1>9, <1>1 DEF Flush, Flushed, Publish
<1>10. CASE WriteBar \/ UNCHANGED vars
  BY <1>10, <1>1 DEF WriteBar, vars
<1>. QED
  BY <1>4, <1>5, <1>6, <1>7, <1>8, <1>9, <1>10 DEF Next, Flusher, BarLoop

\* What is read for a key that has not moved for longer than an entry lives.
LEMMA SettledRead ==
  ASSUME RouterInv, NEW k \in Keys, moved[k] < now - TTL
  PROVE  Read(k) = index[k]
<1>1. TTL \in Nat /\ now \in Nat /\ moved[k] \in Int
  BY RouterAssumption DEF RouterInv, IndexType
<1>2. CASE cache[k] = Miss
  BY <1>1, <1>2 DEF Read, Cached, Miss
<1>3. CASE cache[k] # Miss
  <2>1. /\ cache[k].expires \in Int
        /\ cache[k].expires - TTL > moved[k] => cache[k].vals = index[k]
    BY <1>3 DEF RouterInv, CacheInv
  <2>2. Cached(k) => cache[k].expires - TTL > moved[k]
    BY <1>1, <2>1 DEF Cached
  <2>. QED
    BY <2>1, <2>2 DEF Read
<1>. QED
  BY <1>2, <1>3

\* A quote goes to the least slot of an instance that is subscribed and holds
\* one, and to no other place, when both sets have been still for longer than
\* routeCache keeps them.
THEOREM RoutesSafe == Spec => SettledIndexIsObeyed
<1>1. ASSUME RouterInv, [Next]_vars, fpc = "resolve", fpc' = "publish",
             NEW s \in InWindow, NEW g \in Gateways,
             moved[s] < now - TTL, moved[g] < now - TTL,
             NEW k \in Slots
      PROVE  <<g, k>> \in route'[s] <=>
                 g \in index[s] /\ k \in index[g] /\ \A j \in index[g] : k <= j
  <2>1. ResolveWindow /\ route' = Resolved(InWindow)
    <3>1. CASE Flush \/ Flushed \/ Restart \/ \E t \in Gateways \X Slots : Publish(t)
      BY <1>1, <3>1 DEF Flush, Flushed, Restart, EndFlush, Publish
    <3>2. CASE Consumer \/ Take \/ Commit
      BY <1>1, <3>2 DEF Consumer, Consume, Mark, Take, Commit, flusher
    <3>3. CASE BarLoop \/ Environment \/ UNCHANGED vars
      BY <1>1, <3>3 DEF BarLoop, WriteBar, PushBar, Environment, vars, flusher
    <3>4. CASE ResolveWindow
      BY <1>1, <3>4 DEF ResolveWindow, EndFlush
    <3>. QED
      BY <1>1, <3>1, <3>2, <3>3, <3>4 DEF Next, Flusher
  <2>2. s \in Keys /\ g \in Keys
    BY DEF Keys, InWindow
  <2>3. Read(s) = index[s] /\ Read(g) = index[g]
    BY <1>1, <2>2, SettledRead
  <2>4. <<g, k>> \in route'[s] <=> g \in index[s] /\ index[g] # {} /\ k = Min(index[g])
    BY <2>1, <2>3 DEF Resolved, Targets
  <2>5. index[g] \subseteq Nat
    BY <1>1, RouterAssumption DEF RouterInv, IndexType
  <2>6. CASE index[g] = {}
    BY <2>4, <2>6
  <2>7. CASE index[g] # {}
    <3>1. Min(index[g]) \in index[g] /\ \A j \in index[g] : Min(index[g]) <= j
      BY <2>5, <2>7, MinOfNat
    <3>2. k = Min(index[g]) <=> k \in index[g] /\ \A j \in index[g] : k <= j
      BY <2>5, <3>1
    <3>. QED
      BY <2>4, <2>7, <3>2
  <2>. QED
    BY <2>6, <2>7
<1>2. RouterInv /\ [Next]_vars =>
        [fpc = "resolve" /\ fpc' = "publish" =>
            \A s \in InWindow, g \in Gateways :
                moved[s] < now - TTL /\ moved[g] < now - TTL =>
                    \A k \in Slots : <<g, k>> \in route'[s] <=>
                        g \in index[s] /\ k \in index[g] /\ \A j \in index[g] : k <= j
          ]_vars
  BY <1>1
<1>. QED
  BY <1>2, RouterStart, RouterStep, PTL DEF Spec, SettledIndexIsObeyed

-----------------------------------------------------------------------------
(* The K-line loop                                                         *)

\* The bars of a symbol come in the order of their time: KlineJob's records
\* have the symbol as key.  (A job that starts again and sends bars twice
\* would break it.)
BarsInOrder ==
    \A i, j \in DOMAIN BarLog :
        i <= j /\ BarLog[i].sym = BarLog[j].sym => BarLog[i].ts <= BarLog[j].ts

\* kline:cur is as new as bar i.
IsCurrent(i) ==
    BarLog[i].sym # NoSymbol =>
        barCur[BarLog[i].sym] >= BarLog[i].ts \/ BarLog[i].sym \in barLost

\* The bars whose write is behind the loop.
Behind == IF bpc = "commit" THEN bpos + 1 ELSE bpos

BarInv ==
    /\ bpc \in {"fetch", "commit"}
    /\ bpos \in Nat /\ bcommitted \in Nat /\ bcommitted <= bpos
    /\ Behind <= Len(BarLog)
    /\ barCur \in [Symbols -> Nat]
    /\ \A i \in 1..Behind : IsCurrent(i)

LEMMA BarType ==
  ASSUME NEW i \in 1..Len(BarLog)
  PROVE  BarLog[i].sym \in Symbols \cup {NoSymbol} /\ BarLog[i].ts \in Nat
<1>. DEFINE Bars == [sym : Symbols \cup {NoSymbol}, ts : Nat]
<1>1. BarLog \in Seq(Bars)
  BY TickPushAssumption
<1>. HIDE DEF Bars
<1>2. BarLog[i] \in Bars
  BY <1>1
<1>. QED
  BY <1>2 DEF Bars

LEMMA BarStep == BarsInOrder /\ BarInv /\ [Next]_vars => BarInv'
<1> SUFFICES ASSUME BarsInOrder, BarInv, [Next]_vars PROVE BarInv'
  OBVIOUS
<1>1. CASE UNCHANGED bars
  BY <1>1 DEF bars, BarInv, Behind, IsCurrent
<1>2. CASE WriteBar
  <2>1. bpc = "fetch" /\ bpc' = "commit" /\ UNCHANGED <<bpos, bcommitted>>
    BY <1>2 DEF WriteBar
  <2>2. bpos + 1 \in 1..Len(BarLog) /\ Len(BarLog) \in Nat /\ DOMAIN BarLog = 1..Len(BarLog)
    BY <1>2, TickPushAssumption DEF WriteBar, BarInv
  <2>3. Bar.sym \in Symbols \cup {NoSymbol} /\ Bar.ts \in Nat
    BY <2>2, BarType DEF Bar
  <2>4. barCur' \in [Symbols -> Nat]
    BY <1>2, <2>3 DEF WriteBar, Current, BarInv
  <2>5. ASSUME NEW i \in 1..(bpos + 1) PROVE IsCurrent(i)'
    <3>1. i \in 1..Len(BarLog)
      BY <2>2, <2>5 DEF BarInv
    <3>2. BarLog[i].sym \in Symbols \cup {NoSymbol} /\ BarLog[i].ts \in Nat
      BY <3>1, BarType
    <3>3. BarLog[i].sym = Bar.sym => BarLog[i].ts <= Bar.ts
      BY <2>2, <3>1 DEF BarsInOrder, Bar, BarInv
    <3>4. i # bpos + 1 => IsCurrent(i)
      BY <2>1 DEF BarInv, Behind
    <3>5. i = bpos + 1 => BarLog[i] = Bar
      BY DEF Bar
    <3>6. CASE barCur' = Current(Bar) /\ barLost' = barLost
      BY <2>3, <3>2, <3>3, <3>4, <3>5, <3>6 DEF IsCurrent, Current, BarInv
    <3>7. CASE barCur' = barCur /\ barLost' = barLost \cup {Bar.sym}
      BY <3>4, <3>5, <3>7 DEF IsCurrent
    <3>. QED
      BY <1>2, <3>6, <3>7 DEF WriteBar
  <2>. QED
    BY <2>1, <2>2, <2>4, <2>5 DEF BarInv, Behind
<1>3. CASE PushBar
  <2>1. /\ bpc = "commit" /\ bpc' = "fetch" /\ bpos' = bpos + 1
        /\ UNCHANGED <<barCur, barLost>> /\ bcommitted' \in {bcommitted, bpos + 1}
    BY <1>3 DEF PushBar
  <2>. QED
    BY <2>1 DEF BarInv, Behind, IsCurrent
<1>4. CASE Restart
  <2>1. /\ bpc' = "fetch" /\ bpos' = bcommitted
        /\ UNCHANGED <<bcommitted, barCur, barLost>>
    BY <1>4 DEF Restart
  <2>2. Len(BarLog) \in Nat
    BY TickPushAssumption
  <2>. QED
    BY <2>1, <2>2 DEF BarInv, Behind, IsCurrent
<1>5. CASE Consumer \/ Take \/ Commit
  BY <1>5, <1>1 DEF Consumer, Consume, Mark, Take, Commit
<1>6. CASE Flusher
  BY <1>6, <1>1 DEF Flusher, Flush, ResolveWindow, Flushed, Publish
<1>7. CASE Environment \/ UNCHANGED vars
  BY <1>7, <1>1 DEF Environment, vars
<1>. QED
  BY <1>2, <1>3, <1>4, <1>5, <1>6, <1>7 DEF Next, BarLoop

\* Bars that are written again after a restart do not leave kline:cur behind
\* the committed offset, if the topic has a symbol's bars in order.
THEOREM BarsSafe == BarsInOrder /\ Spec => []CommittedBarIsCurrent
<1> SUFFICES ASSUME BarsInOrder PROVE Spec => []CommittedBarIsCurrent
  OBVIOUS
<1>1. Init => BarInv
  <2>1. Len(BarLog) \in Nat
    BY TickPushAssumption
  <2>. QED
    BY <2>1 DEF Init, BarInv, Behind, NoItems
<1>2. BarInv /\ [Next]_vars => BarInv'
  BY BarStep
<1>3. BarInv => CommittedBarIsCurrent
  <2> SUFFICES ASSUME BarInv, NEW i \in 1..bcommitted PROVE IsCurrent(i)
    BY DEF CommittedBarIsCurrent, IsCurrent
  <2>1. i \in 1..Behind
    BY DEF BarInv, Behind
  <2>. QED
    BY <2>1 DEF BarInv
<1>. QED
  BY <1>1, <1>2, <1>3, PTL DEF Spec

-----------------------------------------------------------------------------
(* RuleMatch: the state of a rule                                          *)

\* What the matcher keeps of one rule, and what a tick makes of it.
View(st, r) == [rule |-> st.rules[r], last |-> st.last[r], ref |-> st.ref[r]]

IsKind(v, k)   == v.rule.ver >= 0 /\ v.rule.kind = k
Full(v, tick)  == v.ref # NoRef /\ tick.ts - v.ref.ts >= v.rule.gap * PerSecond

TellsPlain(v, tick) == /\ IsKind(v, "plain") /\ Matches(tick)
                       /\ ~(Second(tick) - v.last < v.rule.gap)
TellsSpike(v, tick) == /\ IsKind(v, "spike") /\ Full(v, tick)
                       /\ SpikeTriggered(v.ref, tick)
Tells(v, tick) == TellsPlain(v, tick) \/ TellsSpike(v, tick)

After(v, tick) ==
    [rule |-> v.rule,
     last |-> IF TellsPlain(v, tick) THEN Second(tick) ELSE v.last,
     ref  |-> IF IsKind(v, "spike") /\ (v.ref = NoRef \/ Full(v, tick))
              THEN [price |-> tick.price, ts |-> tick.ts] ELSE v.ref]

Tale(r, v, tick) == [rule |-> r, ver |-> v.rule.ver, kind |-> v.rule.kind,
                     sec |-> Second(tick), gap |-> v.rule.gap]

RuleStates == {NoRule} \cup [ver : Nat, kind : {"plain", "spike"}, gap : Gaps]
Lasts == {Never} \cup Nat
Refs  == {NoRef} \cup [price : Nat \ {0}, ts : Nat]
Views == [rule : RuleStates, last : Lasts, ref : Refs]

OperatorStates == [t : Nat, b : Nat, rules : [Rules -> RuleStates],
                   last : [Rules -> Lasts], ref : [Rules -> Refs]]

Tellable == [rule : Rules, ver : Nat, kind : {"plain", "spike"}, sec : Nat, gap : Gaps]

MatchTypes ==
    /\ ticks \in Seq(Ticks) /\ bcast \in Seq(Messages)
    /\ state \in OperatorStates /\ saved \in OperatorStates
    /\ saved.t <= state.t /\ state.t <= Len(ticks)
    /\ saved.b <= state.b /\ state.b <= Len(bcast)
    /\ alerts \subseteq Tellable
    /\ reordered \subseteq Rules /\ failures \in Nat

-----------------------------------------------------------------------------
LEMMA MatchConstants ==
  /\ Gaps \subseteq 1..100 /\ PerSecond \in Nat \ {0}
  /\ Threshold \in Nat /\ Jump \in Nat /\ MaxFailures \in Nat
  /\ \A tick \in Ticks : /\ tick.ts \in Nat /\ tick.price \in Nat \ {0}
                         /\ Second(tick) \in Nat
<1>1. /\ Gaps \subseteq 1..100 /\ PerSecond \in Nat \ {0}
      /\ Threshold \in Nat /\ Jump \in Nat /\ MaxFailures \in Nat
      /\ Times \subseteq Nat /\ Prices \subseteq Nat \ {0}
  BY MatchAssumption
<1>2. ASSUME NEW tick \in Ticks
      PROVE  tick.ts \in Nat /\ tick.price \in Nat \ {0}
  BY <1>1 DEF Ticks
<1>3. \A n \in Nat, p \in Nat \ {0} : n \div p \in Nat
  OBVIOUS
<1>. QED
  BY <1>1, <1>2, <1>3 DEF Second

\* Full seconds that lie gap seconds apart.
LEMMA SecondsApart ==
  ASSUME NEW a \in Nat, NEW b \in Nat, NEW g \in Nat, NEW p \in Nat \ {0}, b - a >= g * p
  PROVE  (b \div p) - (a \div p) >= g
<1>. DEFINE qa == a \div p
            qb == b \div p
<1>1. /\ qa \in Nat /\ qb \in Nat
      /\ p * qa <= a /\ b < p * qb + p
  OBVIOUS
<1>. HIDE DEF qa, qb
<1>2. SUFFICES ASSUME qb - qa < g PROVE FALSE
  BY <1>1 DEF qa, qb
<1>3. PICK d \in Nat : qa + g = qb + 1 + d
  <2>1. qa + g - qb - 1 \in Nat
    BY <1>1, <1>2
  <2>. QED
    BY <1>1, <2>1
<1>4. p * (qa + g) = p * (qb + 1 + d)
  BY <1>3
<1>5. p * (qa + g) = p * qa + g * p /\ p * (qb + 1 + d) = p * qb + p + p * d /\ p * d >= 0
  BY <1>1
<1>. QED
  BY <1>1, <1>4, <1>5

LEMMA AfterType ==
  ASSUME NEW v \in Views, NEW tick \in Ticks
  PROVE  After(v, tick) \in Views
<1>1. tick.ts \in Nat /\ tick.price \in Nat \ {0} /\ Second(tick) \in Nat
  BY MatchConstants
<1>2. v.rule \in RuleStates /\ v.last \in Lasts /\ v.ref \in Refs
  BY DEF Views
<1>3. [price |-> tick.price, ts |-> tick.ts] \in Refs
  BY <1>1 DEF Refs
<1>. QED
  BY <1>1, <1>2, <1>3 DEF After, Views, Lasts

\* A rule that can tell is one of the bcast', and gaps are numbers.
LEMMA KindType ==
  ASSUME NEW v \in Views, NEW k \in {"plain", "spike"}, IsKind(v, k)
  PROVE  /\ v.rule \in [ver : Nat, kind : {"plain", "spike"}, gap : Gaps]
         /\ v.rule.gap \in 1..100 /\ v.rule.ver \in Nat /\ v.rule.kind = k
<1>1. v.rule \in RuleStates
  BY DEF Views
<1>2. v.rule # NoRule
  BY DEF IsKind, NoRule
<1>. QED
  BY <1>1, <1>2, MatchConstants DEF RuleStates, IsKind

-----------------------------------------------------------------------------
\* An alert that was told when the rule was in this state, or before.
Covered(a, v) ==
    /\ a.kind = "plain" => v.last # Never /\ a.sec <= v.last
    /\ a.kind = "spike" => v.ref # NoRef /\ a.sec <= v.ref.ts \div PerSecond

\* What is told is a gap later than what was told before,
LEMMA TellsApart ==
  ASSUME NEW v \in Views, NEW tick \in Ticks,
         NEW a \in Tellable, Covered(a, v), Tells(v, tick), v.rule.kind = a.kind
  PROVE  Second(tick) - a.sec >= v.rule.gap
<1>1. tick.ts \in Nat /\ Second(tick) \in Nat /\ PerSecond \in Nat \ {0} /\ a.sec \in Nat
  BY MatchConstants DEF Tellable
<1>2. CASE TellsPlain(v, tick)
  <2>1. v.rule.gap \in 1..100 /\ v.rule.kind = "plain"
    BY <1>2, KindType DEF TellsPlain
  <2>2. v.last \in Nat /\ a.sec <= v.last
    BY <2>1 DEF Covered, Views, Lasts
  <2>3. ~(Second(tick) - v.last < v.rule.gap)
    BY <1>2 DEF TellsPlain
  <2>. QED
    BY <1>1, <2>1, <2>2, <2>3
<1>3. CASE TellsSpike(v, tick)
  <2>1. v.rule.gap \in 1..100 /\ v.rule.kind = "spike"
    BY <1>3, KindType DEF TellsSpike
  <2>2. v.ref.ts \in Nat /\ a.sec <= v.ref.ts \div PerSecond
    BY <2>1 DEF Covered, Views, Refs
  <2>3. tick.ts - v.ref.ts >= v.rule.gap * PerSecond
    BY <1>3 DEF TellsSpike, Full
  <2>4. v.rule.gap \in Nat
    BY <2>1
  <2>5. (tick.ts \div PerSecond) - (v.ref.ts \div PerSecond) >= v.rule.gap
    BY <1>1, <2>2, <2>3, <2>4, SecondsApart, Zenon
  <2>6. tick.ts \div PerSecond \in Nat /\ v.ref.ts \div PerSecond \in Nat
    BY <1>1, <2>2
  <2>. QED
    BY <1>1, <2>1, <2>2, <2>5, <2>6 DEF Second
<1>. QED
  BY <1>2, <1>3 DEF Tells

\* ... and the rule's state moves on to it, never back.
LEMMA CoveredAfter ==
  ASSUME NEW v \in Views, NEW tick \in Ticks, NEW a \in Tellable
  PROVE  /\ Covered(a, v) => Covered(a, After(v, tick))
         /\ Tells(v, tick) /\ a.kind = v.rule.kind /\ a.sec = Second(tick)
               => Covered(a, After(v, tick))
<1>1. /\ tick.ts \in Nat /\ tick.price \in Nat \ {0} /\ Second(tick) \in Nat
      /\ PerSecond \in Nat \ {0} /\ a.sec \in Nat /\ a.kind \in {"plain", "spike"}
      /\ Second(tick) = tick.ts \div PerSecond
  BY MatchConstants DEF Tellable, Second
<1>2. [price |-> tick.price, ts |-> tick.ts] # NoRef
  BY <1>1 DEF NoRef
<1>3. ASSUME Covered(a, v), a.kind = "plain"
      PROVE  Covered(a, After(v, tick))
  <2>1. v.last \in Nat /\ a.sec <= v.last
    BY <1>3 DEF Covered, Views, Lasts
  <2>2. TellsPlain(v, tick) => v.rule.gap \in 1..100
    BY KindType DEF TellsPlain
  <2>3. TellsPlain(v, tick) => a.sec <= Second(tick)
    BY <1>1, <2>1, <2>2 DEF TellsPlain
  <2>4. After(v, tick).last \in Nat /\ a.sec <= After(v, tick).last
    BY <1>1, <2>1, <2>3 DEF After
  <2>. QED
    BY <1>3, <2>4 DEF Covered, Never
<1>4. ASSUME Covered(a, v), a.kind = "spike"
      PROVE  Covered(a, After(v, tick))
  <2>1. v.ref # NoRef /\ v.ref.ts \in Nat /\ a.sec <= v.ref.ts \div PerSecond
    BY <1>4 DEF Covered, Views, Refs
  <2>2. CASE After(v, tick).ref = v.ref
    BY <1>4, <2>1, <2>2 DEF Covered
  <2>3. CASE IsKind(v, "spike") /\ Full(v, tick)
    <3>1. After(v, tick).ref = [price |-> tick.price, ts |-> tick.ts]
      BY <2>3 DEF After
    <3>2. v.rule.gap \in 1..100 /\ tick.ts - v.ref.ts >= v.rule.gap * PerSecond
      BY <2>3, KindType DEF Full
    <3>3. v.rule.gap \in Nat
      BY <3>2
    <3>4. (tick.ts \div PerSecond) - (v.ref.ts \div PerSecond) >= v.rule.gap
      BY <1>1, <2>1, <3>2, <3>3, SecondsApart, Zenon
    <3>5. tick.ts \div PerSecond \in Nat /\ v.ref.ts \div PerSecond \in Nat
      BY <1>1, <2>1
    <3>6. a.sec <= tick.ts \div PerSecond
      BY <1>1, <2>1, <3>2, <3>4, <3>5
    <3>. QED
      BY <1>2, <1>4, <3>1, <3>6 DEF Covered
  <2>. QED
    BY <2>1, <2>2, <2>3 DEF After
<1>5. ASSUME Tells(v, tick), a.kind = v.rule.kind, a.sec = Second(tick)
      PROVE  Covered(a, After(v, tick))
  <2>1. CASE TellsPlain(v, tick)
    <3>1. a.kind = "plain" /\ After(v, tick).last = a.sec
      BY <1>5, <2>1 DEF TellsPlain, IsKind, After
    <3>. QED
      BY <1>1, <3>1 DEF Covered, Never
  <2>2. CASE TellsSpike(v, tick)
    <3>1. a.kind = "spike" /\ After(v, tick).ref = [price |-> tick.price, ts |-> tick.ts]
      BY <1>5, <2>2 DEF TellsSpike, IsKind, After
    <3>. QED
      BY <1>1, <1>2, <1>5, <3>1 DEF Covered
  <2>. QED
    BY <1>5, <2>1, <2>2 DEF Tells
<1>. QED
  BY <1>1, <1>3, <1>4, <1>5

-----------------------------------------------------------------------------
(* The steps, rule by rule                                                 *)

LEMMA ViewType ==
  ASSUME NEW st \in OperatorStates, NEW r \in Rules
  PROVE  /\ View(st, r) \in Views
         /\ View(st, r).rule = st.rules[r] /\ View(st, r).last = st.last[r]
         /\ View(st, r).ref = st.ref[r]
  BY DEF OperatorStates, View, Views

\* A tick moves every rule on by itself.
LEMMA TickMoves ==
  ASSUME MatchTypes, NEW tick \in Ticks, ProcessTick(tick)
  PROVE  /\ MatchTypes'
         /\ state'.t = state.t + 1 /\ state'.b = state.b /\ saved' = saved
         /\ bcast' = bcast /\ reordered' = reordered /\ failures' = failures
         /\ \/ /\ state.t < Len(ticks) /\ ticks' = ticks /\ tick = ticks[state.t + 1]
            \/ /\ state.t = Len(ticks) /\ ticks' = Append(ticks, tick)
         /\ \A r \in Rules : View(state', r) = After(View(state, r), tick)
         /\ alerts' = alerts \cup {Tale(r, View(state, r), tick) :
                                      r \in {q \in Rules : Tells(View(state, q), tick)}}
<1>1. /\ state \in OperatorStates /\ ticks \in Seq(Ticks) /\ state.t \in Nat
      /\ state.b \in Nat /\ Len(ticks) \in Nat /\ state.t <= Len(ticks)
  BY DEF MatchTypes, OperatorStates
<1>2. \A r \in Rules : /\ Fires(r, tick) <=> Tells(View(state, r), tick)
                       /\ Plain(r, tick) /\ Fires(r, tick)
                            <=> TellsPlain(View(state, r), tick)
  <2> SUFFICES ASSUME NEW r \in Rules
               PROVE  /\ Fires(r, tick) <=> Tells(View(state, r), tick)
                      /\ Plain(r, tick) /\ Fires(r, tick)
                           <=> TellsPlain(View(state, r), tick)
    OBVIOUS
  <2>1. /\ View(state, r).rule = state.rules[r] /\ View(state, r).last = state.last[r]
        /\ View(state, r).ref = state.ref[r]
    BY <1>1, ViewType
  <2>2. Plain(r, tick) <=> IsKind(View(state, r), "plain")
    BY <2>1 DEF Plain, IsKind
  <2>3. Spike(r, tick) <=> IsKind(View(state, r), "spike")
    BY <2>1 DEF Spike, IsKind
  <2>4. WindowFull(r, tick) <=> Full(View(state, r), tick)
    BY <2>1 DEF WindowFull, Full
  <2>5. Cooling(r, tick)
          <=> Second(tick) - View(state, r).last < View(state, r).rule.gap
    BY <2>1 DEF Cooling
  <2>6. ~(IsKind(View(state, r), "plain") /\ IsKind(View(state, r), "spike"))
    BY DEF IsKind
  <2>. QED
    BY <2>1, <2>2, <2>3, <2>4, <2>5, <2>6
    DEF Fires, Tells, TellsPlain, TellsSpike
<1>3. \A r \in Rules : View(state, r) \in Views
  BY <1>1, ViewType
<1>4. /\ state' = [state EXCEPT !.t = @ + 1, !.last = Triggered(tick),
                                !.ref = Referred(tick)]
      /\ alerts' = alerts \cup {Alert(r, tick) :
                                   r \in {q \in Rules : Fires(q, tick)}}
      /\ UNCHANGED <<bcast, saved, reordered, failures>>
      /\ \/ state.t < Len(ticks) /\ tick = ticks[state.t + 1] /\ UNCHANGED ticks
         \/ ~(state.t < Len(ticks)) /\ ticks' = Append(ticks, tick)
  BY DEF ProcessTick
<1>5. \A r \in Rules :
         /\ Triggered(tick)[r] = After(View(state, r), tick).last
         /\ Referred(tick)[r] = After(View(state, r), tick).ref
         /\ state.rules[r] = After(View(state, r), tick).rule
  <2> SUFFICES ASSUME NEW r \in Rules
               PROVE  /\ Triggered(tick)[r] = After(View(state, r), tick).last
                      /\ Referred(tick)[r] = After(View(state, r), tick).ref
                      /\ state.rules[r] = After(View(state, r), tick).rule
    OBVIOUS
  <2>1. /\ View(state, r).rule = state.rules[r] /\ View(state, r).last = state.last[r]
        /\ View(state, r).ref = state.ref[r]
    BY <1>1, ViewType
  <2>2. Triggered(tick)[r] = After(View(state, r), tick).last
    BY <1>2, <2>1 DEF Triggered, After
  <2>3. Spike(r, tick) <=> IsKind(View(state, r), "spike")
    BY <2>1 DEF Spike, IsKind
  <2>4. WindowFull(r, tick) <=> Full(View(state, r), tick)
    BY <2>1 DEF WindowFull, Full
  <2>5. Referred(tick)[r] = After(View(state, r), tick).ref
    BY <2>1, <2>3, <2>4 DEF Referred, After
  <2>. QED
    BY <2>1, <2>2, <2>5 DEF After
<1>6. /\ state'.t = state.t + 1 /\ state'.b = state.b /\ state'.rules = state.rules
      /\ state'.last = Triggered(tick) /\ state'.ref = Referred(tick)
  BY <1>1, <1>4 DEF OperatorStates
<1>7. \A r \in Rules : After(View(state, r), tick) \in Views
  BY <1>3, AfterType
<1>8. \A r \in Rules : View(state', r) = After(View(state, r), tick)
  BY <1>5, <1>6 DEF View, After
<1>9. \A r \in Rules : Alert(r, tick) = Tale(r, View(state, r), tick)
  BY DEF Alert, Tale, View
<1>10. alerts' = alerts \cup {Tale(r, View(state, r), tick) :
                                r \in {q \in Rules : Tells(View(state, q), tick)}}
  BY <1>2, <1>4, <1>9
<1>11. \A r \in Rules : Tells(View(state, r), tick) =>
          Tale(r, View(state, r), tick) \in Tellable
  <2> SUFFICES ASSUME NEW r \in Rules, Tells(View(state, r), tick)
               PROVE  Tale(r, View(state, r), tick) \in Tellable
    OBVIOUS
  <2>1. View(state, r).rule \in [ver : Nat, kind : {"plain", "spike"}, gap : Gaps]
    BY <1>3, KindType DEF Tells, TellsPlain, TellsSpike
  <2>. QED
    BY <2>1, MatchConstants DEF Tale, Tellable
<1>12. state' \in OperatorStates
  <2>1. \A r \in Rules : /\ Triggered(tick)[r] \in Lasts
                         /\ Referred(tick)[r] \in Refs
    BY <1>5, <1>7 DEF Views
  <2>2. /\ Triggered(tick) = [r \in Rules |-> Triggered(tick)[r]]
        /\ Referred(tick) = [r \in Rules |-> Referred(tick)[r]]
    BY DEF Triggered, Referred
  <2>3. /\ Triggered(tick) \in [Rules -> Lasts]
        /\ Referred(tick) \in [Rules -> Refs]
    BY <2>1, <2>2
  <2>4. state' = [t |-> state.t + 1, b |-> state.b, rules |-> state.rules,
                  last |-> Triggered(tick), ref |-> Referred(tick)]
    BY <1>1, <1>4 DEF OperatorStates
  <2>5. state.rules \in [Rules -> RuleStates] /\ state.t + 1 \in Nat
    BY <1>1 DEF OperatorStates
  <2>. QED
    BY <1>1, <2>3, <2>4, <2>5 DEF OperatorStates
<1>13. ticks' \in Seq(Ticks) /\ state'.t <= Len(ticks')
  <2>1. CASE UNCHANGED ticks /\ state.t < Len(ticks)
    BY <1>1, <1>6, <2>1
  <2>2. CASE ticks' = Append(ticks, tick)
    <3>1. ticks' \in Seq(Ticks) /\ Len(ticks') = Len(ticks) + 1
      BY <1>1, <2>2, AppendProperties
    <3>. QED
      BY <1>1, <1>6, <3>1
  <2>. QED
    BY <1>4, <2>1, <2>2
<1>14. MatchTypes'
  <2>1. alerts' \subseteq Tellable
    BY <1>10, <1>11 DEF MatchTypes, Tellable
  <2>2. /\ bcast' \in Seq(Messages) /\ saved' \in OperatorStates
        /\ reordered' \subseteq Rules /\ failures' \in Nat
        /\ saved'.t <= state'.t /\ saved'.b <= state'.b /\ state'.b <= Len(bcast')
    BY <1>1, <1>4, <1>6 DEF MatchTypes, OperatorStates
  <2>. QED
    BY <1>12, <1>13, <2>1, <2>2 DEF MatchTypes, Tellable
<1>. QED
  BY <1>1, <1>4, <1>6, <1>8, <1>10, <1>14

\* A message changes what is kept of its own rule; its time and reference stay.
LEMMA RuleMoves ==
  ASSUME MatchTypes, NEW m \in Messages, ProcessRule(m)
  PROVE  /\ MatchTypes'
         /\ state'.t = state.t /\ saved' = saved /\ ticks' = ticks /\ alerts' = alerts
         /\ failures' = failures /\ m.rule \in Rules
         /\ \/ bcast' = bcast
            \/ /\ bcast' = Append(bcast, m) /\ state.b = Len(bcast)
         /\ m = bcast'[state.b + 1] /\ state.b + 1 \in 1..Len(bcast')
         /\ state.t < Len(ticks) => m.rule \in reordered'
         /\ reordered \subseteq reordered'
         /\ \A r \in Rules : /\ state'.last[r] = state.last[r] /\ state'.ref[r] = state.ref[r]
                             /\ r # m.rule => View(state', r) = View(state, r)
<1>1. /\ state \in OperatorStates /\ bcast \in Seq(Messages) /\ state.t \in Nat
      /\ state.b \in Nat /\ Len(bcast) \in Nat /\ state.b <= Len(bcast)
  BY DEF MatchTypes, OperatorStates
<1>2. m.rule \in Rules
  BY DEF Messages
<1>. DEFINE new == IF m.op = "DELETE" THEN NoRule
                   ELSE IF m.ver > state.rules[m.rule].ver
                   THEN [ver |-> m.ver, kind |-> m.kind, gap |-> m.gap]
                   ELSE state.rules[m.rule]
<1>3. /\ state' = [state EXCEPT !.b = @ + 1, !.rules[m.rule] = new]
      /\ UNCHANGED <<ticks, saved, alerts, failures>>
      /\ reordered' = IF state.t < Len(ticks) THEN reordered \cup {m.rule} ELSE reordered
      /\ \/ state.b < Len(bcast) /\ m = bcast[state.b + 1] /\ UNCHANGED bcast
         \/ ~(state.b < Len(bcast)) /\ bcast' = Append(bcast, m)
  BY <1>1, <1>2 DEF ProcessRule, OperatorStates
<1>4. new \in RuleStates
  <2>1. state.rules[m.rule] \in RuleStates
    BY <1>1, <1>2 DEF OperatorStates
  <2>2. m.op # "DELETE" => [ver |-> m.ver, kind |-> m.kind, gap |-> m.gap] \in RuleStates
    BY DEF Messages, RuleStates
  <2>. QED
    BY <2>1, <2>2 DEF RuleStates
<1>. HIDE DEF new
<1>5. state' = [t |-> state.t, b |-> state.b + 1,
                rules |-> [state.rules EXCEPT ![m.rule] = new],
                last |-> state.last, ref |-> state.ref]
  BY <1>1, <1>3 DEF OperatorStates
<1>6. state' \in OperatorStates
  <2>1. /\ state.rules \in [Rules -> RuleStates] /\ state.b + 1 \in Nat /\ state.t \in Nat
        /\ state.last \in [Rules -> Lasts] /\ state.ref \in [Rules -> Refs]
    BY <1>1 DEF OperatorStates
  <2>2. [state.rules EXCEPT ![m.rule] = new] \in [Rules -> RuleStates]
    BY <1>4, <2>1
  <2>. QED
    BY <1>5, <2>1, <2>2 DEF OperatorStates
<1>7. /\ bcast' \in Seq(Messages) /\ state.b + 1 \in 1..Len(bcast')
      /\ m = bcast'[state.b + 1]
      /\ \/ bcast' = bcast
         \/ bcast' = Append(bcast, m) /\ state.b = Len(bcast)
  <2>1. CASE state.b < Len(bcast) /\ m = bcast[state.b + 1] /\ UNCHANGED bcast
    BY <1>1, <2>1
  <2>2. CASE ~(state.b < Len(bcast)) /\ bcast' = Append(bcast, m)
    <3>1. state.b = Len(bcast)
      BY <1>1, <2>2
    <3>2. /\ bcast' \in Seq(Messages) /\ Len(bcast') = Len(bcast) + 1
          /\ bcast'[Len(bcast) + 1] = m
      BY <1>1, <2>2, AppendProperties
    <3>. QED
      BY <1>1, <2>2, <3>1, <3>2
  <2>. QED
    BY <1>3, <2>1, <2>2
<1>8. \A r \in Rules : /\ state'.last[r] = state.last[r] /\ state'.ref[r] = state.ref[r]
                       /\ r # m.rule => View(state', r) = View(state, r)
  BY <1>1, <1>2, <1>5 DEF OperatorStates, View
<1>9. MatchTypes'
  <2>1. /\ saved' \in OperatorStates /\ saved'.t <= state'.t /\ state'.t <= Len(ticks')
        /\ saved'.b <= state'.b /\ state'.b <= Len(bcast')
    BY <1>1, <1>3, <1>5, <1>7 DEF MatchTypes, OperatorStates
  <2>2. ticks' \in Seq(Ticks) /\ failures' \in Nat /\ reordered' \subseteq Rules
    BY <1>2, <1>3 DEF MatchTypes
  <2>. QED
    BY <1>3, <1>6, <1>7, <2>1, <2>2 DEF MatchTypes
<1>. QED
  BY <1>2, <1>3, <1>5, <1>7, <1>8, <1>9

LEMMA FreshType ==
  /\ Fresh \in OperatorStates /\ Fresh.t = 0 /\ Fresh.b = 0
  /\ \A n \in Nat : /\ [Fresh EXCEPT !.t = n] \in OperatorStates
                    /\ [Fresh EXCEPT !.t = n].t = n /\ [Fresh EXCEPT !.t = n].b = 0
                    /\ \A r \in Rules : [Fresh EXCEPT !.t = n].last[r] = Never
  /\ \A r \in Rules : Fresh.last[r] = Never
<1>1. /\ [r \in Rules |-> NoRule] \in [Rules -> RuleStates]
      /\ [r \in Rules |-> Never] \in [Rules -> Lasts]
      /\ [r \in Rules |-> NoRef] \in [Rules -> Refs]
  BY DEF RuleStates, Lasts, Refs
<1>2. \A n \in Nat : [t |-> n, b |-> 0, rules |-> [r \in Rules |-> NoRule],
                      last |-> [r \in Rules |-> Never],
                      ref |-> [r \in Rules |-> NoRef]] \in OperatorStates
  BY <1>1 DEF OperatorStates
<1>3. Fresh = [t |-> 0, b |-> 0, rules |-> [r \in Rules |-> NoRule],
               last |-> [r \in Rules |-> Never],
               ref |-> [r \in Rules |-> NoRef]]
  BY DEF Fresh
<1>4. \A n \in Nat : [Fresh EXCEPT !.t = n] =
                     [t |-> n, b |-> 0, rules |-> [r \in Rules |-> NoRule],
                      last |-> [r \in Rules |-> Never],
                      ref |-> [r \in Rules |-> NoRef]]
  BY <1>3
<1>. QED
  BY <1>2, <1>3, <1>4

\* What Flink does besides, and that it goes back to a saved state or begins.
LEMMA FlinkMoves ==
  ASSUME MatchTypes,
         Checkpoint \/ Restore \/ Submit \/ UNCHANGED matchVars
  PROVE  /\ MatchTypes' /\ ticks' = ticks /\ bcast' = bcast
         /\ \/ /\ UNCHANGED <<state, alerts, reordered, failures>> /\ saved' \in {saved, state}
            \/ /\ state' = saved /\ saved' = saved /\ alerts' = alerts /\ failures' = failures - 1
               /\ reordered' = reordered \cup {bcast[i].rule : i \in (saved.b + 1)..Len(bcast)}
            \/ /\ state' = [Fresh EXCEPT !.t = Len(ticks)] /\ saved' = state'
               /\ alerts' = {} /\ reordered' = {} /\ failures' = failures - 1
<1>1. /\ state \in OperatorStates /\ saved \in OperatorStates /\ failures \in Nat
      /\ ticks \in Seq(Ticks) /\ bcast \in Seq(Messages)
      /\ state.t \in Nat /\ saved.t \in Nat /\ state.b \in Nat /\ saved.b \in Nat
      /\ Len(ticks) \in Nat /\ Len(bcast) \in Nat
      /\ saved.t <= state.t /\ state.t <= Len(ticks)
      /\ saved.b <= state.b /\ state.b <= Len(bcast)
  BY DEF MatchTypes, OperatorStates
<1>2. CASE Checkpoint
  BY <1>1, <1>2 DEF Checkpoint, MatchTypes
<1>3. CASE Restore
  <2>1. /\ state' = saved /\ UNCHANGED <<ticks, bcast, saved, alerts>>
        /\ failures > 0 /\ failures' = failures - 1
        /\ reordered' = reordered \cup {bcast[i].rule : i \in (saved.b + 1)..Len(bcast)}
    BY <1>3 DEF Restore, Fails
  <2>2. reordered' \subseteq Rules
    <3>1. \A i \in (saved.b + 1)..Len(bcast) : bcast[i] \in Messages
      BY <1>1
    <3>2. \A m \in Messages : m.rule \in Rules
      BY DEF Messages
    <3>. QED
      BY <2>1, <3>1, <3>2 DEF MatchTypes
  <2>3. failures' \in Nat /\ saved.t <= Len(ticks) /\ saved.b <= Len(bcast)
        /\ saved.t <= saved.t /\ saved.b <= saved.b
    BY <1>1, <2>1
  <2>. QED
    BY <1>1, <2>1, <2>2, <2>3 DEF MatchTypes
<1>4. CASE Submit
  <2>1. /\ state' = [Fresh EXCEPT !.t = Len(ticks)] /\ saved' = state'
        /\ alerts' = {} /\ reordered' = {} /\ UNCHANGED <<ticks, bcast>>
        /\ failures > 0 /\ failures' = failures - 1
    BY <1>4 DEF Submit, Fails
  <2>2. state' \in OperatorStates /\ state'.t = Len(ticks) /\ state'.b = 0
    BY <1>1, <2>1, FreshType
  <2>3. failures' \in Nat /\ Len(ticks) <= Len(ticks) /\ 0 <= Len(bcast)
        /\ state'.t <= state'.t /\ state'.b <= state'.b
    BY <1>1, <2>1, <2>2
  <2>. QED
    BY <1>1, <2>1, <2>2, <2>3 DEF MatchTypes
<1>5. CASE UNCHANGED matchVars
  BY <1>5 DEF matchVars, MatchTypes
<1>. QED
  BY <1>2, <1>3, <1>4, <1>5

-----------------------------------------------------------------------------
(* A match is told                                                         *)

\* A rule that is quiet has told why.
ToldOf(st, r) == st.last[r] # Never =>
    \E a \in alerts : a.rule = r /\ a.kind = "plain" /\ a.sec = st.last[r]

ToldInv == \A r \in Rules : ToldOf(state, r) /\ ToldOf(saved, r)

LEMMA MatchTypeInit ==
  ASSUME MatchInit
  PROVE  MatchTypes /\ ToldInv
<1>1. /\ ticks = << >> /\ bcast = << >> /\ state = Fresh /\ saved = Fresh
      /\ alerts = {} /\ reordered = {} /\ failures = MaxFailures
  BY DEF MatchInit
<1>2. /\ ticks \in Seq(Ticks) /\ bcast \in Seq(Messages)
      /\ Len(ticks) = 0 /\ Len(bcast) = 0
  BY <1>1
<1>3. MatchTypes
  BY <1>1, <1>2, FreshType, MatchConstants DEF MatchTypes
<1>4. ToldInv
  BY <1>1, FreshType DEF ToldInv, ToldOf
<1>. QED
  BY <1>3, <1>4

LEMMA MatchCases ==
  ASSUME [MatchNext]_matchVars
  PROVE  \/ \E tick \in Ticks : ProcessTick(tick)
         \/ \E m \in Messages : ProcessRule(m)
         \/ Checkpoint \/ Restore \/ Submit \/ UNCHANGED matchVars
  BY DEF MatchNext

LEMMA MatchTypeStep ==
  MatchTypes /\ [MatchNext]_matchVars => MatchTypes'
BY MatchCases, TickMoves, RuleMoves, FlinkMoves

LEMMA ToldStep ==
  MatchTypes /\ ToldInv /\ [MatchNext]_matchVars => ToldInv'
<1> SUFFICES ASSUME MatchTypes, ToldInv, [MatchNext]_matchVars
             PROVE  ToldInv'
  OBVIOUS
<1>1. ASSUME NEW tick \in Ticks, ProcessTick(tick) PROVE ToldInv'
  <2>1. /\ saved' = saved /\ state \in OperatorStates /\ state' \in OperatorStates
        /\ \A r \in Rules : View(state', r) = After(View(state, r), tick)
        /\ alerts' = alerts \cup {Tale(r, View(state, r), tick) :
                                     r \in {q \in Rules : Tells(View(state, q), tick)}}
    BY <1>1, TickMoves DEF MatchTypes
  <2> SUFFICES ASSUME NEW r \in Rules PROVE ToldOf(state, r)' /\ ToldOf(saved, r)'
    BY DEF ToldInv
  <2>2. /\ alerts \subseteq alerts' /\ ToldOf(state, r) /\ ToldOf(saved, r)
    BY <2>1 DEF ToldInv
  <2>3. ToldOf(saved, r)'
    BY <2>1, <2>2 DEF ToldOf
  <2>4. /\ View(state', r).last = state'.last[r] /\ View(state, r).last = state.last[r]
        /\ View(state', r) = After(View(state, r), tick)
    BY <2>1, ViewType
  <2>5. CASE TellsPlain(View(state, r), tick)
    <3>1. state'.last[r] = Second(tick)
      BY <2>4, <2>5 DEF After
    <3>2. Tale(r, View(state, r), tick) \in alerts'
      BY <2>1, <2>5 DEF Tells
    <3>3. /\ Tale(r, View(state, r), tick).rule = r
          /\ Tale(r, View(state, r), tick).kind = "plain"
          /\ Tale(r, View(state, r), tick).sec = Second(tick)
      BY <2>5 DEF Tale, TellsPlain, IsKind
    <3>4. ToldOf(state, r)'
      BY <3>1, <3>2, <3>3 DEF ToldOf
    <3>. QED
      BY <2>3, <3>4
  <2>6. CASE ~TellsPlain(View(state, r), tick)
    <3>1. state'.last[r] = state.last[r]
      BY <2>4, <2>6 DEF After
    <3>. QED
      BY <2>2, <2>3, <3>1 DEF ToldOf
  <2>. QED
    BY <2>5, <2>6
<1>2. ASSUME NEW m \in Messages, ProcessRule(m) PROVE ToldInv'
  <2>1. /\ saved' = saved /\ alerts' = alerts
        /\ \A r \in Rules : state'.last[r] = state.last[r]
    BY <1>2, RuleMoves
  <2>. QED
    BY <2>1 DEF ToldInv, ToldOf
<1>3. CASE Checkpoint \/ Restore \/ Submit \/ UNCHANGED matchVars
  <2>1. \/ UNCHANGED <<state, alerts>> /\ saved' \in {saved, state}
        \/ state' = saved /\ saved' = saved /\ alerts' = alerts
        \/ state' = [Fresh EXCEPT !.t = Len(ticks)] /\ saved' = state'
    BY <1>3, FlinkMoves
  <2>2. CASE UNCHANGED <<state, alerts>> /\ saved' \in {saved, state}
    BY <2>2 DEF ToldInv, ToldOf
  <2>3. CASE state' = saved /\ saved' = saved /\ alerts' = alerts
    BY <2>3 DEF ToldInv, ToldOf
  <2>4. CASE state' = [Fresh EXCEPT !.t = Len(ticks)] /\ saved' = state'
    <3>1. Len(ticks) \in Nat
      BY DEF MatchTypes
    <3>2. \A r \in Rules : state'.last[r] = Never /\ saved'.last[r] = Never
      BY <2>4, <3>1, FreshType
    <3>. QED
      BY <3>2 DEF ToldInv, ToldOf
  <2>. QED
    BY <2>1, <2>2, <2>3, <2>4
<1>. QED
  BY <1>1, <1>2, <1>3, MatchCases

\* When a tick matches a rule, an alert for it is written now or was within
\* the cooldown before, or for a later tick, through every failure.
THEOREM MatchToldSafe == MatchSpec => MatchIsTold
<1>1. ASSUME MatchTypes, ToldInv, [MatchNext]_matchVars
      PROVE  [state'.t = state.t + 1 /\ failures' = failures =>
                LET tick == ticks'[state'.t] IN
                \A r \in Rules : Plain(r, tick) /\ Matches(tick) =>
                    \E a \in alerts' : /\ a.rule = r /\ a.kind = "plain"
                                       /\ Second(tick) - a.sec < state.rules[r].gap
             ]_matchVars
  <2> SUFFICES ASSUME state'.t = state.t + 1, failures' = failures,
                      NEW r \in Rules, Plain(r, ticks'[state'.t]),
                      Matches(ticks'[state'.t])
               PROVE  \E a \in alerts' :
                         /\ a.rule = r /\ a.kind = "plain"
                         /\ Second(ticks'[state'.t]) - a.sec < state.rules[r].gap
    OBVIOUS
  <2>1. /\ state \in OperatorStates /\ state.t \in Nat /\ failures \in Nat
        /\ ticks \in Seq(Ticks) /\ Len(ticks) \in Nat
    BY <1>1 DEF MatchTypes, OperatorStates
  <2>2. PICK tick \in Ticks : ProcessTick(tick)
    <3>1. ASSUME NEW m \in Messages, ProcessRule(m) PROVE FALSE
      BY <1>1, <2>1, <3>1, RuleMoves
    <3>2. ASSUME Checkpoint \/ Restore \/ Submit \/ UNCHANGED matchVars
          PROVE  FALSE
      <4>1. state' = state \/ failures' = failures - 1
        BY <1>1, <3>2, FlinkMoves
      <4>. QED
        BY <2>1, <4>1
    <3>. QED
      BY <1>1, <3>1, <3>2, MatchCases
  <2>3. /\ alerts' = alerts \cup {Tale(q, View(state, q), tick) :
                                     q \in {q \in Rules : Tells(View(state, q), tick)}}
        /\ \/ /\ state.t < Len(ticks) /\ ticks' = ticks /\ tick = ticks[state.t + 1]
           \/ /\ state.t = Len(ticks) /\ ticks' = Append(ticks, tick)
    BY <1>1, <2>2, TickMoves
  <2>4. ticks'[state'.t] = tick
    <3>1. CASE state.t = Len(ticks) /\ ticks' = Append(ticks, tick)
      BY <2>1, <3>1, AppendProperties
    <3>. QED
      BY <2>3, <3>1
  <2>. DEFINE v == View(state, r)
  <2>5. v \in Views /\ v.rule = state.rules[r] /\ v.last = state.last[r]
    BY <2>1, ViewType
  <2>6. IsKind(v, "plain") /\ Matches(tick)
    BY <2>4, <2>5 DEF Plain, IsKind
  <2>. HIDE DEF v
  <2>7. v.rule.gap \in 1..100 /\ v.rule.kind = "plain"
    BY <1>1, <2>5, <2>6, KindType
  <2>8. Second(tick) \in Nat
    BY <1>1, MatchConstants
  <2>9. CASE TellsPlain(v, tick)
    <3>1. Tale(r, v, tick) \in alerts'
      BY <2>3, <2>9 DEF Tells, v
    <3>2. /\ Tale(r, v, tick).rule = r /\ Tale(r, v, tick).kind = "plain"
          /\ Tale(r, v, tick).sec = Second(tick)
      BY <2>7 DEF Tale
    <3>3. Second(tick) - Second(tick) < state.rules[r].gap
      BY <2>5, <2>7, <2>8
    <3>. QED
      BY <2>4, <3>1, <3>2, <3>3
  <2>10. CASE ~TellsPlain(v, tick)
    <3>1. Second(tick) - v.last < v.rule.gap
      BY <2>6, <2>10 DEF TellsPlain
    <3>2. v.last \in Lasts
      BY <2>5 DEF Views
    <3>3. v.last # Never
      BY <2>7, <2>8, <3>1 DEF Never
    <3>4. PICK a \in alerts : a.rule = r /\ a.kind = "plain" /\ a.sec = v.last
      BY <1>1, <2>5, <3>3 DEF ToldInv, ToldOf
    <3>5. a \in alerts'
      BY <2>3
    <3>. QED
      BY <2>4, <2>5, <3>1, <3>4, <3>5
  <2>. QED
    BY <2>9, <2>10
<1>2. MatchInit => MatchTypes /\ ToldInv
  BY MatchTypeInit
<1>3. MatchTypes /\ ToldInv /\ [MatchNext]_matchVars => MatchTypes' /\ ToldInv'
  BY MatchTypeStep, ToldStep
<1>. QED
  BY <1>1, <1>2, <1>3, PTL DEF MatchSpec, MatchIsTold

-----------------------------------------------------------------------------
(* A match is told once in a while                                         *)

\* No message of the rule since the checkpoint.
Quiet(r) == \A i \in (saved.b + 1)..Len(bcast) : bcast[i].rule # r

\* Tick i + 1 leads from h[i] to h[i + 1], and its alert has been told.
Walked(r, h, i) ==
    /\ h[i + 1] = After(h[i], ticks[i + 1])
    /\ Tells(h[i], ticks[i + 1]) => Tale(r, h[i], ticks[i + 1]) \in alerts

Walks == [0..Len(ticks) -> Views]

\* The states a rule was in: to read ticks again leads through them again, and
\* the last one covers all that was told.
Walk(r, h) ==
    /\ h[state.t] = View(state, r)
    /\ \A i \in state.t..(Len(ticks) - 1) : Walked(r, h, i)
    /\ Quiet(r) => /\ h[saved.t] = View(saved, r)
                   /\ \A i \in saved.t..(Len(ticks) - 1) : Walked(r, h, i)
    /\ \A a \in alerts : a.rule = r => Covered(a, h[Len(ticks)])

WalkInv == \A r \in Rules \ reordered : \E h \in Walks : Walk(r, h)

OnceInv == MatchTypes /\ WalkInv /\ OnceInAWhile

\* A walk, and what was told, survive what does not disturb them.
LEMMA WalkKeeps ==
  ASSUME NEW r \in Rules, NEW h \in Walks, Walk(r, h), ticks' = ticks, alerts' = alerts,
         h[state'.t] = View(state', r), state'.t = state.t,
         Quiet(r)' => Quiet(r) /\ saved' = saved
  PROVE  Walk(r, h)'
<1>1. (\A i : Walked(r, h, i)' <=> Walked(r, h, i))
  BY DEF Walked
<1>. QED
  BY <1>1 DEF Walk

LEMMA OnceKeeps ==
  ASSUME OnceInAWhile, alerts' = alerts, reordered \subseteq reordered'
  PROVE  OnceInAWhile'
BY DEF OnceInAWhile

LEMMA OnceTick ==
  ASSUME OnceInv, NEW tick \in Ticks, ProcessTick(tick)
  PROVE  OnceInv'
<1>1. /\ MatchTypes' /\ state'.t = state.t + 1 /\ saved' = saved
      /\ bcast' = bcast /\ reordered' = reordered
      /\ \/ /\ state.t < Len(ticks) /\ ticks' = ticks /\ tick = ticks[state.t + 1]
         \/ /\ state.t = Len(ticks) /\ ticks' = Append(ticks, tick)
      /\ \A r \in Rules : View(state', r) = After(View(state, r), tick)
      /\ alerts' = alerts \cup {Tale(r, View(state, r), tick) :
                                   r \in {q \in Rules : Tells(View(state, q), tick)}}
  BY TickMoves DEF OnceInv
<1>2. /\ state \in OperatorStates /\ saved \in OperatorStates /\ state.t \in Nat /\ saved.t \in Nat
      /\ ticks \in Seq(Ticks) /\ Len(ticks) \in Nat /\ alerts \subseteq Tellable
      /\ saved.t <= state.t /\ state.t <= Len(ticks) /\ alerts' \subseteq Tellable
  <2>1. /\ state \in OperatorStates /\ saved \in OperatorStates /\ ticks \in Seq(Ticks)
        /\ saved.t <= state.t /\ state.t <= Len(ticks) /\ alerts \subseteq Tellable
    BY DEF OnceInv, MatchTypes, Tellable
  <2>2. state.t \in Nat /\ saved.t \in Nat /\ Len(ticks) \in Nat
    BY <2>1 DEF OperatorStates
  <2>3. alerts' \subseteq Tellable
    BY <1>1 DEF MatchTypes, Tellable
  <2>. QED
    BY <2>1, <2>2, <2>3
<1>3. \A r \in Rules : Quiet(r)' <=> Quiet(r)
  BY <1>1 DEF Quiet
<1>4. \A a \in alerts' : \/ a \in alerts
                         \/ /\ a.rule \in Rules /\ Tells(View(state, a.rule), tick)
                            /\ a = Tale(a.rule, View(state, a.rule), tick)
  BY <1>1 DEF Tale
<1>5. \A r \in Rules : View(state, r) \in Views /\ After(View(state, r), tick) \in Views
  BY <1>2, ViewType, AfterType
<1>6. CASE state.t < Len(ticks) /\ ticks' = ticks /\ tick = ticks[state.t + 1]
  <2>1. ASSUME NEW r \in Rules \ reordered, NEW h \in Walks, Walk(r, h)
        PROVE  /\ \A a \in alerts' : a.rule = r => a \in alerts
               /\ Walk(r, h)'
    <3>1. /\ h[state.t] = View(state, r) /\ state.t \in state.t..(Len(ticks) - 1)
      BY <1>2, <1>6, <2>1 DEF Walk
    <3>2. Walked(r, h, state.t)
      BY <2>1, <3>1 DEF Walk
    <3>3. /\ h[state.t + 1] = View(state', r)
          /\ Tells(View(state, r), tick) => Tale(r, View(state, r), tick) \in alerts
      BY <1>1, <1>6, <3>1, <3>2 DEF Walked
    <3>4. \A a \in alerts' : a.rule = r => a \in alerts
      BY <1>4, <3>3
    <3>5. /\ \A i \in state'.t..(Len(ticks) - 1) : i \in state.t..(Len(ticks) - 1)
          /\ alerts \subseteq alerts'
      BY <1>1, <1>2
    <3>6. \A i : Walked(r, h, i) => Walked(r, h, i)'
      BY <1>1, <1>6 DEF Walked
    <3>. QED
      BY <1>1, <1>3, <1>6, <2>1, <3>3, <3>4, <3>5, <3>6 DEF Walk
  <2>2. WalkInv'
    <3> SUFFICES ASSUME NEW r \in Rules \ reordered PROVE \E h \in Walks' : Walk(r, h)'
      BY <1>1 DEF WalkInv
    <3>1. PICK h \in Walks : Walk(r, h)
      BY DEF OnceInv, WalkInv
    <3>. QED
      BY <1>6, <2>1, <3>1 DEF Walks
  <2>3. \A a \in alerts' : a.rule \in reordered \/ a \in alerts
    <3> SUFFICES ASSUME NEW a \in alerts', a.rule \notin reordered PROVE a \in alerts
      OBVIOUS
    <3>1. a.rule \in Rules
      BY <1>2 DEF Tellable
    <3>2. PICK h \in Walks : Walk(a.rule, h)
      BY <3>1 DEF OnceInv, WalkInv
    <3>. QED
      BY <2>1, <3>1, <3>2
  <2>4. OnceInAWhile'
    BY <1>1, <2>3 DEF OnceInv, OnceInAWhile
  <2>. QED
    BY <1>1, <2>2, <2>4 DEF OnceInv
<1>7. CASE state.t = Len(ticks) /\ ticks' = Append(ticks, tick)
  <2>1. PICK n \in Nat : n = Len(ticks)
    BY <1>2
  <2>2. /\ Len(ticks') = n + 1 /\ ticks'[n + 1] = tick
        /\ \A i \in 1..n : ticks'[i] = ticks[i]
    BY <1>2, <1>7, <2>1, AppendProperties
  <2>3. ASSUME NEW r \in Rules \ reordered, NEW h \in Walks, Walk(r, h)
        PROVE  /\ h[n] = View(state, r)
               /\ \A a \in alerts : a.rule = r => Covered(a, View(state, r))
    BY <1>7, <2>3, <2>1 DEF Walk
  <2>4. WalkInv'
    <3> SUFFICES ASSUME NEW r \in Rules \ reordered PROVE \E h \in Walks' : Walk(r, h)'
      BY <1>1 DEF WalkInv
    <3>1. PICK h \in Walks : Walk(r, h)
      BY DEF OnceInv, WalkInv
    <3>2. View(state', r) \in Views /\ View(state', r) = After(View(state, r), tick)
      BY <1>1, <1>5
    <3>3. PICK g \in Walks' : g[n + 1] = View(state', r) /\ \A i \in 0..n : g[i] = h[i]
      <4>. DEFINE f == [i \in 0..(n + 1) |-> IF i = n + 1 THEN View(state', r) ELSE h[i]]
      <4>1. f \in Walks'
        BY <2>2, <2>1, <3>1, <3>2 DEF Walks
      <4>2. f[n + 1] = View(state', r) /\ \A i \in 0..n : f[i] = h[i]
        BY <2>1
      <4>. QED
        BY <4>1, <4>2
    <3>5. Walked(r, g, n)'
      <4>1. g[n] = View(state, r)
        BY <2>3, <2>1, <3>1, <3>3
      <4>2. Tells(View(state, r), tick) => Tale(r, View(state, r), tick) \in alerts'
        BY <1>1
      <4>. QED
        BY <2>2, <3>2, <3>3, <4>1, <4>2 DEF Walked
    <3>6. ASSUME NEW i \in 0..(n - 1), Walked(r, h, i)
          PROVE  Walked(r, g, i)'
      <4>1. g[i] = h[i] /\ g[i + 1] = h[i + 1] /\ ticks'[i + 1] = ticks[i + 1]
        BY <2>2, <2>1, <3>3
      <4>2. alerts \subseteq alerts'
        BY <1>1
      <4>. QED
        BY <3>6, <4>1, <4>2 DEF Walked
    <3>7. g[state'.t] = View(state', r) /\ state'.t = Len(ticks')
      BY <1>1, <1>7, <2>2, <2>1, <3>3
    <3>8. ASSUME Quiet(r)'
          PROVE  /\ g[saved.t] = View(saved, r)
                 /\ \A i \in saved.t..n : Walked(r, g, i)'
      <4>1. /\ h[saved.t] = View(saved, r)
            /\ \A i \in saved.t..(n - 1) : Walked(r, h, i)
        BY <1>3, <2>1, <3>1, <3>8 DEF Walk
      <4>2. /\ saved.t \in 0..n
            /\ \A i \in saved.t..n : i = n \/ (i \in 0..(n - 1) /\ i \in saved.t..(n - 1))
        BY <1>2, <2>1
      <4>. QED
        BY <3>3, <3>5, <3>6, <4>1, <4>2
    <3>9. ASSUME NEW a \in alerts', a.rule = r
          PROVE  Covered(a, g[Len(ticks')])
      <4>1. g[Len(ticks')] = After(View(state, r), tick) /\ View(state, r) \in Views
            /\ a \in Tellable
        BY <1>2, <1>5, <2>2, <3>2, <3>3
      <4>2. CASE a \in alerts
        BY <2>3, <3>1, <3>9, <4>1, <4>2, CoveredAfter
      <4>3. CASE Tells(View(state, r), tick) /\ a = Tale(r, View(state, r), tick)
        <5>1. a.kind = View(state, r).rule.kind /\ a.sec = Second(tick)
          BY <4>3 DEF Tale
        <5>. QED
          BY <4>1, <4>3, <5>1, CoveredAfter
      <4>. QED
        BY <1>4, <3>9, <4>2, <4>3
    <3>10. /\ \A i \in state'.t..(Len(ticks') - 1) : FALSE
           /\ Len(ticks') - 1 = n
      BY <2>2, <2>1, <3>7
    <3>11. Walk(r, g)'
      BY <1>1, <3>7, <3>8, <3>9, <3>10 DEF Walk
    <3>. QED
      BY <3>3, <3>11
  <2>5. OnceInAWhile'
    <3> SUFFICES ASSUME NEW a \in alerts', NEW b \in alerts', a.rule = b.rule, a.kind = b.kind,
                        a.sec < b.sec, a.rule \notin reordered
                 PROVE  b.sec - a.sec >= b.gap
      BY <1>1 DEF OnceInAWhile
    <3>. DEFINE r == a.rule
                v == View(state, r)
    <3>1. a \in Tellable /\ b \in Tellable /\ r \in Rules \ reordered
      BY <1>2 DEF Tellable
    <3>2. v \in Views /\ \A c \in alerts : c.rule = r => Covered(c, v)
      <4>1. PICK h \in Walks : Walk(r, h)
        BY <3>1 DEF OnceInv, WalkInv
      <4>. QED
        BY <1>5, <2>3, <3>1, <4>1
    <3>3. \A c \in alerts' : c.rule = r =>
             \/ c \in alerts
             \/ /\ Tells(v, tick) /\ c.sec = Second(tick) /\ c.kind = v.rule.kind
                /\ c.gap = v.rule.gap
      BY <1>4 DEF Tale
    <3>. HIDE DEF v
    <3>4. CASE a \in alerts /\ b \in alerts
      BY <3>4 DEF OnceInv, OnceInAWhile
    <3>5. CASE a \in alerts /\ b \notin alerts
      <4>1. Tells(v, tick) /\ b.sec = Second(tick) /\ v.rule.kind = a.kind /\ b.gap = v.rule.gap
        BY <3>3, <3>5
      <4>2. Covered(a, v)
        BY <3>2, <3>5
      <4>. QED
        BY <3>1, <3>2, <4>1, <4>2, TellsApart
    <3>6. CASE a \notin alerts
      <4>1. Tells(v, tick) /\ a.sec = Second(tick) /\ v.rule.kind = a.kind /\ a.gap = v.rule.gap
        BY <3>3, <3>6
      <4>2. CASE b \in alerts
        <5>1. Covered(b, v) /\ v.rule.kind = b.kind
          BY <3>2, <4>1, <4>2
        <5>2. a.sec - b.sec >= a.gap
          BY <3>1, <3>2, <4>1, <5>1, TellsApart
        <5>3. a.gap \in 1..100 /\ a.sec \in Nat /\ b.sec \in Nat
          BY <3>1, MatchConstants DEF Tellable
        <5>. QED
          BY <5>2, <5>3
      <4>3. CASE b \notin alerts
        <5>1. b.sec = Second(tick) /\ a.sec \in Nat
          BY <3>1, <3>3, <4>3 DEF Tellable
        <5>. QED
          BY <4>1, <5>1
      <4>. QED
        BY <4>2, <4>3
    <3>. QED
      BY <3>4, <3>5, <3>6
  <2>. QED
    BY <1>1, <2>4, <2>5 DEF OnceInv
<1>. QED
  BY <1>1, <1>6, <1>7

LEMMA OnceRule ==
  ASSUME OnceInv, NEW m \in Messages, ProcessRule(m)
  PROVE  OnceInv'
<1>1. /\ MatchTypes' /\ state'.t = state.t /\ saved' = saved /\ ticks' = ticks
      /\ alerts' = alerts /\ m.rule \in Rules
      /\ \/ bcast' = bcast
         \/ bcast' = Append(bcast, m) /\ state.b = Len(bcast)
      /\ m = bcast'[state.b + 1] /\ state.b + 1 \in 1..Len(bcast')
      /\ state.t < Len(ticks) => m.rule \in reordered'
      /\ reordered \subseteq reordered'
      /\ \A r \in Rules : /\ state'.last[r] = state.last[r] /\ state'.ref[r] = state.ref[r]
                          /\ r # m.rule => View(state', r) = View(state, r)
  BY RuleMoves DEF OnceInv
<1>2. /\ state \in OperatorStates /\ saved \in OperatorStates /\ bcast \in Seq(Messages)
      /\ state' \in OperatorStates /\ ticks \in Seq(Ticks)
      /\ saved.b <= state.b /\ saved.t <= state.t /\ state.t <= Len(ticks)
  BY <1>1 DEF OnceInv, MatchTypes
<1>3. /\ state.t \in Nat /\ saved.t \in Nat /\ state.b \in Nat /\ saved.b \in Nat
      /\ Len(ticks) \in Nat /\ Len(bcast) \in Nat /\ Len(bcast') \in Nat
  BY <1>1, <1>2 DEF OperatorStates
<1>4. \A r \in Rules : Quiet(r)' => Quiet(r) /\ r # m.rule
  <2> SUFFICES ASSUME NEW r \in Rules, Quiet(r)' PROVE Quiet(r) /\ r # m.rule
    OBVIOUS
  <2>1. state.b + 1 \in (saved.b + 1)..Len(bcast')
    BY <1>1, <1>2, <1>3
  <2>2. r # m.rule
    BY <1>1, <2>1 DEF Quiet
  <2>3. \A i \in (saved.b + 1)..Len(bcast) :
           i \in (saved.b + 1)..Len(bcast') /\ bcast'[i] = bcast[i]
    <3>1. CASE bcast' = Append(bcast, m)
      BY <1>2, <1>3, <3>1, AppendProperties
    <3>. QED
      BY <1>1, <3>1
  <2>. QED
    BY <1>1, <2>2, <2>3 DEF Quiet
<1>5. WalkInv'
  <2> SUFFICES ASSUME NEW r \in Rules \ reordered' PROVE \E h \in Walks : Walk(r, h)'
    BY <1>1 DEF WalkInv, Walks
  <2>1. PICK h \in Walks : Walk(r, h)
    BY <1>1 DEF OnceInv, WalkInv
  <2>2. CASE r # m.rule
    <3>1. h[state'.t] = View(state', r)
      BY <1>1, <2>1, <2>2 DEF Walk
    <3>. QED
      BY <1>1, <1>4, <2>1, <3>1, WalkKeeps
  <2>3. CASE r = m.rule
    <3>1. PICK n \in Nat : n = Len(ticks) /\ state.t = n
      BY <1>1, <1>2, <1>3, <2>3
    <3>2. View(state', r) \in Views
      BY <1>2, ViewType
    <3>3. PICK g \in Walks : g = [h EXCEPT ![n] = View(state', r)]
      BY <2>1, <3>1, <3>2 DEF Walks
    <3>4. g[n] = View(state', r)
      BY <2>1, <3>1, <3>3 DEF Walks
    <3>5. ~Quiet(r)'
      BY <1>4, <2>3
    <3>6. ASSUME NEW a \in alerts, a.rule = r PROVE Covered(a, g[n])
      <4>1. Covered(a, View(state, r))
        BY <2>1, <3>1, <3>6 DEF Walk
      <4>2. /\ View(state, r).last = state.last[r] /\ View(state, r).ref = state.ref[r]
            /\ View(state', r).last = state'.last[r] /\ View(state', r).ref = state'.ref[r]
        BY <1>2, ViewType
      <4>. QED
        BY <1>1, <3>4, <4>1, <4>2 DEF Covered
    <3>7. \A i \in n..(n - 1) : FALSE
      BY <3>1
    <3>8. Walk(r, g)'
      BY <1>1, <3>1, <3>4, <3>5, <3>6, <3>7 DEF Walk
    <3>. QED
      BY <3>8
  <2>. QED
    BY <2>1, <2>2, <2>3
<1>6. OnceInAWhile'
  BY <1>1, OnceKeeps DEF OnceInv
<1>. QED
  BY <1>1, <1>5, <1>6 DEF OnceInv

LEMMA OnceFlink ==
  ASSUME OnceInv,
         Checkpoint \/ Restore \/ Submit \/ UNCHANGED matchVars
  PROVE  OnceInv'
<1>1. /\ MatchTypes' /\ ticks' = ticks /\ bcast' = bcast
      /\ \/ UNCHANGED <<state, alerts, reordered>> /\ saved' \in {saved, state}
         \/ /\ state' = saved /\ saved' = saved /\ alerts' = alerts
            /\ reordered' = reordered \cup {bcast[i].rule : i \in (saved.b + 1)..Len(bcast)}
         \/ /\ state' = [Fresh EXCEPT !.t = Len(ticks)] /\ saved' = state'
            /\ alerts' = {} /\ reordered' = {}
  BY FlinkMoves DEF OnceInv
<1>2. /\ state \in OperatorStates /\ saved \in OperatorStates /\ ticks \in Seq(Ticks)
      /\ saved.t <= state.t /\ state.t <= Len(ticks)
  BY DEF OnceInv, MatchTypes
<1>3. state.t \in Nat /\ saved.t \in Nat /\ Len(ticks) \in Nat
  BY <1>2 DEF OperatorStates
<1>4. CASE UNCHANGED <<state, alerts, reordered>> /\ saved' \in {saved, state}
  <2>1. ASSUME NEW r \in Rules, NEW h \in Walks, Walk(r, h) PROVE Walk(r, h)'
    <3>1. \A i : Walked(r, h, i)' <=> Walked(r, h, i)
      BY <1>1, <1>4 DEF Walked
    <3>2. saved' = saved => (Quiet(r)' <=> Quiet(r))
      BY <1>1 DEF Quiet
    <3>. QED
      BY <1>1, <1>4, <2>1, <3>1, <3>2 DEF Walk
  <2>2. WalkInv'
    BY <1>1, <1>4, <2>1 DEF OnceInv, WalkInv, Walks
  <2>. QED
    BY <1>1, <1>4, <2>2, OnceKeeps DEF OnceInv
<1>5. CASE /\ state' = saved /\ saved' = saved /\ alerts' = alerts
           /\ reordered' = reordered \cup {bcast[i].rule : i \in (saved.b + 1)..Len(bcast)}
  <2>1. ASSUME NEW r \in Rules \ reordered' PROVE \E h \in Walks : Walk(r, h)'
    <3>1. PICK h \in Walks : Walk(r, h)
      BY <1>5, <2>1 DEF OnceInv, WalkInv
    <3>2. Quiet(r)
      BY <1>5, <2>1 DEF Quiet
    <3>3. \A i : Walked(r, h, i)' <=> Walked(r, h, i)
      BY <1>1, <1>5 DEF Walked
    <3>4. Walk(r, h)'
      BY <1>1, <1>5, <3>1, <3>2, <3>3 DEF Walk
    <3>. QED
      BY <3>4
  <2>2. WalkInv'
    BY <1>1, <2>1 DEF WalkInv, Walks
  <2>. QED
    BY <1>1, <1>5, <2>2, OnceKeeps DEF OnceInv
<1>6. CASE /\ state' = [Fresh EXCEPT !.t = Len(ticks)] /\ saved' = state'
           /\ alerts' = {} /\ reordered' = {}
  <2>1. ASSUME NEW r \in Rules PROVE \E h \in Walks : Walk(r, h)'
    <3>1. View(state', r) \in Views /\ state'.t = Len(ticks)
      <4>1. state' \in OperatorStates
        BY <1>1 DEF MatchTypes
      <4>. QED
        BY <1>3, <1>6, <4>1, FreshType, ViewType
    <3>2. PICK h \in Walks : h[Len(ticks)] = View(state', r)
      <4>. DEFINE f == [i \in 0..Len(ticks) |-> View(state', r)]
      <4>1. f \in Walks /\ f[Len(ticks)] = View(state', r)
        BY <1>3, <3>1 DEF Walks
      <4>. QED
        BY <4>1
    <3>3. \A i \in Len(ticks)..(Len(ticks) - 1) : FALSE
      BY <1>3
    <3>4. Walk(r, h)'
      BY <1>1, <1>6, <3>1, <3>2, <3>3 DEF Walk
    <3>. QED
      BY <3>4
  <2>2. WalkInv'
    BY <1>1, <2>1 DEF WalkInv, Walks
  <2>3. OnceInAWhile'
    BY <1>6 DEF OnceInAWhile
  <2>. QED
    BY <1>1, <2>2, <2>3 DEF OnceInv
<1>. QED
  BY <1>1, <1>4, <1>5, <1>6

\* Two alerts of a rule are a cooldown or a window apart, although a failure has
\* ticks read again, unless two versions of the rule have met the same ticks.
THEOREM OnceSafe == MatchSpec => []OnceInAWhile
<1>1. ASSUME MatchInit PROVE OnceInv
  <2>1. /\ MatchTypes /\ ticks = << >> /\ alerts = {} /\ state = saved /\ state = Fresh
    BY <1>1, MatchTypeInit DEF MatchInit
  <2>2. Len(ticks) = 0 /\ state.t = 0 /\ saved.t = 0 /\ state \in OperatorStates
    BY <2>1, FreshType
  <2>3. ASSUME NEW r \in Rules PROVE \E h \in Walks : Walk(r, h)
    <3>1. View(state, r) \in Views
      BY <2>2, ViewType
    <3>2. PICK h \in Walks : h[0] = View(state, r)
      <4>. DEFINE f == [i \in 0..0 |-> View(state, r)]
      <4>1. f \in Walks /\ f[0] = View(state, r)
        BY <2>2, <3>1 DEF Walks
      <4>. QED
        BY <4>1
    <3>3. \A i \in 0..(Len(ticks) - 1) : FALSE
      BY <2>2
    <3>4. Walk(r, h)
      BY <2>1, <2>2, <3>2, <3>3 DEF Walk
    <3>. QED
      BY <3>4
  <2>4. WalkInv /\ OnceInAWhile
    BY <2>1, <2>3 DEF WalkInv, OnceInAWhile
  <2>. QED
    BY <2>1, <2>4 DEF OnceInv
<1>2. OnceInv /\ [MatchNext]_matchVars => OnceInv'
  BY MatchCases, OnceTick, OnceRule, OnceFlink
<1>3. OnceInv => OnceInAWhile
  BY DEF OnceInv
<1>. QED
  BY <1>1, <1>2, <1>3, PTL DEF MatchSpec
=============================================================================
