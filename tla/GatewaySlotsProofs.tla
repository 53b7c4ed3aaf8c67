------------------------- MODULE GatewaySlotsProofs -------------------------
(***************************************************************************)
(* Theorems about GatewaySlots, for any instances, consumers, throttle and *)
(* bounds: no alert is lost behind the offset (AlertsInv), and the         *)
(* consumer in the manager's map runs (TypesInv, on top of AlertsInv).     *)
(***************************************************************************)
EXTENDS GatewaySlots, TLAPS

-----------------------------------------------------------------------------
Position == [st : {"off", "open", "fetch", "commit"}, pos : Nat, pending : Int, last : Int,
             cancelled : BOOLEAN]

Types ==
    /\ part \in Seq(Gateways \cup {Nobody})
    /\ offset \in Int /\ offset >= -1
    /\ con \in [Gateways -> [Consumers -> Position]]
    /\ current \in [Gateways -> {0} \cup Consumers]

Reads(c) == c.st \in {"fetch", "commit"}

\* A consumer that reads has opened, within the partition, and will commit
\* nothing beyond what it has read; another one commits nothing.
ReaderInv ==
    \A g \in Gateways, k \in Consumers : LET c == con[g][k] IN
        /\ Reads(c) => g \in opened /\ c.pos <= Len(part) /\ c.pending <= c.pos
        /\ ~Reads(c) => c.pending < 0

\* Every alert for g up to n is with it, or a consumer began behind it.
ServedUpTo(g, n) == \A i \in 1..n : Mine(g, i) => i \in handled \cup skipped

\* Of an instance that alone has consumed the slot, all consumers, those that
\* are cancelled and still run included, have served what they have read.
ServedInv ==
    /\ offset <= Len(part)
    /\ \A g \in Gateways : opened \subseteq {g} =>
          /\ ServedUpTo(g, offset)
          /\ \A k \in Consumers : Reads(con[g][k]) => ServedUpTo(g, con[g][k].pos)

AlertsInv == Types /\ ReaderInv /\ ServedInv

LEMMA AlertsInit == Init => AlertsInv
<1> SUFFICES ASSUME Init PROVE AlertsInv
  OBVIOUS
<1>1. Types
  BY DEF Init, Types, Position, NoConsumer
<1>2. ReaderInv /\ ServedInv
  BY DEF Init, ReaderInv, ServedInv, Reads, NoConsumer, ServedUpTo
<1>. QED
  BY <1>1, <1>2 DEF AlertsInv

\* A step that opens no consumer, moves none, writes no offset and no message.
LEMMA QuietStep ==
  ASSUME AlertsInv, UNCHANGED <<offset, stream>>, current' \in [Gateways -> {0} \cup Consumers],
         con' \in [Gateways -> [Consumers -> Position]],
         \A g \in Gateways, k \in Consumers :
            \/ con'[g][k].st \notin {"fetch", "commit"} /\ con'[g][k].pending < 0
            \/ /\ con'[g][k].st = con[g][k].st /\ con'[g][k].pos = con[g][k].pos
               /\ con'[g][k].pending = con[g][k].pending
  PROVE  AlertsInv'
<1>1. Types'
  BY DEF AlertsInv, Types, stream
<1>2. ReaderInv'
  BY DEF AlertsInv, ReaderInv, Reads, stream
<1>3. ServedInv'
  BY DEF AlertsInv, ServedInv, Reads, ServedUpTo, Mine, stream
<1>. QED
  BY <1>1, <1>2, <1>3 DEF AlertsInv

LEMMA SetConsumer ==
  ASSUME Types, NEW g \in Gateways, NEW k \in Consumers, NEW c \in Position,
         con' = [con EXCEPT ![g][k] = c]
  PROVE  /\ con' \in [Gateways -> [Consumers -> Position]]
         /\ \A h \in Gateways, j \in Consumers :
               con'[h][j] = IF h = g /\ j = k THEN c ELSE con[h][j]
<1>1. con \in [Gateways -> [Consumers -> Position]]
  BY DEF Types
<1>2. [con[g] EXCEPT ![k] = c] \in [Consumers -> Position]
  BY <1>1
<1>3. con' = [con EXCEPT ![g] = [con[g] EXCEPT ![k] = c]]
  BY <1>1
<1>. QED
  BY <1>1, <1>2, <1>3

\* What an instance does besides reading.
LEMMA ManagerStep ==
  ASSUME AlertsInv, NEW g \in Gateways,
         Manage(g) \/ Shutdown(g) \/ Crash(g) \/ Restart(g)
  PROVE  AlertsInv'
<1>1. CASE UNCHANGED <<offset, stream, con>> /\ current' \in [Gateways -> {0} \cup Consumers]
  BY <1>1, QuietStep DEF AlertsInv, Types
<1>2. CASE Tick(g) \/ AddIndex(g) \/ RemoveIndex(g) \/ ReadLease(g) \/ DeleteLease(g)
  BY <1>1, <1>2 DEF Tick, AddIndex, RemoveIndex, ReadLease, DeleteLease, redis, AlertsInv, Types
<1>3. CASE Unregister(g)
  BY <1>1, <1>3 DEF Unregister, AlertsInv, Types
<1>4. CASE StartConsumer(g)
  <2>1. CASE UNCHANGED <<current, con>>
    BY <1>1, <1>4, <2>1 DEF StartConsumer, redis, AlertsInv, Types
  <2>2. ASSUME NEW k \in Consumers,
               con' = [con EXCEPT ![g][k] = [NoConsumer EXCEPT !.st = "open"]],
               current' = [current EXCEPT ![g] = k]
        PROVE  AlertsInv'
    <3>1. UNCHANGED <<offset, stream>>
      BY <1>4 DEF StartConsumer, redis
    <3>2. current' \in [Gateways -> {0} \cup Consumers]
      BY <2>2 DEF AlertsInv, Types
    <3>. DEFINE c == [NoConsumer EXCEPT !.st = "open"]
    <3>3. NoConsumer \in Position /\ NoConsumer.pending < 0
      BY DEF NoConsumer, Position
    <3>4. c \in Position /\ c.st = "open" /\ c.pending < 0
      BY <3>3 DEF Position
    <3>. HIDE DEF c
    <3>5. con' = [con EXCEPT ![g][k] = c]
      BY <2>2 DEF c
    <3>6. /\ con' \in [Gateways -> [Consumers -> Position]]
          /\ \A h \in Gateways, j \in Consumers :
                con'[h][j] = IF h = g /\ j = k THEN c ELSE con[h][j]
      BY <3>4, <3>5, SetConsumer DEF AlertsInv
    <3>. QED
      BY <3>1, <3>2, <3>4, <3>6, QuietStep
  <2>. QED
    BY <1>4, <2>1, <2>2 DEF StartConsumer
<1>5. CASE StopConsumer(g)
  <2>1. UNCHANGED <<offset, stream>> /\ current' \in [Gateways -> {0} \cup Consumers]
    BY <1>5 DEF StopConsumer, redis, AlertsInv, Types
  <2>2. CASE con' = con
    BY <1>1, <2>1, <2>2
  <2>3. ASSUME NEW k \in Consumers, con' = [con EXCEPT ![g][k].cancelled = TRUE]
        PROVE  AlertsInv'
    <3>. DEFINE c == [con[g][k] EXCEPT !.cancelled = TRUE]
    <3>1. con[g][k] \in Position
      BY DEF AlertsInv, Types
    <3>2. /\ c \in Position /\ c.st = con[g][k].st
          /\ c.pos = con[g][k].pos /\ c.pending = con[g][k].pending
      BY <3>1 DEF Position
    <3>3. con' = [con EXCEPT ![g][k] = c]
      BY <2>3
    <3>. HIDE DEF c
    <3>4. /\ con' \in [Gateways -> [Consumers -> Position]]
          /\ \A h \in Gateways, j \in Consumers :
                con'[h][j] = IF h = g /\ j = k THEN c ELSE con[h][j]
      BY <3>2, <3>3, SetConsumer DEF AlertsInv
    <3>. QED
      BY <2>1, <3>2, <3>4, QuietStep
  <2>. QED
    BY <1>5, <2>2, <2>3 DEF StopConsumer, AlertsInv, Types
<1>6. CASE Shutdown(g)
  <2>1. UNCHANGED <<offset, stream, current>>
    BY <1>6 DEF Shutdown, redis
  <2>2. con' = [con EXCEPT ![g] = [k \in Consumers |->
                 IF con[g][k].st = "off" THEN con[g][k]
                 ELSE [con[g][k] EXCEPT !.cancelled = TRUE]]]
    BY <1>6 DEF Shutdown, AlertsInv, Types
  <2>. DEFINE c(k) == IF con[g][k].st = "off" THEN con[g][k]
                      ELSE [con[g][k] EXCEPT !.cancelled = TRUE]
  <2>a. con \in [Gateways -> [Consumers -> Position]]
    BY DEF AlertsInv, Types
  <2>b. ASSUME NEW k \in Consumers
        PROVE  /\ c(k) \in Position /\ c(k).st = con[g][k].st
               /\ c(k).pos = con[g][k].pos /\ c(k).pending = con[g][k].pending
    <3>1. con[g][k] \in Position
      BY <2>a
    <3>. QED
      BY <3>1 DEF Position
  <2>c. con' = [con EXCEPT ![g] = [k \in Consumers |-> c(k)]]
    BY <2>2
  <2>. HIDE DEF c
  <2>3. con' \in [Gateways -> [Consumers -> Position]]
    BY <2>a, <2>b, <2>c
  <2>4. \A h \in Gateways, j \in Consumers :
           /\ con'[h][j].st = con[h][j].st /\ con'[h][j].pos = con[h][j].pos
           /\ con'[h][j].pending = con[h][j].pending
    BY <2>a, <2>b, <2>c
  <2>. QED
    BY <2>1, <2>3, <2>4, QuietStep DEF AlertsInv, Types
<1>7. CASE Crash(g) \/ Restart(g)
  <2>1. UNCHANGED <<offset, stream>> /\ Gone(g)
    BY <1>7 DEF Crash, Restart, redis
  <2>2. /\ current' \in [Gateways -> {0} \cup Consumers]
        /\ con' \in [Gateways -> [Consumers -> Position]]
    BY <2>1 DEF Gone, AlertsInv, Types, NoConsumer, Position
  <2>3. \A h \in Gateways, j \in Consumers : con'[h][j] \in {NoConsumer, con[h][j]}
    BY <2>1 DEF Gone, AlertsInv, Types
  <2>. QED
    BY <2>1, <2>2, <2>3, QuietStep DEF NoConsumer
<1>. QED
  BY <1>2, <1>3, <1>4, <1>5, <1>6, <1>7 DEF Manage

-----------------------------------------------------------------------------
(* The consumers                                                           *)

LEMMA PartType ==
  AlertsInv => /\ Len(part) \in Nat /\ DOMAIN part = 1..Len(part)
               /\ con \in [Gateways -> [Consumers -> Position]]
BY DEF AlertsInv, Types

\* A step of consumer k of g, which becomes c, and may write the offset.
LEMMA ReaderStep ==
  ASSUME AlertsInv, NEW g \in Gateways, NEW k \in Consumers, NEW c \in Position,
         con' = [con EXCEPT ![g][k] = c], UNCHANGED <<current, part>>,
         handled \subseteq handled', skipped \subseteq skipped',
         opened \subseteq opened', opened' \subseteq opened \cup {g},
         Reads(c) => g \in opened' /\ c.pos <= Len(part) /\ c.pending <= c.pos,
         ~Reads(c) => c.pending < 0,
         Reads(c) /\ opened' \subseteq {g} => ServedUpTo(g, c.pos)',
         offset' \in Int, offset' >= -1, offset' <= Len(part),
         \A h \in Gateways : opened' \subseteq {h} => ServedUpTo(h, offset)'
  PROVE  AlertsInv'
<1>1. /\ con' \in [Gateways -> [Consumers -> Position]]
      /\ \A h \in Gateways, j \in Consumers :
            con'[h][j] = IF h = g /\ j = k THEN c ELSE con[h][j]
  BY SetConsumer DEF AlertsInv
<1>2. Types'
  BY <1>1 DEF AlertsInv, Types
<1>3. ReaderInv'
  BY <1>1 DEF AlertsInv, ReaderInv, Reads
<1>4. ASSUME NEW h \in Gateways, opened' \subseteq {h}, NEW j \in Consumers, Reads(con'[h][j])
      PROVE  ServedUpTo(h, con[h][j].pos)'
  <2>1. CASE h = g /\ j = k
    BY <1>1, <1>4, <2>1 DEF ServedUpTo, Mine
  <2>2. CASE ~(h = g /\ j = k)
    <3>1. con'[h][j] = con[h][j] /\ opened \subseteq {h}
      BY <1>1, <1>4, <2>2
    <3>2. ServedUpTo(h, con[h][j].pos)
      BY <1>4, <3>1 DEF AlertsInv, ServedInv
    <3>. QED
      BY <3>1, <3>2 DEF ServedUpTo, Mine
  <2>. QED
    BY <2>1, <2>2
<1>5. ServedInv'
  BY <1>4 DEF ServedInv
<1>. QED
  BY <1>2, <1>3, <1>5 DEF AlertsInv

\* What was served stays so.
LEMMA OffsetServed ==
  ASSUME AlertsInv, UNCHANGED <<offset, part>>,
         handled \subseteq handled', skipped \subseteq skipped', opened \subseteq opened'
  PROVE  \A h \in Gateways : opened' \subseteq {h} => ServedUpTo(h, offset)'
BY DEF AlertsInv, ServedInv, ServedUpTo, Mine

LEMMA OpenStep ==
  ASSUME AlertsInv, NEW g \in Gateways, NEW k \in Consumers, Open(g, k)
  PROVE  AlertsInv'
<1>1. PICK from \in {offset, -1} :
         /\ con' = [con EXCEPT ![g][k].st = "fetch", ![g][k].pos = StartAt(from)]
         /\ skipped' = IF from = -1 THEN skipped \cup DOMAIN part ELSE skipped
  BY DEF Open
<1>2. /\ con[g][k].st = "open" /\ opened' = opened \cup {g}
      /\ UNCHANGED <<offset, part, handled, current>>
  BY DEF Open, redis, manager
<1>3. /\ con[g][k] \in Position /\ con \in [Gateways -> [Consumers -> Position]]
      /\ Len(part) \in Nat /\ DOMAIN part = 1..Len(part)
      /\ offset \in Int /\ offset >= -1 /\ offset <= Len(part)
  BY PartType DEF AlertsInv, Types, ServedInv
<1>4. StartAt(from) \in Nat /\ StartAt(from) <= Len(part)
  BY <1>3 DEF StartAt
<1>c. PICK c : c = [con[g][k] EXCEPT !.st = "fetch", !.pos = StartAt(from)]
  OBVIOUS
<1>5. /\ c \in Position /\ c.st = "fetch" /\ c.pos = StartAt(from)
      /\ c.pending = con[g][k].pending
  BY <1>c, <1>3, <1>4 DEF Position
<1>6. con' = [con EXCEPT ![g][k] = c]
  BY <1>c, <1>1, <1>3
<1>7. c.pending < 0
  BY <1>2, <1>5 DEF AlertsInv, ReaderInv, Reads
<1>8. ASSUME opened' \subseteq {g} PROVE ServedUpTo(g, c.pos)'
  <2>1. CASE from = -1
    <3>1. 1..StartAt(from) \subseteq skipped'
      BY <1>1, <1>3, <2>1 DEF StartAt
    <3>. QED
      BY <1>5, <3>1 DEF ServedUpTo
  <2>2. CASE from # -1
    <3>1. StartAt(from) = offset /\ skipped' = skipped /\ opened \subseteq {g}
      BY <1>1, <1>2, <1>8, <2>2 DEF StartAt
    <3>2. ServedUpTo(g, offset)
      BY <3>1 DEF AlertsInv, ServedInv
    <3>. QED
      BY <1>2, <1>5, <3>1, <3>2 DEF ServedUpTo, Mine
  <2>. QED
    BY <2>1, <2>2
<1>9. skipped \subseteq skipped'
  BY <1>1
<1>10. \A h \in Gateways : opened' \subseteq {h} => ServedUpTo(h, offset)'
  BY <1>2, <1>9, OffsetServed
<1>11. Reads(c) /\ c.pending <= c.pos
  BY <1>4, <1>5, <1>7 DEF Reads, Position
<1>. QED
  BY <1>2, <1>3, <1>4, <1>5, <1>6, <1>8, <1>9, <1>10, <1>11, ReaderStep

LEMMA HandleStep ==
  ASSUME AlertsInv, NEW g \in Gateways, NEW k \in Consumers, Handle(g, k)
  PROVE  AlertsInv'
<1>i. PICK i : i = con[g][k].pos + 1
  OBVIOUS
<1>c. PICK c : c = [con[g][k] EXCEPT !.st = "commit", !.pos = i, !.pending = i]
  OBVIOUS
<1>1. /\ con[g][k].st = "fetch" /\ i <= Len(part)
      /\ con' = [con EXCEPT ![g][k].st = "commit", ![g][k].pos = i, ![g][k].pending = i]
      /\ handled' = IF Mine(g, i) THEN handled \cup {i} ELSE handled
      /\ UNCHANGED <<offset, part, skipped, opened, current>>
  BY <1>i DEF Handle, redis, manager
<1>2. /\ con[g][k] \in Position /\ con \in [Gateways -> [Consumers -> Position]]
      /\ Len(part) \in Nat
      /\ offset \in Int /\ offset >= -1 /\ offset <= Len(part)
  BY PartType DEF AlertsInv, Types, ServedInv
<1>3. con[g][k].pos \in Nat /\ i \in Nat
  BY <1>i, <1>2 DEF Position
<1>4. c \in Position /\ c.st = "commit" /\ c.pos = i /\ c.pending = i
  <2>1. c = [st |-> "commit", pos |-> i, pending |-> i, last |-> con[g][k].last,
             cancelled |-> con[g][k].cancelled]
    BY <1>c, <1>2 DEF Position
  <2>2. i \in Int /\ con[g][k].last \in Int /\ con[g][k].cancelled \in BOOLEAN
    BY <1>2, <1>3 DEF Position
  <2>. QED
    BY <1>3, <2>1, <2>2 DEF Position
<1>5. con' = [con EXCEPT ![g][k] = c]
  BY <1>c, <1>1, <1>2
<1>6. g \in opened
  BY <1>1 DEF AlertsInv, ReaderInv, Reads
<1>7. ASSUME opened' \subseteq {g} PROVE ServedUpTo(g, c.pos)'
  <2>1. ServedUpTo(g, con[g][k].pos)
    BY <1>1, <1>7 DEF AlertsInv, ServedInv, Reads
  <2>2. ASSUME NEW m \in 1..i, Mine(g, m) PROVE m \in handled' \cup skipped'
    <3>1. m \in 1..con[g][k].pos \/ m = i
      BY <1>i, <1>3
    <3>. QED
      BY <1>1, <2>1, <2>2, <3>1 DEF ServedUpTo
  <2>3. \A m : Mine(g, m)' <=> Mine(g, m)
    BY <1>1 DEF Mine
  <2>. QED
    BY <1>4, <2>2, <2>3 DEF ServedUpTo
<1>8. handled \subseteq handled'
  BY <1>1
<1>9. \A h \in Gateways : opened' \subseteq {h} => ServedUpTo(h, offset)'
  BY <1>1, <1>8, OffsetServed
<1>10. Reads(c) /\ c.pending <= c.pos /\ c.pos <= Len(part)
  BY <1>1, <1>3, <1>4 DEF Reads
<1>11. /\ UNCHANGED <<current, part>>
       /\ skipped \subseteq skipped' /\ opened \subseteq opened' /\ opened' \subseteq opened \cup {g}
       /\ g \in opened'
       /\ offset' \in Int /\ offset' >= -1 /\ offset' <= Len(part)
  BY <1>1, <1>2, <1>6
<1>. QED
  BY <1>4, <1>5, <1>7, <1>8, <1>9, <1>10, <1>11, ReaderStep

\* The flush at the end of a batch, and that at the end of a consumer: only
\* what has been read, and so served, gets into the offset.
LEMMA FlushStep ==
  ASSUME AlertsInv, NEW g \in Gateways, NEW k \in Consumers, NEW st \in {"off", "fetch"},
         NEW cancelled, Flush(g, k, st, cancelled), UNCHANGED <<current, stream>>,
         st = "fetch" => Reads(con[g][k])
  PROVE  AlertsInv'
<1>b. PICK b : b = con[g][k]
  OBVIOUS
<1>c. PICK c : c = IF st = "off" THEN NoConsumer ELSE [b EXCEPT !.st = st, !.last = b.pending]
  OBVIOUS
<1>1. /\ b \in Position /\ con \in [Gateways -> [Consumers -> Position]]
      /\ Len(part) \in Nat
      /\ offset \in Int /\ offset >= -1 /\ offset <= Len(part)
  BY <1>b, PartType DEF AlertsInv, Types, ServedInv
<1>2. b.pos \in Nat /\ b.pending \in Int
  BY <1>1 DEF Position
<1>3. con' = [con EXCEPT ![g][k] = c]
  BY <1>b, <1>c, <1>1 DEF Flush
<1>4. Reads(b) => /\ g \in opened /\ b.pos <= Len(part) /\ b.pending <= b.pos
                  /\ opened \subseteq {g} => ServedUpTo(g, b.pos)
  BY <1>b DEF AlertsInv, ReaderInv, ServedInv
<1>5. c \in Position
  <2>1. NoConsumer \in Position
    BY DEF NoConsumer, Position
  <2>2. [b EXCEPT !.st = "fetch", !.last = b.pending] \in Position
    BY <1>1, <1>2 DEF Position
  <2>. QED
    BY <1>c, <2>1, <2>2
<1>6. \/ ~Reads(c) /\ c.pending < 0
      \/ Reads(c) /\ Reads(b) /\ c.pos = b.pos /\ c.pending = b.pending
  <2>1. CASE st = "off"
    BY <1>c, <2>1 DEF NoConsumer, Reads
  <2>2. CASE st = "fetch"
    BY <1>b, <1>c, <1>1, <2>2 DEF Reads, Position
  <2>. QED
    BY <2>1, <2>2
<1>7. UNCHANGED <<current, part, handled, skipped, opened>>
  BY DEF stream
<1>8. Reads(c) /\ opened' \subseteq {g} => ServedUpTo(g, c.pos)'
  BY <1>4, <1>6, <1>7 DEF ServedUpTo, Mine
<1>9. /\ offset' \in Int /\ offset' >= -1 /\ offset' <= Len(part)
      /\ \A h \in Gateways : opened' \subseteq {h} => ServedUpTo(h, offset)'
  <2>1. CASE offset' = offset
    BY <1>1, <1>7, <2>1, OffsetServed
  <2>2. CASE offset' = b.pending /\ b.pending >= 0
    <3>1. Reads(b)
      BY <1>b, <1>2, <2>2 DEF AlertsInv, ReaderInv
    <3>2. ASSUME NEW h \in Gateways, opened' \subseteq {h}
          PROVE  ServedUpTo(h, offset)'
      <4>1. h = g /\ ServedUpTo(g, b.pos) /\ b.pending <= b.pos
        BY <1>4, <1>7, <3>1, <3>2
      <4>2. 1..b.pending \subseteq 1..b.pos
        BY <1>2, <4>1
      <4>3. ServedUpTo(g, b.pending)
        BY <4>1, <4>2 DEF ServedUpTo
      <4>. QED
        BY <1>7, <2>2, <4>1, <4>3 DEF ServedUpTo, Mine
    <3>. QED
      BY <1>1, <1>2, <1>4, <2>2, <3>1, <3>2
  <2>3. offset' = offset \/ (offset' = b.pending /\ b.pending >= 0)
    <3>1. \/ UNCHANGED offset
          \/ ~(b.pending < 0) /\ offset' = b.pending
      BY <1>b DEF Flush
    <3>. QED
      BY <1>2, <3>1
  <2>. QED
    BY <2>1, <2>2, <2>3
<1>. QED
  BY <1>3, <1>4, <1>5, <1>6, <1>7, <1>8, <1>9, ReaderStep

LEMMA CommitStep ==
  ASSUME AlertsInv, NEW g \in Gateways, NEW k \in Consumers, Commit(g, k)
  PROVE  AlertsInv'
<1>1. con[g][k].st = "commit" /\ UNCHANGED <<current, stream>>
  BY DEF Commit, manager
<1>2. CASE Flush(g, k, "fetch", con[g][k].cancelled)
  <2>1. PICK cancelled : Flush(g, k, "fetch", cancelled)
    BY <1>2
  <2>2. Reads(con[g][k])
    BY <1>1 DEF Reads
  <2>. QED
    BY <1>1, <2>1, <2>2, FlushStep
<1>3. CASE con' = [con EXCEPT ![g][k].st = "fetch"] /\ UNCHANGED offset
  <2>c. PICK c : c = [con[g][k] EXCEPT !.st = "fetch"]
    OBVIOUS
  <2>1. /\ con[g][k] \in Position /\ con \in [Gateways -> [Consumers -> Position]]
        /\ Len(part) \in Nat
        /\ offset \in Int /\ offset >= -1 /\ offset <= Len(part)
    BY PartType DEF AlertsInv, Types, ServedInv
  <2>2. /\ c \in Position /\ c.st = "fetch"
        /\ c.pos = con[g][k].pos /\ c.pending = con[g][k].pending
    BY <2>c, <2>1 DEF Position
  <2>3. con' = [con EXCEPT ![g][k] = c]
    BY <1>3, <2>c, <2>1
  <2>4. UNCHANGED <<part, handled, skipped, opened>>
    BY <1>1 DEF stream
  <2>5. /\ g \in opened /\ c.pos <= Len(part) /\ c.pending <= c.pos
        /\ opened \subseteq {g} => ServedUpTo(g, c.pos)
    BY <1>1, <2>2 DEF AlertsInv, ReaderInv, ServedInv, Reads
  <2>6. opened' \subseteq {g} => ServedUpTo(g, c.pos)'
    BY <2>4, <2>5 DEF ServedUpTo, Mine
  <2>7. \A h \in Gateways : opened' \subseteq {h} => ServedUpTo(h, offset)'
    BY <1>3, <2>4, OffsetServed
  <2>8. Reads(c)
    BY <2>2 DEF Reads
  <2>. QED
    BY <1>1, <1>3, <2>1, <2>2, <2>3, <2>4, <2>5, <2>6, <2>7, <2>8, ReaderStep
<1>. QED
  BY <1>2, <1>3 DEF Commit

LEMMA ExitStep ==
  ASSUME AlertsInv, NEW g \in Gateways, NEW k \in Consumers, Exit(g, k)
  PROVE  AlertsInv'
<1>1. Flush(g, k, "off", FALSE) /\ UNCHANGED <<current, stream>>
  BY DEF Exit, manager
<1>. QED
  BY <1>1, FlushStep

\* notify and quote-push write behind all that is there.
LEMMA SendStep ==
  ASSUME AlertsInv, NEW to \in Gateways \cup {Nobody}, Send(to)
  PROVE  AlertsInv'
<1>1. /\ part' = Append(part, to)
      /\ UNCHANGED <<offset, con, current, handled, skipped, opened>>
  BY DEF Send, redis, manager
<1>2. part \in Seq(Gateways \cup {Nobody}) /\ Len(part) \in Nat
  BY DEF AlertsInv, Types
<1>3. /\ part' \in Seq(Gateways \cup {Nobody}) /\ Len(part') = Len(part) + 1
      /\ \A i \in 1..Len(part) : part'[i] = part[i]
  BY <1>1, <1>2
<1>4. Types'
  BY <1>1, <1>3 DEF AlertsInv, Types
<1>5. ReaderInv'
  <2> SUFFICES ASSUME NEW g \in Gateways, NEW k \in Consumers, Reads(con[g][k])
               PROVE  con[g][k].pos <= Len(part')
    BY <1>1 DEF AlertsInv, ReaderInv
  <2>1. con[g][k].pos \in Nat /\ con[g][k].pos <= Len(part)
    BY DEF AlertsInv, Types, ReaderInv, Position
  <2>. QED
    BY <1>2, <1>3, <2>1
<1>6. ASSUME NEW g \in Gateways, NEW n \in Int, n <= Len(part), ServedUpTo(g, n)
      PROVE  ServedUpTo(g, n)'
  <2>1. 1..n \subseteq 1..Len(part)
    BY <1>2, <1>6
  <2>. QED
    BY <1>1, <1>3, <1>6, <2>1 DEF ServedUpTo, Mine
<1>7. ServedInv'
  <2>1. offset \in Int /\ offset <= Len(part) /\ offset' <= Len(part')
    BY <1>1, <1>2, <1>3 DEF AlertsInv, Types, ServedInv
  <2>2. ASSUME NEW g \in Gateways, opened \subseteq {g} PROVE ServedUpTo(g, offset)'
    <3>1. PICK n : n = offset
      OBVIOUS
    <3>2. ServedUpTo(g, n)'
      BY <1>6, <2>1, <2>2, <3>1 DEF AlertsInv, ServedInv
    <3>. QED
      BY <1>1, <3>1, <3>2
  <2>3. ASSUME NEW g \in Gateways, opened \subseteq {g}, NEW k \in Consumers, Reads(con[g][k])
        PROVE  ServedUpTo(g, con[g][k].pos)'
    <3>1. PICK n : n = con[g][k].pos
      OBVIOUS
    <3>2. n \in Int /\ n <= Len(part) /\ ServedUpTo(g, n)
      BY <2>3, <3>1 DEF AlertsInv, Types, ReaderInv, ServedInv, Position
    <3>3. ServedUpTo(g, n)'
      BY <1>6, <3>2
    <3>. QED
      BY <1>1, <3>1, <3>3
  <2>. QED
    BY <1>1, <2>1, <2>2, <2>3 DEF ServedInv
<1>. QED
  BY <1>4, <1>5, <1>7 DEF AlertsInv

LEMMA AlertsStep == AlertsInv /\ [Next]_vars => AlertsInv'
<1> SUFFICES ASSUME AlertsInv, [Next]_vars PROVE AlertsInv'
  OBVIOUS
<1>1. CASE \E g \in Gateways : Manage(g) \/ Shutdown(g) \/ Crash(g) \/ Restart(g)
  BY <1>1, ManagerStep
<1>2. CASE \E g \in Gateways, k \in Consumers : Consume(g, k)
  BY <1>2, OpenStep, HandleStep, CommitStep, ExitStep DEF Consume
<1>3. CASE \E to \in Gateways \cup {Nobody} : Send(to)
  BY <1>3, SendStep
<1>4. CASE Expire \/ UNCHANGED vars
  BY <1>4, QuietStep DEF Expire, vars, redis, manager, AlertsInv, Types
<1>. QED
  BY <1>1, <1>2, <1>3, <1>4 DEF Next

-----------------------------------------------------------------------------
\* An alert that the offset in Redis has passed was dispatched, or lay behind
\* the point where a consumer began, for an instance that alone has consumed
\* the slot: whatever SlotConsumer's throttled flush, cancelled consumers that
\* run on, crashes and lost leases do.
THEOREM AlertsSafe == Spec => []AlertsSurviveRestart
<1>1. AlertsInv => AlertsSurviveRestart
  BY DEF AlertsInv, ServedInv, ServedUpTo, AlertsSurviveRestart
<1>. QED
  BY AlertsInit, AlertsStep, <1>1, PTL DEF Spec

-----------------------------------------------------------------------------
(* The consumer in the map                                                 *)

Labels == {"idle", "add", "start", "remove", "stop", "get", "del", "srem", "down"}
Ending == {"down", "get", "del", "srem"}

\* Where everything is; AlertsInv has the rest of it.
PlacesInv ==
    /\ lease \in Gateways \cup {Nobody}
    /\ index \subseteq Gateways /\ opened \subseteq Gateways
    /\ handled \subseteq 1..Len(part) /\ skipped \subseteq 1..Len(part)
    /\ mpc \in [Gateways -> Labels]
    /\ \A g \in Gateways, k \in Consumers : con[g][k].pos <= Len(part)

\* The consumer that the map names runs and is not cancelled, up to the end of
\* the instance.
StartedInv ==
    \A g \in Gateways : current[g] # 0 /\ mpc[g] \notin Ending =>
        con[g][current[g]].st # "off" /\ ~con[g][current[g]].cancelled

TypesInv == PlacesInv /\ StartedInv

LEMMA PlaceTypes ==
  ASSUME AlertsInv, TypesInv
  PROVE  /\ mpc \in [Gateways -> Labels] /\ current \in [Gateways -> {0} \cup Consumers]
         /\ con \in [Gateways -> [Consumers -> Position]]
         /\ Len(part) \in Nat /\ DOMAIN part = 1..Len(part)
BY PartType DEF AlertsInv, Types, TypesInv, PlacesInv

\* A step of the manager of g, or of its process.
LEMMA ManagerPlaces ==
  ASSUME AlertsInv, TypesInv, NEW g \in Gateways, UNCHANGED stream,
         lease' \in Gateways \cup {Nobody}, index' \subseteq Gateways,
         mpc' \in [Gateways -> Labels],
         \A h \in Gateways \ {g} : mpc'[h] = mpc[h] /\ current'[h] = current[h] /\ con'[h] = con[h],
         \A k \in Consumers : con'[g][k].pos \in {0, con[g][k].pos},
         \/ current'[g] = 0 \/ mpc'[g] \in Ending
         \/ con'[g] = con[g] /\ current'[g] = current[g] /\ mpc[g] \notin Ending
         \/ con'[g][current'[g]].st # "off" /\ ~con'[g][current'[g]].cancelled
  PROVE  TypesInv'
<1>1. PlacesInv'
  <2>1. \A h \in Gateways, k \in Consumers : con'[h][k].pos <= Len(part)
    BY PlaceTypes DEF TypesInv, PlacesInv
  <2>. QED
    BY <2>1 DEF TypesInv, PlacesInv, stream
<1>2. StartedInv'
  BY DEF TypesInv, StartedInv
<1>. QED
  BY <1>1, <1>2 DEF TypesInv

LEMMA ManageKeeps ==
  ASSUME AlertsInv, TypesInv, NEW g \in Gateways,
         Manage(g) \/ Shutdown(g) \/ Crash(g) \/ Restart(g)
  PROVE  TypesInv'
<1>1. /\ mpc \in [Gateways -> Labels] /\ current \in [Gateways -> {0} \cup Consumers]
      /\ con \in [Gateways -> [Consumers -> Position]]
      /\ lease \in Gateways \cup {Nobody} /\ index \subseteq Gateways
  BY PlaceTypes DEF TypesInv, PlacesInv
<1>2. CASE Tick(g) \/ AddIndex(g) \/ RemoveIndex(g) \/ ReadLease(g) \/ DeleteLease(g)
  <2>1. UNCHANGED <<stream, con, current>>
    BY <1>2 DEF Tick, AddIndex, RemoveIndex, ReadLease, DeleteLease
  <2>2. /\ lease' \in Gateways \cup {Nobody} /\ index' \subseteq Gateways
        /\ \E l \in Labels : mpc' = [mpc EXCEPT ![g] = l] /\ (mpc[g] \in Ending => l \in Ending)
    <3>1. CASE Tick(g)
      <4>1. mpc[g] = "idle" /\ (mpc' = mpc \/ \E l \in Labels : mpc' = [mpc EXCEPT ![g] = l])
        BY <3>1 DEF Tick, Acquire, Renew, Lose, Goto, Labels
      <4>2. mpc' = mpc => mpc' = [mpc EXCEPT ![g] = "idle"]
        BY <1>1, <4>1
      <4>3. lease' \in Gateways \cup {Nobody} /\ index' \subseteq Gateways
        BY <1>1, <3>1 DEF Tick, Acquire, Renew, Lose
      <4>. QED
        BY <4>1, <4>2, <4>3 DEF Ending, Labels
    <3>2. CASE AddIndex(g) \/ RemoveIndex(g)
      BY <1>1, <3>2 DEF AddIndex, RemoveIndex, Goto, Ending, Labels
    <3>3. CASE ReadLease(g) \/ DeleteLease(g)
      BY <1>1, <3>3 DEF ReadLease, DeleteLease, Goto, Ending, Labels, redis
    <3>. QED
      BY <1>2, <3>1, <3>2, <3>3
  <2>3. /\ mpc' \in [Gateways -> Labels] /\ \A h \in Gateways \ {g} : mpc'[h] = mpc[h]
        /\ (mpc[g] \in Ending => mpc'[g] \in Ending)
    BY <1>1, <2>2
  <2>. QED
    BY <2>1, <2>2, <2>3, ManagerPlaces
<1>3. CASE Unregister(g)
  <2>1. /\ UNCHANGED <<stream, con, lease>> /\ current' = [current EXCEPT ![g] = 0]
        /\ mpc' = [mpc EXCEPT ![g] = "down"] /\ index' \subseteq Gateways
    BY <1>1, <1>3 DEF Unregister, Goto
  <2>2. /\ mpc' \in [Gateways -> Labels] /\ current'[g] = 0
        /\ \A h \in Gateways \ {g} : mpc'[h] = mpc[h] /\ current'[h] = current[h]
    BY <1>1, <2>1 DEF Labels
  <2>. QED
    BY <1>1, <2>1, <2>2, ManagerPlaces
<1>4. CASE StartConsumer(g)
  <2>1. /\ UNCHANGED <<stream, lease, index>> /\ mpc[g] = "start"
        /\ mpc' = [mpc EXCEPT ![g] = "idle"]
    BY <1>4 DEF StartConsumer, Goto, redis
  <2>2. /\ mpc' \in [Gateways -> Labels] /\ mpc[g] \notin Ending
        /\ \A h \in Gateways \ {g} : mpc'[h] = mpc[h]
    BY <1>1, <2>1 DEF Ending, Labels
  <2>3. CASE UNCHANGED <<current, con>>
    BY <1>1, <2>1, <2>2, <2>3, ManagerPlaces
  <2>4. ASSUME NEW k \in Consumers,
               con' = [con EXCEPT ![g][k] = [NoConsumer EXCEPT !.st = "open"]],
               current' = [current EXCEPT ![g] = k]
        PROVE  TypesInv'
    <3>1. /\ current'[g] = k /\ con'[g][k] = [NoConsumer EXCEPT !.st = "open"]
          /\ \A h \in Gateways \ {g} : current'[h] = current[h] /\ con'[h] = con[h]
          /\ \A j \in Consumers \ {k} : con'[g][j] = con[g][j]
      BY <1>1, <2>4
    <3>2. con'[g][k].st = "open" /\ con'[g][k].pos = 0 /\ con'[g][k].cancelled = FALSE
      BY <3>1 DEF NoConsumer
    <3>3. \A j \in Consumers : con'[g][j].pos \in {0, con[g][j].pos}
      BY <3>1, <3>2
    <3>4. con'[g][current'[g]].st # "off" /\ ~con'[g][current'[g]].cancelled
      BY <3>1, <3>2
    <3>. QED
      BY <1>1, <2>1, <2>2, <3>1, <3>3, <3>4, ManagerPlaces
  <2>. QED
    BY <1>4, <2>3, <2>4 DEF StartConsumer
<1>5. CASE StopConsumer(g)
  <2>1. /\ UNCHANGED <<stream, lease, index>> /\ current' = [current EXCEPT ![g] = 0]
        /\ mpc' = [mpc EXCEPT ![g] = "idle"]
        /\ con' = IF current[g] = 0 THEN con ELSE [con EXCEPT ![g][current[g]].cancelled = TRUE]
    BY <1>5 DEF StopConsumer, Goto, redis
  <2>2. /\ mpc' \in [Gateways -> Labels] /\ current'[g] = 0
        /\ \A h \in Gateways \ {g} : mpc'[h] = mpc[h] /\ current'[h] = current[h]
    BY <1>1, <2>1 DEF Labels
  <2>3. \A h \in Gateways \ {g} : con'[h] = con[h]
    BY <1>1, <2>1
  <2>4. \A k \in Consumers : con'[g][k].pos = con[g][k].pos
    <3>1. CASE current[g] = 0
      BY <2>1, <3>1
    <3>2. CASE current[g] # 0
      <4>1. con'[g] = [con[g] EXCEPT ![current[g]] = [@ EXCEPT !.cancelled = TRUE]]
        BY <1>1, <2>1, <3>2
      <4>2. \A c \in Position : [c EXCEPT !.cancelled = TRUE].pos = c.pos
        BY DEF Position
      <4>. QED
        BY <1>1, <4>1, <4>2
    <3>. QED
      BY <3>1, <3>2
  <2>. QED
    BY <1>1, <2>1, <2>2, <2>3, <2>4, ManagerPlaces
<1>6. CASE Shutdown(g)
  <2>1. /\ UNCHANGED <<stream, lease, index, current>>
        /\ \E l \in {"get", "down"} : mpc' = [mpc EXCEPT ![g] = l]
        /\ con' = [con EXCEPT ![g] = [k \in Consumers |->
                     IF con[g][k].st = "off" THEN con[g][k]
                     ELSE [con[g][k] EXCEPT !.cancelled = TRUE]]]
    BY <1>1, <1>6 DEF Shutdown, Goto, redis
  <2>2. /\ mpc' \in [Gateways -> Labels] /\ mpc'[g] \in Ending
        /\ \A h \in Gateways \ {g} : mpc'[h] = mpc[h]
    BY <1>1, <2>1 DEF Ending, Labels
  <2>3. \A h \in Gateways \ {g} : con'[h] = con[h]
    BY <1>1, <2>1
  <2>4. \A k \in Consumers : con'[g][k].pos = con[g][k].pos
    <3>1. \A c \in Position : [c EXCEPT !.cancelled = TRUE].pos = c.pos
      BY DEF Position
    <3>. QED
      BY <1>1, <2>1, <3>1
  <2>. QED
    BY <1>1, <2>1, <2>2, <2>3, <2>4, ManagerPlaces
<1>7. CASE Crash(g) \/ Restart(g)
  <2>1. /\ UNCHANGED <<stream, lease, index>> /\ Gone(g)
        /\ \E l \in {"down", "idle"} : mpc' = [mpc EXCEPT ![g] = l]
    BY <1>7 DEF Crash, Restart, Goto, redis
  <2>2. /\ mpc' \in [Gateways -> Labels] /\ \A h \in Gateways \ {g} : mpc'[h] = mpc[h]
    BY <1>1, <2>1 DEF Labels
  <2>3. /\ current'[g] = 0 /\ \A k \in Consumers : con'[g][k] = NoConsumer
        /\ \A h \in Gateways \ {g} : current'[h] = current[h] /\ con'[h] = con[h]
    BY <1>1, <2>1 DEF Gone
  <2>. QED
    BY <1>1, <2>1, <2>2, <2>3, ManagerPlaces DEF NoConsumer
<1>. QED
  BY <1>2, <1>3, <1>4, <1>5, <1>6, <1>7 DEF Manage

\* A step of consumer k of g, which becomes c: it goes on, or was cancelled.
LEMMA ConsumerPlaces ==
  ASSUME AlertsInv, TypesInv, NEW g \in Gateways, NEW k \in Consumers, NEW c \in Position,
         con' = [con EXCEPT ![g][k] = c], UNCHANGED <<lease, index, manager, part>>,
         handled' \subseteq 1..Len(part), skipped' \subseteq 1..Len(part),
         opened' \subseteq opened \cup {g}, c.pos <= Len(part),
         con[g][k].cancelled = TRUE \/ (c.st # "off" /\ c.cancelled = con[g][k].cancelled)
  PROVE  TypesInv'
<1>1. \A h \in Gateways, j \in Consumers :
         con'[h][j] = IF h = g /\ j = k THEN c ELSE con[h][j]
  BY SetConsumer DEF AlertsInv
<1>2. PlacesInv'
  BY <1>1 DEF TypesInv, PlacesInv, manager
<1>3. StartedInv'
  <2> SUFFICES ASSUME NEW h \in Gateways, current[h] # 0, mpc[h] \notin Ending
               PROVE  con'[h][current[h]].st # "off" /\ ~con'[h][current[h]].cancelled
    BY DEF StartedInv, manager
  <2>1. con[h][current[h]].st # "off" /\ ~con[h][current[h]].cancelled /\ current[h] \in Consumers
    BY PlaceTypes DEF TypesInv, StartedInv
  <2>. QED
    BY <1>1, <2>1
<1>. QED
  BY <1>2, <1>3 DEF TypesInv

LEMMA ConsumeKeeps ==
  ASSUME AlertsInv, TypesInv, NEW g \in Gateways, NEW k \in Consumers, Consume(g, k)
  PROVE  TypesInv'
<1>b. PICK b : b = con[g][k]
  OBVIOUS
<1>1. /\ b \in Position /\ con \in [Gateways -> [Consumers -> Position]]
      /\ Len(part) \in Nat /\ DOMAIN part = 1..Len(part)
      /\ handled \subseteq 1..Len(part) /\ skipped \subseteq 1..Len(part)
      /\ b.pos \in Nat /\ b.pos <= Len(part) /\ b.pending \in Int
      /\ offset \in Int /\ offset >= -1 /\ offset <= Len(part)
  <2>1. b \in Position
    BY <1>b, PlaceTypes
  <2>. QED
    BY <1>b, <2>1, PlaceTypes DEF AlertsInv, Types, ServedInv, TypesInv, PlacesInv, Position
<1>2. CASE Open(g, k)
  <2>1. PICK from \in {offset, -1} :
           /\ con' = [con EXCEPT ![g][k].st = "fetch", ![g][k].pos = StartAt(from)]
           /\ skipped' = IF from = -1 THEN skipped \cup DOMAIN part ELSE skipped
    BY <1>2 DEF Open
  <2>2. /\ opened' = opened \cup {g} /\ UNCHANGED <<lease, index, manager, part, handled>>
    BY <1>2 DEF Open, redis
  <2>3. StartAt(from) \in Nat /\ StartAt(from) <= Len(part)
    BY <1>1 DEF StartAt
  <2>c. PICK c : c = [b EXCEPT !.st = "fetch", !.pos = StartAt(from)]
    OBVIOUS
  <2>4. /\ c \in Position /\ c.st = "fetch" /\ c.pos = StartAt(from) /\ c.cancelled = b.cancelled
    BY <1>1, <2>3, <2>c DEF Position
  <2>5. con' = [con EXCEPT ![g][k] = c]
    BY <1>b, <1>1, <2>1, <2>c
  <2>6. /\ skipped' \subseteq 1..Len(part) /\ handled' \subseteq 1..Len(part)
        /\ opened' \subseteq opened \cup {g} /\ c.pos <= Len(part)
        /\ c.st # "off" /\ c.cancelled = con[g][k].cancelled
    BY <1>b, <1>1, <2>1, <2>2, <2>3, <2>4
  <2>. QED
    BY <2>2, <2>4, <2>5, <2>6, ConsumerPlaces
<1>3. CASE Handle(g, k)
  <2>i. PICK i : i = b.pos + 1
    OBVIOUS
  <2>1. /\ i <= Len(part)
        /\ con' = [con EXCEPT ![g][k].st = "commit", ![g][k].pos = i, ![g][k].pending = i]
        /\ handled' \subseteq handled \cup {i}
        /\ UNCHANGED <<lease, index, manager, part, skipped, opened>>
    BY <1>b, <1>3, <2>i DEF Handle, redis
  <2>2. i \in Nat /\ i \in 1..Len(part)
    BY <1>1, <2>i, <2>1
  <2>c. PICK c : c = [b EXCEPT !.st = "commit", !.pos = i, !.pending = i]
    OBVIOUS
  <2>3. c \in Position /\ c.st = "commit" /\ c.pos = i /\ c.cancelled = b.cancelled
    <3>1. c = [st |-> "commit", pos |-> i, pending |-> i, last |-> b.last,
               cancelled |-> b.cancelled]
      BY <1>1, <2>c DEF Position
    <3>2. i \in Int /\ b.last \in Int /\ b.cancelled \in BOOLEAN
      BY <1>1, <2>2 DEF Position
    <3>. QED
      BY <2>2, <3>1, <3>2 DEF Position
  <2>4. con' = [con EXCEPT ![g][k] = c]
    BY <1>b, <1>1, <2>1, <2>c
  <2>5. /\ skipped' \subseteq 1..Len(part) /\ handled' \subseteq 1..Len(part)
        /\ opened' \subseteq opened \cup {g} /\ c.pos <= Len(part)
        /\ c.st # "off" /\ c.cancelled = con[g][k].cancelled
    BY <1>b, <1>1, <2>1, <2>2, <2>3
  <2>. QED
    BY <2>1, <2>3, <2>4, <2>5, ConsumerPlaces
<1>4. CASE Commit(g, k)
  <2>1. UNCHANGED <<lease, index, manager, part, handled, skipped, opened>> /\ b.st = "commit"
    BY <1>b, <1>4 DEF Commit, stream
  <2>2. \E l \in {b.last, b.pending} :
           con' = [con EXCEPT ![g][k] = [b EXCEPT !.st = "fetch", !.last = l]]
    <3>1. [b EXCEPT !.st = "fetch", !.last = b.last] = [b EXCEPT !.st = "fetch"]
      BY <1>1 DEF Position
    <3>2. \/ con' = [con EXCEPT ![g][k].st = "fetch"]
          \/ con' = [con EXCEPT ![g][k] = [@ EXCEPT !.st = "fetch", !.last = b.pending]]
      BY <1>b, <1>4 DEF Commit, Flush
    <3>. QED
      BY <1>b, <1>1, <3>1, <3>2
  <2>3. PICK l \in {b.last, b.pending} :
           con' = [con EXCEPT ![g][k] = [b EXCEPT !.st = "fetch", !.last = l]]
    BY <2>2
  <2>c. PICK c : c = [b EXCEPT !.st = "fetch", !.last = l]
    OBVIOUS
  <2>4. c \in Position /\ c.st = "fetch" /\ c.pos = b.pos /\ c.cancelled = b.cancelled
    BY <1>1, <2>c DEF Position
  <2>5. con' = [con EXCEPT ![g][k] = c]
    BY <2>3, <2>c
  <2>. QED
    BY <1>b, <1>1, <2>1, <2>4, <2>5, ConsumerPlaces
<1>5. CASE Exit(g, k)
  <2>1. /\ UNCHANGED <<lease, index, manager, part, handled, skipped, opened>> /\ b.cancelled
        /\ con' = [con EXCEPT ![g][k] = NoConsumer]
    BY <1>b, <1>1, <1>5 DEF Exit, Flush, stream
  <2>2. NoConsumer \in Position /\ NoConsumer.pos = 0
    BY DEF NoConsumer, Position
  <2>3. con[g][k].cancelled = TRUE
    BY <1>b, <1>1, <2>1 DEF Position
  <2>4. handled' \subseteq 1..Len(part) /\ skipped' \subseteq 1..Len(part) /\ 0 <= Len(part)
    BY <1>1, <2>1
  <2>. QED
    BY <2>1, <2>2, <2>3, <2>4, ConsumerPlaces
<1>. QED
  BY <1>2, <1>3, <1>4, <1>5 DEF Consume

\* The lease has a holder or none, offset and positions lie within the
\* partition, and the consumer that the map of a running instance names runs
\* and is not cancelled, however acquisitions, losses, crashes and shutdowns
\* follow one another.
THEOREM SlotsTypes == Spec => []TypeOK
<1>1. Init => AlertsInv /\ TypesInv
  <2>1. Init => TypesInv
    BY DEF Init, TypesInv, PlacesInv, StartedInv, NoConsumer, Labels
  <2>. QED
    BY <2>1, AlertsInit
<1>2. AlertsInv /\ TypesInv /\ [Next]_vars => TypesInv'
  <2> SUFFICES ASSUME AlertsInv, TypesInv, [Next]_vars PROVE TypesInv'
    OBVIOUS
  <2>1. CASE \E g \in Gateways : Manage(g) \/ Shutdown(g) \/ Crash(g) \/ Restart(g)
    BY <2>1, ManageKeeps
  <2>2. CASE \E g \in Gateways, k \in Consumers : Consume(g, k)
    BY <2>2, ConsumeKeeps
  <2>3. CASE \E to \in Gateways \cup {Nobody} : Send(to)
    <3>1. PICK to \in Gateways \cup {Nobody} : Send(to)
      BY <2>3
    <3>2. /\ part' = Append(part, to) /\ part \in Seq(Gateways \cup {Nobody})
          /\ UNCHANGED <<lease, index, mpc, current, con, handled, skipped, opened>>
      BY <3>1 DEF Send, redis, manager, AlertsInv, Types
    <3>3. Len(part) \in Nat /\ Len(part') = Len(part) + 1
      BY <3>2
    <3>4. PlacesInv'
      <4>1. 1..Len(part) \subseteq 1..Len(part')
        BY <3>3
      <4>2. ASSUME NEW g \in Gateways, NEW k \in Consumers PROVE con[g][k].pos <= Len(part')
        <5>1. con[g][k].pos \in Nat /\ con[g][k].pos <= Len(part)
          BY DEF AlertsInv, Types, Position, TypesInv, PlacesInv
        <5>. QED
          BY <3>3, <5>1
      <4>. QED
        BY <3>2, <4>1, <4>2 DEF TypesInv, PlacesInv
    <3>. QED
      BY <3>2, <3>4 DEF TypesInv, StartedInv
  <2>4. CASE Expire \/ UNCHANGED vars
    BY <2>4 DEF Expire, vars, redis, manager, stream, TypesInv, PlacesInv, StartedInv
  <2>. QED
    BY <2>1, <2>2, <2>3, <2>4 DEF Next
<1>3. AlertsInv /\ TypesInv => TypeOK
  <2> SUFFICES ASSUME AlertsInv, TypesInv PROVE TypeOK
    OBVIOUS
  <2>1. /\ DOMAIN part = 1..Len(part) /\ Len(part) \in Nat
        /\ offset \in Int /\ offset >= -1 /\ offset <= Len(part)
    BY PlaceTypes DEF AlertsInv, Types, ServedInv
  <2>2. \A g \in Gateways, k \in Consumers : con[g][k].pos \in 0..Len(part)
    BY <2>1, PlaceTypes DEF TypesInv, PlacesInv, Position
  <2>3. \A g \in Gateways : current[g] \in {0} \cup Consumers
    BY PlaceTypes
  <2>. QED
    BY <2>1, <2>2, <2>3 DEF TypesInv, PlacesInv, StartedInv, Ending, TypeOK
<1>. QED
  BY <1>1, <1>2, <1>3, AlertsStep, PTL DEF Spec
=============================================================================
