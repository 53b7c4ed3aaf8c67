------------------------- MODULE GatewayConnsProofs -------------------------
(***************************************************************************)
(* Theorems about GatewayConns, for any connections, symbols and limits.   *)
(***************************************************************************)
EXTENDS GatewayConns, FiniteSetTheorems, TLAPS

USE ConnsAssumption

-----------------------------------------------------------------------------
\* TypeOK in two parts: what the variables are, and the limit of Subs.
ReaderOK ==
    /\ rpc \in [Conns -> {"off", "read", "link", "subscribe", "unlink", "unsubscribe",
                          "wait", "unregister", "close", "done"}]
    /\ arg \in [Conns -> SUBSET Symbols]

OthersOK ==
    /\ writing \in [Conns -> BOOLEAN]
    /\ closed \subseteq Conns /\ peer \subseteq Conns /\ quotes \subseteq Conns
    /\ symgw \subseteq Symbols
    /\ frames \in Nat /\ faults \in Nat

HubOK ==
    /\ registered \subseteq Conns
    /\ subs \in [Conns -> SUBSET Symbols]
    /\ symIndex \in [Symbols -> SUBSET Conns]

LimitOK == \A c \in Conns : Cardinality(subs[c]) <= MaxSubs

LEMMA TypeParts == TypeOK <=> ReaderOK /\ OthersOK /\ HubOK /\ LimitOK
BY DEF TypeOK, ReaderOK, OthersOK, HubOK, LimitOK

\* A cancellation leaves the limit respected: fewer symbols, no larger set.
LEMMA FewerSymbols ==
  ASSUME NEW T \in SUBSET Symbols, Cardinality(T) <= MaxSubs, NEW S
  PROVE  Cardinality(T \ S) <= MaxSubs
<1>1. IsFiniteSet(T)
  BY FS_Subset
<1>2. IsFiniteSet(T \ S) /\ Cardinality(T \ S) <= Cardinality(T)
  BY <1>1, FS_Subset
<1>3. Cardinality(T) \in Nat /\ Cardinality(T \ S) \in Nat
  BY <1>1, <1>2, FS_CardinalityType
<1>. QED
  BY <1>2, <1>3

LEMMA InitConns == Init => TypeOK
<1> SUFFICES ASSUME Init PROVE TypeOK
  OBVIOUS
<1>1. ReaderOK /\ OthersOK /\ HubOK
  BY DEF Init, ReaderOK, OthersOK, HubOK
<1>2. LimitOK
  BY FS_EmptySet DEF Init, LimitOK
<1>. QED
  BY <1>1, <1>2, TypeParts

\* The Hub's part and the rest do not depend on the limit.
LEMMA StepLimit == TypeOK /\ [Next]_vars => LimitOK'
<1> SUFFICES ASSUME TypeOK, [Next]_vars PROVE LimitOK'
  OBVIOUS
<1>a. HubOK /\ LimitOK
  BY TypeParts
<1>1. CASE UNCHANGED subs
  BY <1>a, <1>1 DEF LimitOK
<1>2. ASSUME NEW c \in Conns, NEW S \in SUBSET Symbols, Sub(c, S) PROVE LimitOK'
  <2>1. PICK added \in SUBSET (S \ subs[c]) :
            /\ Cardinality(subs[c] \cup added) <= MaxSubs
            /\ subs' = [subs EXCEPT ![c] = @ \cup added]
    BY <1>2 DEF Sub
  <2>2. SUFFICES ASSUME NEW d \in Conns PROVE Cardinality(subs'[d]) <= MaxSubs
    BY DEF LimitOK
  <2>3. subs'[d] = IF d = c THEN subs[c] \cup added ELSE subs[d]
    BY <2>1, <1>a DEF HubOK
  <2>. QED
    BY <2>1, <2>3, <1>a DEF LimitOK
<1>3. ASSUME NEW c \in Conns, NEW S \in SUBSET Symbols, Unsub(c, S) PROVE LimitOK'
  <2>1. SUFFICES ASSUME NEW d \in Conns PROVE Cardinality(subs'[d]) <= MaxSubs
    BY DEF LimitOK
  <2>2. subs'[d] = IF d = c THEN subs[c] \ S ELSE subs[d]
    BY <1>3, <1>a DEF Unsub, HubOK
  <2>3. subs[d] \in SUBSET Symbols /\ Cardinality(subs[d]) <= MaxSubs
    BY <1>a DEF HubOK, LimitOK
  <2>4. Cardinality(subs[d] \ S) <= MaxSubs
    BY <2>3, FewerSymbols
  <2>. QED
    BY <2>2, <2>3, <2>4
<1>. QED
  BY <1>1, <1>2, <1>3 DEF Next, Read, Connect, Leave, RateExceeded, LinkSym, Subscribe,
     UnlinkSym, Unsubscribe, ReadFails, WaitWriter, Unregister, Close, WriteLoop,
     DispatchQuote, ExpireSymgw, hub, vars

LEMMA StepTypes == TypeOK /\ [Next]_vars => (ReaderOK /\ OthersOK /\ HubOK)'
<1> SUFFICES ASSUME TypeOK, [Next]_vars PROVE ReaderOK' /\ OthersOK' /\ HubOK'
  OBVIOUS
<1>a. ReaderOK /\ OthersOK /\ HubOK
  BY TypeParts
<1> USE DEF reader, writer, hub, budget, At, Goto, Fault
<1>1. ASSUME UNCHANGED vars PROVE ReaderOK' /\ OthersOK' /\ HubOK'
  BY <1>a, <1>1 DEF vars, ReaderOK, OthersOK, HubOK
<1>2. ASSUME NEW c \in Conns, Connect(c) \/ Leave(c) \/ RateExceeded(c)
      PROVE  ReaderOK' /\ OthersOK' /\ HubOK'
  <2>1. ReaderOK'
    BY <1>a, <1>2 DEF ReaderOK, Connect, Leave, RateExceeded, Frame
  <2>2. OthersOK'
    <3>1. CASE Connect(c)
      BY <1>a, <3>1 DEF OthersOK, Connect
    <3>2. CASE Leave(c)
      BY <1>a, <3>2 DEF OthersOK, Leave
    <3>3. CASE RateExceeded(c)
      BY <1>a, <3>3 DEF OthersOK, RateExceeded, Frame
    <3>. QED
      BY <1>2, <3>1, <3>2, <3>3
  <2>3. HubOK'
    BY <1>a, <1>2 DEF HubOK, Connect, Leave, RateExceeded
  <2>. QED
    BY <2>1, <2>2, <2>3
<1>3. ASSUME NEW c \in Conns, NEW S \in SUBSET Symbols, Sub(c, S) \/ Unsub(c, S)
      PROVE  ReaderOK' /\ OthersOK' /\ HubOK'
  <2>1. ReaderOK'
    BY <1>a, <1>3 DEF ReaderOK, Sub, Unsub, Frame
  <2>2. OthersOK'
    BY <1>a, <1>3 DEF OthersOK, Sub, Unsub, Frame
  <2>3. HubOK'
    BY <1>a, <1>3 DEF HubOK, Sub, Unsub
  <2>. QED
    BY <2>1, <2>2, <2>3
<1>4. ASSUME NEW c \in Conns, Read(c) PROVE ReaderOK' /\ OthersOK' /\ HubOK'
  <2> USE DEF Read, LinkSym, Subscribe, UnlinkSym, Unsubscribe, ReadFails, WaitWriter,
              Unregister, Close, Unlinked
  <2>1. ReaderOK'
    BY <1>a, <1>4 DEF ReaderOK
  <2>2. OthersOK'
    BY <1>a, <1>4 DEF OthersOK, ReaderOK
  <2>3. HubOK'
    BY <1>a, <1>4 DEF HubOK
  <2>. QED
    BY <2>1, <2>2, <2>3
<1>5. ASSUME NEW c \in Conns, WriteLoop(c) PROVE ReaderOK' /\ OthersOK' /\ HubOK'
  <2>1. ReaderOK' /\ HubOK'
    BY <1>a, <1>5 DEF ReaderOK, HubOK, WriteLoop
  <2>2. OthersOK'
    BY <1>a, <1>5 DEF OthersOK, WriteLoop
  <2>. QED
    BY <2>1, <2>2
<1>6. ASSUME NEW k \in Symbols, DispatchQuote(k) \/ ExpireSymgw(k)
      PROVE  ReaderOK' /\ OthersOK' /\ HubOK'
  BY <1>a, <1>6 DEF ReaderOK, OthersOK, HubOK, DispatchQuote, ExpireSymgw, Touched
<1>. QED
  BY <1>1, <1>2, <1>3, <1>4, <1>5, <1>6 DEF Next

LEMMA StepType == TypeOK /\ [Next]_vars => TypeOK'
BY StepTypes, StepLimit, TypeParts, PTL

\* Types, and the limit of Subs: no connection ever has more than MaxSubs
\* symbols, however the frames and the other connections interleave.
THEOREM ConnsTypeCorrect == Spec => []TypeOK
<1>1. Init => TypeOK
  BY InitConns
<1>2. TypeOK /\ [Next]_vars => TypeOK'
  BY StepType
<1>. QED
  BY <1>1, <1>2, PTL DEF Spec
-----------------------------------------------------------------------------
\* A connection is registered from Connect to Unregister, and subscribes to
\* nothing before.
RegisteredOK ==
    \A c \in Conns : /\ c \in registered <=> rpc[c] \notin {"off", "close", "done"}
                     /\ rpc[c] = "off" => subs[c] = {}

\* Subs is ahead of the Hub: by what it has taken up when a sub frame is in
\* hand, by what it has dropped when an unsub frame is.
FrameOK ==
    \A c \in Conns : /\ rpc[c] = "link"   => arg[c] \subseteq subs[c]
                     /\ rpc[c] = "unlink" => arg[c] \cap subs[c] = {}

IndexInv == RegisteredOK /\ FrameOK /\ IndexIsExact

LEMMA StepIndex == TypeOK /\ IndexInv /\ [Next]_vars => IndexInv'
<1> SUFFICES ASSUME TypeOK, IndexInv, [Next]_vars
             PROVE  RegisteredOK' /\ FrameOK' /\ IndexIsExact'
  BY DEF IndexInv
<1>a. RegisteredOK /\ FrameOK /\ IndexIsExact /\ ReaderOK /\ HubOK
  BY TypeParts DEF IndexInv
<1> USE DEF reader, writer, hub, budget, At, Goto, InHand
<1>1. CASE UNCHANGED <<reader, hub>>
  BY <1>a, <1>1 DEF RegisteredOK, FrameOK, IndexIsExact
<1>2. ASSUME NEW c \in Conns, Connect(c) PROVE RegisteredOK' /\ FrameOK' /\ IndexIsExact'
  BY <1>a, <1>2 DEF RegisteredOK, FrameOK, IndexIsExact, Connect, ReaderOK, HubOK
<1>3. ASSUME NEW c \in Conns, NEW S \in SUBSET Symbols, Sub(c, S)
      PROVE  RegisteredOK' /\ FrameOK' /\ IndexIsExact'
  <2>1. PICK added \in SUBSET (S \ subs[c]) :
            /\ subs' = [subs EXCEPT ![c] = @ \cup added]
            /\ arg' = [arg EXCEPT ![c] = added]
            /\ rpc' = [rpc EXCEPT ![c] = IF added = {} THEN "read" ELSE "link"]
    BY <1>3 DEF Sub
  <2>2. rpc[c] = "read" /\ UNCHANGED <<registered, symIndex>>
    BY <1>3 DEF Sub, Frame
  <2>. QED
    BY <1>a, <2>1, <2>2 DEF RegisteredOK, FrameOK, IndexIsExact, ReaderOK, HubOK
<1>4. ASSUME NEW c \in Conns, NEW S \in SUBSET Symbols, Unsub(c, S)
      PROVE  RegisteredOK' /\ FrameOK' /\ IndexIsExact'
  BY <1>a, <1>4 DEF RegisteredOK, FrameOK, IndexIsExact, Unsub, Frame, ReaderOK, HubOK
<1>5. ASSUME NEW c \in Conns, LinkSym(c) PROVE RegisteredOK' /\ FrameOK' /\ IndexIsExact'
  BY <1>a, <1>5 DEF RegisteredOK, FrameOK, IndexIsExact, LinkSym, ReaderOK, HubOK
<1>6. ASSUME NEW c \in Conns, UnlinkSym(c) PROVE RegisteredOK' /\ FrameOK' /\ IndexIsExact'
  BY <1>a, <1>6 DEF RegisteredOK, FrameOK, IndexIsExact, UnlinkSym, Unlinked, ReaderOK, HubOK
<1>7. ASSUME NEW c \in Conns, Unregister(c) PROVE RegisteredOK' /\ FrameOK' /\ IndexIsExact'
  BY <1>a, <1>7 DEF RegisteredOK, FrameOK, IndexIsExact, Unregister, Unlinked, ReaderOK, HubOK
<1>8. ASSUME NEW c \in Conns,
             \/ Subscribe(c) \/ Unsubscribe(c) \/ ReadFails(c) \/ WaitWriter(c)
             \/ Close(c) \/ RateExceeded(c)
      PROVE  RegisteredOK' /\ FrameOK' /\ IndexIsExact'
  <2>1. PICK l \in {"read", "wait", "unregister", "done"} :
            /\ rpc' = [rpc EXCEPT ![c] = l]
            /\ l = "done" <=> rpc[c] = "close"
    BY <1>8 DEF Subscribe, Unsubscribe, ReadFails, WaitWriter, Close, RateExceeded, Frame
  <2>2. rpc[c] \notin {"off", "link", "unlink", "done"} /\ UNCHANGED <<arg, hub>>
    BY <1>8 DEF Subscribe, Unsubscribe, ReadFails, WaitWriter, Close, RateExceeded, Frame
  <2>. QED
    BY <1>a, <2>1, <2>2 DEF RegisteredOK, FrameOK, IndexIsExact, ReaderOK
<1>9. CASE \/ UNCHANGED vars
           \/ \E c \in Conns : Leave(c) \/ WriteLoop(c)
           \/ \E k \in Symbols : DispatchQuote(k) \/ ExpireSymgw(k)
  <2>1. UNCHANGED <<reader, hub>>
    BY <1>9 DEF vars, Leave, WriteLoop, DispatchQuote, ExpireSymgw
  <2>. QED
    BY <1>1, <2>1
<1>. QED
  BY <1>2, <1>3, <1>4, <1>5, <1>6, <1>7, <1>8, <1>9 DEF Next, Read

\* The Hub's reverse index agrees with what the connections subscribe to at
\* all times, but for the symbols of a frame in hand, and keeps nothing of a
\* connection that has ended (hub.go:60-110, ws_server.go:199-233).
THEOREM ReverseIndexExact == Spec => []IndexIsExact
<1>1. Init => IndexInv
  BY DEF Init, IndexInv, RegisteredOK, FrameOK, IndexIsExact, InHand
<1>2. TypeOK /\ IndexInv /\ [Next]_vars => IndexInv'
  BY StepIndex
<1>3. IndexInv => IndexIsExact
  BY DEF IndexInv
<1>. QED
  BY <1>1, <1>2, <1>3, ConnsTypeCorrect, PTL DEF Spec
=============================================================================
