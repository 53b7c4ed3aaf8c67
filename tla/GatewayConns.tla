---------------------------- MODULE GatewayConns ----------------------------
(***************************************************************************)
(* The WebSocket connections of one ws-gateway instance, each with a read  *)
(* and a write goroutine (WSServer.serveConn, writeLoop), the Hub they     *)
(* share, and the instance's place in the Redis index symgw:{symbol},      *)
(* which tells quote-push which instances want a symbol.                   *)
(*                                                                         *)
(* A read loop that ends runs its deferred functions, the last one first:  *)
(*                                                                         *)
(*   read -> wait (<-writeDone) -> unregister -> close -> done             *)
(*                                                                         *)
(* Frames are subscriptions and cancellations; acks, pings and K-line      *)
(* channels have no part in this.                                          *)
(***************************************************************************)
EXTENDS Integers, FiniteSets

CONSTANTS
    Conns,      \* connections, each used once
    Symbols,
    Shared,     \* symbols another instance subscribes to as well
    MaxSubs,    \* cfg.MaxSubs
    MaxFrames,  \* bound: frames the clients send
    MaxFaults   \* bound: failing Redis calls

ASSUME ConnsAssumption ==
    /\ Shared \subseteq Symbols
    /\ IsFiniteSet(Symbols)
    /\ {MaxSubs, MaxFrames, MaxFaults} \subseteq Nat

VARIABLES
    rpc,        \* rpc[c]: where serveConn is
    arg,        \* arg[c]: the symbols of the frame it is handling
    writing,    \* writing[c]: is writeLoop running?
    closed,     \* connections whose c.Done is closed
    peer,       \* clients that are there and read
    registered, \* Hub.conns
    subs,       \* subs[c]: Conn.Subs
    symIndex,   \* Hub.symIndex
    symgw,      \* symbols whose symgw set has this instance
    quotes,     \* connections with quotes to send
    frames, faults   \* what is left of the bounds

reader == <<rpc, arg>>
writer == <<writing, quotes>>
hub    == <<registered, subs, symIndex>>
budget == <<frames, faults>>
vars   == <<reader, writer, closed, peer, hub, symgw, budget>>

Init ==
    /\ rpc = [c \in Conns |-> "off"]
    /\ arg = [c \in Conns |-> {}]
    /\ writing = [c \in Conns |-> FALSE]
    /\ closed = {} /\ peer = {} /\ registered = {} /\ symgw = {} /\ quotes = {}
    /\ subs = [c \in Conns |-> {}]
    /\ symIndex = [k \in Symbols |-> {}]
    /\ frames = MaxFrames /\ faults = MaxFaults

Fault == faults > 0 /\ faults' = faults - 1
At(c, l) == rpc[c] = l
Goto(c, l) == rpc' = [rpc EXCEPT ![c] = l]
-----------------------------------------------------------------------------
(* serveConn                                                               *)

\* Register, and go writeLoop.
Connect(c) ==
    /\ At(c, "off") /\ Goto(c, "read")
    /\ registered' = registered \cup {c}
    /\ peer' = peer \cup {c}
    /\ writing' = [writing EXCEPT ![c] = TRUE]
    /\ UNCHANGED <<arg, quotes, closed, subs, symIndex, symgw, budget>>

Frame(c) == /\ At(c, "read") /\ c \in peer
            /\ frames > 0 /\ frames' = frames - 1

SubAppends(c, S) ==       \* (mutant) the limit is not looked at
    /\ Frame(c)
    /\ subs' = [subs EXCEPT ![c] = @ \cup S]
    /\ arg' = [arg EXCEPT ![c] = S]
    /\ Goto(c, "link")
    /\ UNCHANGED <<writer, closed, peer, registered, symIndex, symgw, faults>>

\* A sub frame: its new symbols, as many as Subs has room for.
Sub(c, S) ==
    /\ Frame(c)
    /\ \E added \in SUBSET (S \ subs[c]) :
          /\ Cardinality(subs[c] \cup added) <= MaxSubs
          /\ added # S \ subs[c] => Cardinality(subs[c] \cup added) = MaxSubs
          /\ subs' = [subs EXCEPT ![c] = @ \cup added]
          /\ arg' = [arg EXCEPT ![c] = added]
          /\ Goto(c, IF added = {} THEN "read" ELSE "link")
    /\ UNCHANGED <<writer, closed, peer, registered, symIndex, symgw, faults>>

LinkSym(c) ==
    /\ At(c, "link") /\ Goto(c, "subscribe")
    /\ symIndex' = [k \in Symbols |-> IF k \in arg[c] THEN symIndex[k] \cup {c}
                                                      ELSE symIndex[k]]
    /\ UNCHANGED <<arg, writer, closed, peer, registered, subs, symgw, budget>>

\* SubIndex.Subscribe, its error dropped.
Subscribe(c) ==
    /\ At(c, "subscribe") /\ Goto(c, "read")
    /\ \/ symgw' = symgw \cup arg[c] /\ UNCHANGED faults
       \/ Fault /\ UNCHANGED symgw
    /\ UNCHANGED <<arg, writer, closed, peer, hub, frames>>

Unsub(c, S) ==
    /\ Frame(c)
    /\ subs' = [subs EXCEPT ![c] = @ \ S]
    /\ arg' = [arg EXCEPT ![c] = S]
    /\ Goto(c, "unlink")
    /\ UNCHANGED <<writer, closed, peer, registered, symIndex, symgw, faults>>

Unlinked(c, S) == [k \in Symbols |-> IF k \in S THEN symIndex[k] \ {c} ELSE symIndex[k]]

UnlinkSym(c) ==
    /\ At(c, "unlink") /\ Goto(c, "unsubscribe")
    /\ symIndex' = Unlinked(c, arg[c])
    /\ UNCHANGED <<arg, writer, closed, peer, registered, subs, symgw, budget>>

\* SubIndex.Unsubscribe: SREM, whatever other connections there are.
Unsubscribe(c) ==
    /\ At(c, "unsubscribe") /\ Goto(c, "read")
    /\ \/ symgw' = symgw \ arg[c] /\ UNCHANGED faults
       \/ Fault /\ UNCHANGED symgw
    /\ UNCHANGED <<arg, writer, closed, peer, hub, frames>>

\* Too many frames in a second: return.
RateExceeded(c) ==
    /\ Frame(c) /\ Goto(c, "wait")
    /\ UNCHANGED <<arg, writer, closed, peer, hub, symgw, faults>>

\* ReadMessage fails: the client has gone, at the latest by the deadline.
ReadFails(c) ==
    /\ At(c, "read") /\ c \notin peer
    /\ Goto(c, "wait")
    /\ UNCHANGED <<arg, writer, closed, peer, hub, symgw, budget>>

WaitWriter(c) ==
    /\ At(c, "wait") /\ ~writing[c]
    /\ Goto(c, "unregister")
    /\ UNCHANGED <<arg, writer, closed, peer, hub, symgw, budget>>

UnregisterConnOnly(c) ==  \* (mutant) the reverse index is left alone
    /\ At(c, "unregister") /\ Goto(c, "close")
    /\ registered' = registered \ {c}
    /\ UNCHANGED <<arg, writer, closed, peer, subs, symIndex, symgw, budget>>

Unregister(c) ==
    /\ At(c, "unregister") /\ Goto(c, "close")
    /\ registered' = registered \ {c}
    /\ symIndex' = Unlinked(c, subs[c])
    /\ UNCHANGED <<arg, writer, closed, peer, subs, symgw, budget>>

\* CloseOnceClose and conn.Close.
Close(c) ==
    /\ At(c, "close") /\ Goto(c, "done")
    /\ closed' = closed \cup {c}
    /\ peer' = peer \ {c}
    /\ UNCHANGED <<arg, writer, hub, symgw, budget>>
-----------------------------------------------------------------------------
(* writeLoop, and what happens around the connections                      *)

WriteIgnoresError(c) ==   \* (mutant) a failed write does not end the loop
    /\ writing[c] /\ c \in quotes \cup closed
    /\ quotes' = quotes \ {c}
    /\ writing' = [writing EXCEPT ![c] = c \notin closed]
    /\ UNCHANGED <<reader, closed, peer, hub, symgw, budget>>

\* A turn of writeLoop: c.Done ends it; else the timer has the merged quotes
\* written, and a failed write ends it too.
WriteLoop(c) ==
    /\ writing[c] /\ c \in quotes \cup closed
    /\ quotes' = quotes \ {c}
    /\ writing' = [writing EXCEPT ![c] = c \in peer \ closed]
    /\ UNCHANGED <<reader, closed, peer, hub, symgw, budget>>

\* The client closes, or vanishes.
Leave(c) ==
    /\ c \in peer /\ peer' = peer \ {c}
    /\ UNCHANGED <<reader, writer, closed, hub, symgw, budget>>

\* A quote of k comes through the slot: DispatchQuote.
DispatchQuote(k) ==
    /\ symIndex[k] \ quotes # {}
    /\ quotes' = quotes \cup symIndex[k]
    /\ UNCHANGED <<reader, writing, closed, peer, hub, symgw, budget>>

TouchedAll(k) == k \in symgw       \* (mutant) the heartbeat asks Redis, not the Hub

\* Hub.Symbols: what the heartbeat prolongs.
Touched(k) == symIndex[k] # {}

\* The TTL of symgw:{k} runs out when no instance prolongs it.
ExpireSymgw(k) ==
    /\ k \in symgw /\ k \notin Shared
    /\ \/ ~Touched(k) /\ UNCHANGED faults
       \/ Touched(k) /\ Fault
    /\ symgw' = symgw \ {k}
    /\ UNCHANGED <<reader, writer, closed, peer, hub, frames>>
-----------------------------------------------------------------------------
Read(c) ==
    \/ LinkSym(c) \/ Subscribe(c) \/ UnlinkSym(c) \/ Unsubscribe(c) \/ ReadFails(c)
    \/ WaitWriter(c) \/ Unregister(c) \/ Close(c)

Next ==
    \/ \E c \in Conns : Connect(c) \/ Leave(c) \/ RateExceeded(c)
    \/ \E c \in Conns, S \in (SUBSET Symbols) \ {{}} : Sub(c, S) \/ Unsub(c, S)
    \/ \E c \in Conns : Read(c) \/ WriteLoop(c)
    \/ \E k \in Symbols : DispatchQuote(k) \/ ExpireSymgw(k)

Spec == Init /\ [][Next]_vars

\* Goroutines run, the market moves, and time passes.  Clients owe nothing.
Fairness ==
    /\ \A c \in Conns : WF_vars(Read(c)) /\ WF_vars(WriteLoop(c))
    /\ \A k \in Symbols : WF_vars(DispatchQuote(k))
    /\ \A k \in Symbols : WF_vars(ExpireSymgw(k) /\ ~Touched(k))

FairSpec == Spec /\ Fairness
-----------------------------------------------------------------------------
TypeOK ==
    /\ rpc \in [Conns -> {"off", "read", "link", "subscribe", "unlink", "unsubscribe",
                          "wait", "unregister", "close", "done"}]
    /\ arg \in [Conns -> SUBSET Symbols]
    /\ writing \in [Conns -> BOOLEAN]
    /\ closed \subseteq Conns /\ peer \subseteq Conns
    /\ registered \subseteq Conns /\ quotes \subseteq Conns
    /\ subs \in [Conns -> SUBSET Symbols]
    /\ \A c \in Conns : Cardinality(subs[c]) <= MaxSubs
    /\ symIndex \in [Symbols -> SUBSET Conns]
    /\ symgw \subseteq Symbols
    /\ frames \in Nat /\ faults \in Nat

\* The symbols the Hub and Subs may differ in: those of the frame in hand.
InHand(c) == IF rpc[c] \in {"link", "unlink"} THEN arg[c] ELSE {}

\* "键与 Subs 精确一致" (hub.go:81): the reverse index has a connection under the
\* very symbols it subscribes to, and none that has been unregistered.
IndexIsExact ==
    \A c \in Conns, k \in Symbols :
        k \notin InHand(c)
            => (c \in symIndex[k] <=> c \in registered /\ k \in subs[c])

\* A connection with a subscription ends when its client has gone: the
\* quotes find out, and all that refers to it is removed.
GoneConnEnds ==
    \A c \in Conns : (c \in registered \ peer /\ subs[c] # {})
                        ~> (rpc[c] = "done" /\ \A k \in Symbols : c \notin symIndex[k])

\* "避免幽灵路由" (ws_server.go:202): a route to this instance ends when no
\* connection needs it any more, unless another instance keeps the key alive.
GhostRoutesEnd ==
    \A k \in Symbols \ Shared : (k \in symgw /\ symIndex[k] = {})
                                   ~> (k \notin symgw \/ symIndex[k] # {})
=============================================================================
