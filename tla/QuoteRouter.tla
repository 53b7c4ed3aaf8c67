---------------------------- MODULE QuoteRouter ----------------------------
(***************************************************************************)
(* The router of quote-push (application.Router): the Redis sets           *)
(* symgw:{symbol} and gwidslots:{gateway}, which other services change,    *)
(* read through a cache whose entries live for a second.  Time is a        *)
(* counter in units of a fraction of that second.                          *)
(***************************************************************************)
EXTENDS Integers, FiniteSets, FiniteSetsExt

CONSTANTS
    Symbols, Gateways,
    Slots,          \* slots a gateway may lease
    TTL,            \* lifetime of a cache entry
    MaxNow          \* bound of the clock

ASSUME RouterAssumption ==
    /\ Symbols \cap Gateways = {}
    /\ Slots \subseteq Nat /\ Slots # {}
    /\ TTL \in Nat /\ MaxNow \in Nat

Keys == Symbols \cup Gateways       \* symgw:{s} and gwidslots:{g}

VARIABLES
    now,
    index,          \* index[key]: the set Redis holds
    cache,          \* cache[key]: [vals, expires], or Miss
    moved           \* moved[key]: when index[key] last changed

routing == <<now, index, cache, moved>>

Miss == [vals |-> {}, expires |-> -1]

RouterInit ==
    /\ now = 0
    /\ index = [k \in Keys |-> IF k \in Symbols THEN Gateways ELSE {Min(Slots)}]
    /\ cache = [k \in Keys |-> Miss]
    /\ moved = [k \in Keys |-> -TTL - 1]

CachedForever(k) == cache[k] # Miss      \* (mutant) expires is not looked at

\* routeCache.get
Cached(k) == now <= cache[k].expires

Read(k) == IF Cached(k) THEN cache[k].vals ELSE index[k]

\* What Resolve reads for the symbols S, and what it leaves in the cache.
ReadFor(S) == S \cup UNION {Read(s) : s \in S}

Fill(K) == cache' = [k \in Keys |->
                        IF k \in K /\ ~Cached(k)
                        THEN [vals |-> index[k], expires |-> now + TTL]
                        ELSE cache[k]]

\* An instance without a slot is passed over, one with several has its least.
Targets(s) == {<<g, Min(Read(g))>> : g \in {g \in Read(s) : Read(g) # {}}}

Resolved(S) == [s \in S |-> Targets(s)]

\* Redis fails at a key that is not cached; the keys before it are.
ResolveFails(S) ==
    \E done \in SUBSET ReadFor(S) :
        /\ \E k \in ReadFor(S) \ done : ~Cached(k)
        /\ Fill(done)
-----------------------------------------------------------------------------
\* A second passes, a gateway subscribes or takes a slot, or gives one up.
Tick == now < MaxNow /\ now' = now + 1 /\ UNCHANGED <<index, cache, moved>>

Move(k, set) ==
    /\ set # index[k]
    /\ index' = [index EXCEPT ![k] = set]
    /\ moved' = [moved EXCEPT ![k] = now]
    /\ UNCHANGED <<now, cache>>

ForgetRoutes == cache' = [k \in Keys |-> Miss] /\ UNCHANGED <<now, index, moved>>
=============================================================================
