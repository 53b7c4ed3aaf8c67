---------------------------- MODULE QuoteSource ----------------------------
(***************************************************************************)
(* Where ticks come from (hq-gateway): a source of its own, which is the   *)
(* poller of eastmoney's snapshots or the simulator, and the HTTP handler  *)
(* POST /ingest/ticks.  All hand ticks to IngestService.Ingest, which      *)
(* writes them to tick_raw one by one and stops at the first failure.      *)
(*                                                                         *)
(* The poller asks for its symbols batch by batch, each request at one of  *)
(* two mirrors, starting with the one that answered last (active).  How    *)
(* long it waits (interval, minGap, backoff) is left out.                  *)
(***************************************************************************)
EXTENDS Integers, FiniteSets, Sequences

CONSTANTS
    NumSymbols, MaxBatch,   \* the poller's symbols are 1..NumSymbols
    Silent,                 \* symbols without a price (halted)
    Delay,                  \* Delay[m]: versions mirror m is behind the market
    Pushed,                 \* symbols clients push
    MaxBody,                \* bound: ticks in the body of a request
    MaxMarket, MaxRequests, MaxFaults   \* bounds

ASSUME SourceAssumption ==
    /\ NumSymbols \in Nat \ {0} /\ MaxBatch \in Nat \ {0}
    /\ Silent \cup Pushed \subseteq 1..NumSymbols
    /\ {MaxBody, MaxMarket, MaxRequests, MaxFaults} \subseteq Nat
    /\ IsFiniteSet(DOMAIN Delay) /\ DOMAIN Delay # {}
    /\ DOMAIN Delay = 0..(Cardinality(DOMAIN Delay) - 1)
    /\ \A m \in DOMAIN Delay : Delay[m] \in Nat

Polled == 1..NumSymbols
Hosts == DOMAIN Delay
NumHosts == Cardinality(Hosts)

VARIABLES
    market,         \* version of the market's prices
    mirror,         \* mirror[m]: what a request gets: "ok", "error", "hang"
    stopping,       \* ctx is cancelled
    kind,           \* cfg.Source
    pc,             \* "wait", "request", "publish"; "restart" (main), "ended"
    start,          \* pollOnce: the symbols before this one are done
    tries, active,  \* doMirror's loop, Client.active
    batch,          \* ticks handed to Ingest and not yet written
    tickRaw,        \* tickRaw[s]: last tick: its version, and whom it is from
    req, body,      \* the request in hand: [at, valid, sent]; its ticks to come
    faults, requests   \* what is left of the bounds

poller == <<start, tries, active, batch>>
http   == <<req, body, requests>>
sourceVars   == <<market, mirror, stopping, kind, pc, poller, tickRaw, http, faults>>

NoRequest == [at |-> "none", valid |-> 0, sent |-> 0]

SourceInit ==
    /\ market = 1 /\ mirror = [m \in Hosts |-> "ok"] /\ stopping = FALSE
    /\ kind \in {"eastmoney", "sim"} /\ pc = "wait"
    /\ start = 0 /\ tries = 0 /\ active = 0 /\ batch = <<>>
    /\ tickRaw = [s \in Polled |-> [version |-> 0, from |-> 0]]
    /\ req = NoRequest /\ body = <<>> /\ requests = MaxRequests
    /\ faults = MaxFaults

Fault == faults > 0 /\ faults' = faults - 1
WrittenBy(s, v, who) == tickRaw' = [tickRaw EXCEPT ![s] = [version |-> v, from |-> who]]
Simulator == -1     \* senders that are no mirror
Client == -2
-----------------------------------------------------------------------------
(* Poller.Run and pollOnce                                                 *)

Batch(from) == {s \in Polled : from < s /\ s <= from + MaxBatch}

\* The timer: a poll begins with the first batch.
Poll ==
    /\ kind = "eastmoney" /\ pc = "wait" /\ ~stopping /\ pc' = "request"
    /\ start' = 0 /\ tries' = 0
    /\ UNCHANGED <<market, mirror, stopping, kind, active, batch, tickRaw, http, faults>>

Host == (active + tries) % NumHosts

\* The order of the ticks is that of the answer.
Orders(S) == {q \in [1..Cardinality(S) -> S] : \A i, j \in DOMAIN q : q[i] = q[j] => i = j}

Older(m) == IF market > Delay[m] THEN market - Delay[m] ELSE 1

ActiveStays == active      \* (mutant) active is never set
ActiveNow == Host

\* A snapshot: the mirror becomes the active one.
Snapshot ==
    /\ pc = "request" /\ ~stopping /\ mirror[Host] = "ok"
    /\ active' = ActiveNow
    /\ \E q \in Orders(Batch(start) \ Silent) :
          batch' = [i \in DOMAIN q |-> [symbol |-> q[i], version |-> Older(Host)]]
    /\ pc' = "publish"
    /\ UNCHANGED <<market, mirror, stopping, kind, start, tries, tickRaw, http, faults>>

GivesUp == pc' = "wait" /\ UNCHANGED tries     \* (mutant) one mirror only
NextMirror == IF tries + 1 < NumHosts THEN pc' = pc /\ tries' = tries + 1
                                     ELSE pc' = "wait" /\ UNCHANGED tries

\* An error: the next mirror, or the poll has failed.
Refused ==
    /\ pc = "request" /\ ~stopping /\ mirror[Host] = "error" /\ NextMirror
    /\ UNCHANGED <<market, mirror, stopping, kind, start, active, batch, tickRaw, http, faults>>

\* No answer in time.  The error of the client's own timeout is a
\* context.DeadlineExceeded, so no other mirror is tried.
TimesOut ==
    /\ pc = "request" /\ mirror[Host] = "hang" /\ pc' = "wait"
    /\ UNCHANGED <<market, mirror, stopping, kind, poller, tickRaw, http, faults>>

\* Ingest's next tick.  A failure ends the poll, or Run of the simulator,
\* which takes the rest of the batch with it.
PublishTick ==
    /\ pc = "publish" /\ batch # <<>>
    /\ \/ /\ ~stopping
          /\ WrittenBy(Head(batch).symbol, Head(batch).version,
                     IF kind = "sim" THEN Simulator ELSE active)
          /\ batch' = Tail(batch) /\ UNCHANGED <<pc, faults>>
       \/ /\ IF stopping THEN UNCHANGED faults ELSE Fault
          /\ batch' = <<>> /\ UNCHANGED tickRaw
          /\ pc' = IF kind = "sim" THEN "restart" ELSE "wait"
    /\ UNCHANGED <<market, mirror, stopping, kind, start, tries, active, http>>

\* The batch is written: on to the next one.
Published ==
    /\ pc = "publish" /\ batch = <<>>
    /\ IF kind = "eastmoney" /\ start + MaxBatch < NumSymbols
       THEN pc' = "request" /\ start' = start + MaxBatch /\ tries' = 0
       ELSE pc' = "wait" /\ UNCHANGED <<start, tries>>
    /\ UNCHANGED <<market, mirror, stopping, kind, active, batch, tickRaw, http, faults>>

\* Run returns nil; for the simulator its batch is empty then.
Stop ==
    /\ stopping /\ pc \in {"wait", "request"} /\ pc' = "ended"
    /\ UNCHANGED <<market, mirror, stopping, kind, poller, tickRaw, http, faults>>
-----------------------------------------------------------------------------
(* sim.Ticker and the restart of a source in main                          *)

\* A step of the ticker: any symbols, at today's price.
Emit ==
    /\ kind = "sim" /\ pc = "wait" /\ ~stopping /\ pc' = "publish"
    /\ \E q \in [1..MaxBatch -> Polled] :
          batch' = [i \in DOMAIN q |-> [symbol |-> q[i], version |-> market]]
    /\ UNCHANGED <<market, mirror, stopping, kind, start, tries, active, tickRaw, http, faults>>

GiveUpSource == "ended"      \* (mutant) the goroutine ends with its source
AfterError == IF stopping THEN "ended" ELSE "wait"

\* After the delay, Run again, unless ctx is cancelled.
RestartSource ==
    /\ pc = "restart" /\ pc' = AfterError
    /\ UNCHANGED <<market, mirror, stopping, kind, poller, tickRaw, http, faults>>
-----------------------------------------------------------------------------
(* POST /ingest/ticks                                                      *)

\* A body of one to MaxBody ticks; one without a symbol or a price is bad (0).
Accept ==
    /\ req.at \in {"none", "200", "503"} /\ requests > 0 /\ requests' = requests - 1
    /\ \E n \in 1..MaxBody : \E b \in [1..n -> Pushed \cup {0}] :
          /\ body' = b
          /\ req' = [at |-> "ingest", sent |-> 0,
                     valid |-> Cardinality({i \in 1..n : b[i] # 0})]
    /\ UNCHANGED <<market, mirror, stopping, kind, pc, poller, tickRaw, faults>>

GoOn == req' = req /\ body' = Tail(body)      \* (mutant) a failure is passed over
FailAll == req' = [req EXCEPT !.at = "503"] /\ body' = <<>>

\* Ingest: a bad tick is counted, a failing write ends it with 503.
Ingest ==
    /\ req.at = "ingest" /\ body # <<>>
    /\ \/ Head(body) = 0 /\ body' = Tail(body) /\ UNCHANGED <<req, tickRaw, faults>>
       \/ /\ Head(body) # 0 /\ WrittenBy(Head(body), market, Client)
          /\ req' = [req EXCEPT !.sent = @ + 1] /\ body' = Tail(body) /\ UNCHANGED faults
       \/ Head(body) # 0 /\ Fault /\ FailAll /\ UNCHANGED tickRaw
    /\ UNCHANGED <<market, mirror, stopping, kind, pc, poller, requests>>

Answer ==
    /\ req.at = "ingest" /\ body = <<>> /\ req' = [req EXCEPT !.at = "200"]
    /\ UNCHANGED <<market, mirror, stopping, kind, pc, poller, tickRaw, body, requests, faults>>
-----------------------------------------------------------------------------
Trade == /\ market < MaxMarket /\ market' = market + 1
         /\ UNCHANGED <<mirror, stopping, kind, pc, poller, tickRaw, http, faults>>

\* A mirror fails, swallows requests (maintenance at night), or is well again.
Weather(m, w) ==
    /\ mirror[m] # w /\ Fault /\ mirror' = [mirror EXCEPT ![m] = w]
    /\ UNCHANGED <<market, stopping, kind, pc, poller, tickRaw, http>>

Shutdown == /\ ~stopping /\ stopping' = TRUE
            /\ UNCHANGED <<market, mirror, kind, pc, poller, tickRaw, http, faults>>

Source == Poll \/ Snapshot \/ Refused \/ TimesOut \/ PublishTick \/ Published \/ Stop \/ Emit \/ RestartSource

SourceNext == \/ Source \/ Accept \/ Ingest \/ Answer \/ Trade \/ Shutdown
        \/ \E m \in Hosts, w \in {"ok", "error", "hang"} : Weather(m, w)

SourceSpec == SourceInit /\ [][SourceNext]_sourceVars

\* The source's goroutine and the handler's go on.
FairSourceSpec == SourceSpec /\ WF_sourceVars(Source) /\ WF_sourceVars(Ingest \/ Answer)
-----------------------------------------------------------------------------
\* 200 means that every tick that was not rejected is in tick_raw; after 503
\* some of them may be.
AcceptedIsWritten == req.at = "200" => req.sent = req.valid

\* The ticks of a symbol from one sender never go back in time: only another
\* mirror, or another sender, is behind the last one.
BackOnlyBySender ==
    [][\A s \in Polled : tickRaw'[s].version < tickRaw[s].version =>
                              tickRaw'[s].from # tickRaw[s].from]_sourceVars

MirrorsAnswer == /\ \E m \in Hosts : mirror[m] = "ok"
                 /\ \A m \in Hosts : mirror[m] # "hang"

UpToDate(s) == \E m \in Hosts : tickRaw[s].version >= Older(m)

\* If from some time on a mirror answers and none swallows requests, the
\* poller brings every symbol that has a price up to date with a mirror,
\* whatever requests and writes have failed.
MarketIsFollowed ==
    kind = "eastmoney" /\ <>[]MirrorsAnswer =>
        <>[](stopping \/ \A s \in Polled \ Silent : UpToDate(s))

\* A source goes on until the process stops, through every failure.
SourceGoesOn ==
    []<>(stopping \/ pc = IF kind = "sim" THEN "publish" ELSE "request")
=============================================================================
