------------------------------ MODULE LogStream ------------------------------
(***************************************************************************)
(* The way of a log line: the two pipe readers of a run (process.Manager), *)
(* its LogStore and its subscription, the forwarder and the exit event     *)
(* (InstanceController), the LogBroker, and the SSE handler that replays   *)
(* history and then follows the broker.                                    *)
(*                                                                         *)
(* A line is its instance, its stream and the moment it was read.  Every   *)
(* queue is bounded and every send gives up on a full one.                 *)
(***************************************************************************)
EXTENDS Naturals, FiniteSets, Sequences, SequencesExt, FiniteSetsExt

CONSTANTS
    Instances,  \* one run each
    Clients,    \* requests for a log stream
    Watched,    \* the instance a client asks for, or All
    All,        \* /api/v1/logs/stream, no filter
    Nothing,    \* no event
    Loads,      \* how many lines a run prints on each pipe, and who watches
    StoreCap,   \* events a LogStore keeps (10000)
    FeedCap,    \* events a Manager subscription buffers (64)
    BufferCap,  \* events a broker subscription buffers (4096)
    PageCap     \* events one query returns at most (500)

\* A line: its run, its stream and the moment it was read.
Events == [inst : Instances, stream : {"stdout", "stderr", "system"}, at : Nat]

ASSUME LogAssumption ==
    /\ IsFiniteSet(Clients)
    /\ Nothing \notin Events
    /\ Loads # {}
    /\ Watched \in [Clients -> Instances \cup {All}]
    /\ All \notin Instances
    /\ Loads \subseteq [lines : [{"stdout", "stderr"} -> Nat], watching : SUBSET Clients]
    /\ {StoreCap, FeedCap, BufferCap, PageCap} \subseteq Nat \ {0}

VARIABLES
    clock,    \* time.Now(), one tick per event
    reader,   \* per run and pipe: lines left, the line in hand and what is done with it
    store,    \* LogStore.events per run, with LogStore.sequence
    feed,     \* the run's subscription to its Manager: open, and its channel
    poster,   \* per run, forwarder and exit event: the Publish it is in
    broker,   \* LogBroker: seq, subscribers and dropped
    client,   \* the SSE handlers
    owed      \* history: what the snapshots of Publish promised each subscriber

logVars == <<clock, reader, store, feed, poster, broker, client, owed>>

Pipes   == {"stdout", "stderr"}
Posters == {"forward", "exit"}

Wants(c, e) == Watched[c] \in {All, e.inst}

-----------------------------------------------------------------------------
\* The newest n of a queue.
Latest(s, n) == IF Len(s) > n THEN SubSeq(s, Len(s) - n + 1, Len(s)) ELSE s

\* LogStore.Add: numbered, appended, the oldest evicted.
Added(s, e) ==
    LET all == Append(s.events, [ev |-> e, num |-> s.added + 1])
    IN  [added |-> s.added + 1, events |-> Latest(all, StoreCap)]

\* QueryAggregatedLogs: newest first, then instance and local sequence; the
\* clock ticks for every event, so the time alone decides.
Newest(entries) == SetToSortSeq(entries, LAMBDA a, b : a.at > b.at)

\* The pagination all queries share: page and size as the request gave them.
Paged(items, page, size) ==
    LET n     == IF size = 0 THEN 50 ELSE IF size > PageCap THEN PageCap ELSE size
        p     == IF page < 1 THEN 1 ELSE page
        first == (p - 1) * n
    IN  SubSeq(items, first + 1, IF first + n < Len(items) THEN first + n ELSE Len(items))

\* Supervisor.QueryLogs: every store, then the instance filter.
Query(instance, page, size) ==
    LET entries == UNION {{x.ev : x \in Range(store[i].events)} : i \in Instances}
    IN  Paged(Newest({e \in entries : instance \in {All, e.inst}}), page, size)

-----------------------------------------------------------------------------
LogStart(load) ==
    /\ clock = 0
    /\ reader = [r \in Instances \X Pipes |->
                    [left |-> load.lines[r[2]], ev |-> Nothing, step |-> "read"]]
    /\ store = [i \in Instances |-> [added |-> 0, events |-> <<>>]]
    /\ feed = [i \in Instances |-> [open |-> TRUE, buf |-> <<>>]]
    /\ poster = [p \in Instances \X Posters |->
                    [step |-> IF p[2] = "forward" THEN "idle" ELSE "running",
                     ev |-> Nothing, todo |-> {}, dropped |-> 0]]
    /\ broker = [seq |-> 0, members |-> {}, dropped |-> 0]
    /\ client = [c \in Clients |-> [step |-> IF c \in load.watching THEN "new" ELSE "over",
                                    closed |-> FALSE, seen |-> <<>>, buf |-> <<>>, got |-> <<>>]]
    /\ owed = [c \in Clients |-> {}]

LogInit == \E load \in Loads : LogStart(load)

\* readPipe has a line, publish puts it in the store.
Read(i, s) ==
    /\ reader[<<i, s>>].step = "read"
    /\ reader[<<i, s>>].left > 0
    /\ LET e == [inst |-> i, stream |-> s, at |-> clock + 1]
       IN  reader' = [reader EXCEPT ![<<i, s>>] = [left |-> @.left - 1, ev |-> e, step |-> "store"]]
    /\ clock' = clock + 1
    /\ UNCHANGED <<store, feed, poster, broker, client, owed>>

Store(i, s) ==
    /\ reader[<<i, s>>].step = "store"
    /\ store' = [store EXCEPT ![i] = Added(@, reader[<<i, s>>].ev)]
    /\ reader' = [reader EXCEPT ![<<i, s>>].step = "send"]
    /\ UNCHANGED <<clock, feed, poster, broker, client, owed>>

Fits(i) == Len(feed[i].buf) < FeedCap

\* The non-blocking send under m.mu; a line that does not fit leaves a gap
\* event in the store, which is itself offered to the subscriber.
Send(i, s) ==
    LET r == reader[<<i, s>>]
        gap == [inst |-> i, stream |-> "system", at |-> clock + 1]
    IN  /\ r.step = "send"
        /\ IF feed[i].open /\ ~Fits(i)
           THEN /\ clock' = clock + 1
                /\ store' = [store EXCEPT ![i] = Added(@, gap)]
                /\ reader' = [reader EXCEPT ![<<i, s>>].ev = gap, ![<<i, s>>].step = "gap"]
                /\ UNCHANGED feed
           ELSE /\ feed' = IF feed[i].open THEN [feed EXCEPT ![i].buf = Append(@, r.ev)] ELSE feed
                /\ reader' = [reader EXCEPT ![<<i, s>>].ev = Nothing, ![<<i, s>>].step = "read"]
                /\ UNCHANGED <<clock, store>>
        /\ UNCHANGED <<poster, broker, client, owed>>

SendGap(i, s) ==
    /\ reader[<<i, s>>].step = "gap"
    /\ feed' = IF Fits(i) THEN [feed EXCEPT ![i].buf = Append(@, reader[<<i, s>>].ev)] ELSE feed
    /\ reader' = [reader EXCEPT ![<<i, s>>].ev = Nothing, ![<<i, s>>].step = "read"]
    /\ UNCHANGED <<clock, store, poster, broker, client, owed>>

\* The process is gone: cmd.Wait closes the pipes with what nobody read yet,
\* InstanceController.wait closes the feed, waiting for a send under m.mu.
Ends(i) ==
    /\ feed[i].open
    /\ \A s \in Pipes : reader[<<i, s>>].step # "gap"
    /\ feed' = [feed EXCEPT ![i].open = FALSE]
    /\ reader' = [r \in DOMAIN reader |-> IF r[1] = i THEN [reader[r] EXCEPT !.left = 0] ELSE reader[r]]
    /\ poster' = [poster EXCEPT ![<<i, "exit">>].step = "idle"]
    /\ UNCHANGED <<clock, store, broker, client, owed>>

-----------------------------------------------------------------------------
\* LogBroker.Publish starts: the event has its number.
Number(p, e) ==
    /\ broker' = [broker EXCEPT !.seq = @ + 1]
    /\ poster' = [poster EXCEPT ![p].step = "numbered", ![p].ev = e]

\* forwardLogs takes the next event of the feed.
Forward(i) ==
    /\ poster[<<i, "forward">>].step = "idle"
    /\ feed[i].buf # <<>>
    /\ Number(<<i, "forward">>, Head(feed[i].buf))
    /\ feed' = [feed EXCEPT ![i].buf = Tail(@)]
    /\ UNCHANGED <<clock, reader, store, client, owed>>

\* wait() announces the end of the run.
Announce(i) ==
    /\ poster[<<i, "exit">>].step = "idle"
    /\ Number(<<i, "exit">>, [inst |-> i, stream |-> "system", at |-> clock + 1])
    /\ clock' = clock + 1
    /\ UNCHANGED <<reader, store, feed, client, owed>>

\* The subscribers of this moment, under the read lock.
Snapshot(p) ==
    /\ poster[p].step = "numbered"
    /\ poster' = [poster EXCEPT ![p].step = "sending", ![p].todo = broker.members]
    /\ owed' = [c \in Clients |-> IF c \in broker.members /\ Wants(c, poster[p].ev)
                                  THEN owed[c] \cup {poster[p].ev} ELSE owed[c]]
    /\ UNCHANGED <<clock, reader, store, feed, broker, client>>

\* MUTANT of Deliver: a full buffer loses its oldest event instead.
DeliverDroppingOldest(p, c) ==
    LET e == poster[p].ev
        sent == ~client[c].closed /\ Wants(c, e)
    IN  /\ poster[p].step = "sending"
        /\ c \in poster[p].todo
        /\ poster' = [poster EXCEPT ![p].todo = @ \ {c}]
        /\ client' = IF sent THEN [client EXCEPT ![c].buf = Latest(Append(@, e), BufferCap)] ELSE client
        /\ owed' = IF client[c].closed THEN [owed EXCEPT ![c] = @ \ {e}] ELSE owed
        /\ UNCHANGED <<clock, reader, store, feed, broker>>

\* One subscriber of the snapshot: closed, filtered out, delivered or dropped.
Deliver(p, c) ==
    LET e == poster[p].ev
        full == Len(client[c].buf) >= BufferCap
        sent == ~client[c].closed /\ Wants(c, e)
    IN  /\ poster[p].step = "sending"
        /\ c \in poster[p].todo
        /\ poster' = [poster EXCEPT ![p].todo = @ \ {c},
                                    ![p].dropped = IF sent /\ full THEN @ + 1 ELSE @]
        /\ client' = IF sent /\ ~full THEN [client EXCEPT ![c].buf = Append(@, e)] ELSE client
        /\ owed' = IF client[c].closed THEN [owed EXCEPT ![c] = @ \ {e}] ELSE owed
        /\ UNCHANGED <<clock, reader, store, feed, broker>>

\* Publish returns: its drops are counted.
Published(p) ==
    /\ poster[p].step = "sending"
    /\ poster[p].todo = {}
    /\ broker' = [broker EXCEPT !.dropped = @ + poster[p].dropped]
    /\ poster' = [poster EXCEPT ![p] = [step |-> IF p[2] = "forward" THEN "idle" ELSE "over",
                                        ev |-> Nothing, todo |-> {}, dropped |-> 0]]
    /\ UNCHANGED <<clock, reader, store, feed, client, owed>>

-----------------------------------------------------------------------------
\* serveLogStream: history first,
Replay(c) ==
    /\ client[c].step = "new"
    /\ client' = [client EXCEPT ![c].step = "replayed", ![c].seen = Query(Watched[c], 1, 2 * PageCap)]
    /\ UNCHANGED <<clock, reader, store, feed, poster, broker, owed>>

\* then the subscription,
Subscribe(c) ==
    /\ client[c].step = "replayed"
    /\ client' = [client EXCEPT ![c].step = "live"]
    /\ broker' = [broker EXCEPT !.members = @ \cup {c}]
    /\ UNCHANGED <<clock, reader, store, feed, poster, owed>>

\* then one event after the other,
Take(c) ==
    /\ client[c].step = "live"
    /\ client[c].buf # <<>>
    /\ client' = [client EXCEPT ![c].buf = Tail(@), ![c].got = Append(@, Head(client[c].buf))]
    /\ UNCHANGED <<clock, reader, store, feed, poster, broker, owed>>

\* until the browser goes away: Cancel leaves the map first,
Leave(c) ==
    /\ client[c].step = "live"
    /\ client' = [client EXCEPT ![c].step = "leaving"]
    /\ broker' = [broker EXCEPT !.members = @ \ {c}]
    /\ UNCHANGED <<clock, reader, store, feed, poster, owed>>

\* and closes the subscription then.
Closed(c) ==
    /\ client[c].step = "leaving"
    /\ client' = [client EXCEPT ![c].step = "over", ![c].closed = TRUE]
    /\ UNCHANGED <<clock, reader, store, feed, poster, broker, owed>>

LogNext ==
    \/ \E i \in Instances, s \in Pipes : Read(i, s) \/ Store(i, s) \/ Send(i, s) \/ SendGap(i, s)
    \/ \E i \in Instances : Ends(i) \/ Forward(i) \/ Announce(i)
    \/ \E p \in Instances \X Posters :
          \/ Snapshot(p)
          \/ Published(p)
          \/ \E c \in Clients : Deliver(p, c)
    \/ \E c \in Clients : Replay(c) \/ Subscribe(c) \/ Take(c) \/ Leave(c) \/ Closed(c)

LogSpec == LogInit /\ [][LogNext]_logVars

-----------------------------------------------------------------------------
\* What client c has been sent and what waits for it, in order.
Live(c) == client[c].got \o client[c].buf

\* Events a Publish has still to offer to c.
OnTheWay(c) == {poster[p].ev : p \in {q \in DOMAIN poster : c \in poster[q].todo}}

Unseen(c) == owed[c] \ (Range(Live(c)) \cup OnTheWay(c))

\* What was promised to a subscriber and neither arrived nor still can.
Lost == UNION {{c} \X Unseen(c) : c \in Clients}

(* A live view never loses an event silently: whatever the broker promised a
   subscriber by taking it into a snapshot arrived, waits, is about to be
   offered, or is counted, once, by the Publish it belongs to and in
   DroppedEvents() when that returned (log_store.go:325-363).  And it never
   shows one pipe of one run out of order, through two bounded queues and
   however Publish calls overlap. *)
StreamFaithful ==
    /\ \A p \in DOMAIN poster :
          poster[p].dropped = Cardinality({c \in Clients : poster[p].ev \in Unseen(c)})
    /\ broker.dropped = Cardinality({x \in Lost : \A p \in DOMAIN poster : x[2] # poster[p].ev})
    /\ \A c \in Clients : \A j, k \in DOMAIN Live(c) :
          /\ j < k
          /\ Live(c)[j].inst = Live(c)[k].inst
          /\ Live(c)[j].stream = Live(c)[k].stream
          /\ Live(c)[j].stream # "system"
          => Live(c)[j].at < Live(c)[k].at
=============================================================================
