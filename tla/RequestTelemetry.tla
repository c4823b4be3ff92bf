-------------------------- MODULE RequestTelemetry --------------------------
(***************************************************************************)
(* What is told of requests outside the history: the queue of usage        *)
(* records and its subscribers, and the dashboard's counters.              *)
(***************************************************************************)
EXTENDS Naturals, Sequences, SequencesExt, FiniteSets, FiniteSetsExt

-----------------------------------------------------------------------------
(***************************************************************************)
(* Usage records offered over the Redis protocol: a queue that clients pop *)
(* and a stream that clients subscribe to.  crates/gateway/src/resp.rs.    *)
(*                                                                         *)
(* A record is its number.  It goes to the subscribers when there is one,  *)
(* and into the queue otherwise.  Nothing in the program publishes on the  *)
(* errors channel, so a subscription to it only waits.                     *)
(***************************************************************************)

CONSTANTS Conn,       \* connections
          MaxRecords, \* bound: records made
          MaxNow,     \* bound: the clock
          Retention,  \* retention_secs
          Buffer,     \* USAGE_SUBSCRIBER_BUFFER
          CompactAt,  \* the 1024 of maybe_compact
          MaxPops     \* bound: pop commands

VARIABLES now, items, head,
          subscribers, \* the channel each registered sender serves
          buffer,      \* what each subscriber's channel holds
          conn,        \* each connection's handler
          managed,     \* a management secret is configured
          made,        \* history: records made
          offered,     \* history: the records put in the queue and not popped
          taken,       \* history: the records popped, in order
          received,    \* history: what each subscriber was sent
          since,       \* history: the records made before each subscription
          pops

queueVars == <<now, items, head, subscribers, buffer, conn, managed, made, offered, taken, received, since, pops>>

Item == [id : 1..MaxRecords, at : 0..MaxNow]
Ids(s) == [i \in DOMAIN s |-> s[i].id]
\* USAGE_SUPPORT_REFRESH_PAYLOAD, the first message of a usage subscription.
SupportRefresh == 0

(***************************************************************************)
(* The queue: the live items are those after head.                         *)
(***************************************************************************)
Live(q) == SubSeq(q.items, q.head + 1, Len(q.items))
Expired(i) == i.at + Retention < now
Empty == [items |-> <<>>, head |-> 0]

prune(q) ==
    IF q.head >= Len(q.items) THEN Empty
    ELSE LET fresh == {h \in q.head..Len(q.items) :
                          /\ \A j \in (q.head + 1)..h : Expired(q.items[j])
                          /\ h < Len(q.items) => ~Expired(q.items[h + 1])}
         IN [q EXCEPT !.head = CHOOSE h \in fresh : TRUE]

\* Mutant: compaction drops one item more than was consumed.
MutMaybeCompact(q) ==
    IF q.head < CompactAt /\ q.head * 2 < Len(q.items) THEN q
    ELSE [items |-> SubSeq(q.items, q.head + 2, Len(q.items)), head |-> 0]

maybe_compact(q) ==
    CASE q.head = 0 -> q
      [] q.head >= Len(q.items) -> Empty
      [] q.head < CompactAt /\ q.head * 2 < Len(q.items) -> q
      [] OTHER -> [items |-> Live(q), head |-> 0]

enqueue(q, id) ==
    LET p == prune(q) IN maybe_compact([p EXCEPT !.items = Append(@, [id |-> id, at |-> now])])

\* The records popped and the queue they leave.
pop_oldest(q, count) ==
    LET p == prune(q)
        available == Len(p.items) - p.head
        n == IF count < available THEN count ELSE available
    IN IF n = 0 THEN [out |-> <<>>, queue |-> p]
       ELSE [out |-> SubSeq(p.items, p.head + 1, p.head + n),
             queue |-> maybe_compact([p EXCEPT !.head = @ + n])]

Queue == [items |-> items, head |-> head]
Becomes(q) == items' = q.items /\ head' = q.head

Fresh(s) == SelectSeq(s, LAMBDA i : ~Expired(i))

(***************************************************************************)
(* Subscribers.  One whose channel is full is dropped from the map; its    *)
(* handler goes on with what is buffered and then finds the channel closed.*)
(***************************************************************************)
UsageSubscribers == {c \in Conn : subscribers[c] = "usage"}

\* Mutant: a full subscriber stays, and misses the record.
MutPublish(id) ==
    /\ subscribers' = subscribers
    /\ buffer' = [c \in Conn |-> IF c \in UsageSubscribers /\ Len(buffer[c]) < Buffer
                                 THEN Append(buffer[c], id) ELSE buffer[c]]

publish_to_subscribers(id) ==
    LET full == {c \in UsageSubscribers : Len(buffer[c]) >= Buffer} IN
    /\ subscribers' = [c \in Conn |-> IF c \in full THEN "none" ELSE subscribers[c]]
    /\ buffer' = [c \in Conn |-> IF c \in UsageSubscribers \ full THEN Append(buffer[c], id) ELSE buffer[c]]

\* A request's usage event is offered before the history stores it.
EnqueueUsage ==
    /\ made < MaxRecords
    /\ made' = made + 1
    /\ \/ /\ UsageSubscribers # {}
          /\ publish_to_subscribers(made + 1)
          /\ UNCHANGED <<items, head, offered>>
       \/ /\ UsageSubscribers = {}
          /\ Becomes(enqueue(Queue, made + 1))
          /\ offered' = Append(offered, [id |-> made + 1, at |-> now])
          /\ UNCHANGED <<subscribers, buffer>>
    /\ UNCHANGED <<now, conn, managed, taken, received, since, pops>>

Tick ==
    /\ now < MaxNow
    /\ now' = now + 1
    /\ UNCHANGED <<items, head, subscribers, buffer, conn, managed, made, offered, taken, received, since, pops>>

(***************************************************************************)
(* A connection's handler.  Without a configured secret nobody can log in; *)
(* with one, the right password may still be refused (a ban, a remote      *)
(* address, too many verifications at once).                               *)
(***************************************************************************)
check_management_auth(password) ==
    IF ~managed THEN {"disabled"}
    ELSE IF password = "right" THEN {"ok", "refused"} ELSE {"refused"}

Goes(c, pc) == conn' = [conn EXCEPT ![c] = pc]
QueueStays == UNCHANGED <<now, items, head, managed, made, offered, taken, pops>>
HubStays == UNCHANGED <<subscribers, buffer, received, since>>

\* In home mode the connection is refused with an error, and nothing else.
Connect(c) ==
    /\ conn[c] = "closed"
    /\ Goes(c, "open")
    /\ QueueStays /\ HubStays

\* AUTH; every other command before it is answered with NOAUTH, and counts
\* as an attempt without a password.
Auth(c) ==
    /\ conn[c] \in {"open", "authed"}
    /\ \E p \in {"right", "wrong", "missing"} : \E r \in check_management_auth(p) :
          conn' = IF r = "ok" THEN [conn EXCEPT ![c] = "authed"] ELSE conn
    /\ QueueStays /\ HubStays

\* The length is what pruning leaves.
queue_len == Becomes(prune(Queue))

\* LLEN.
Llen(c) ==
    /\ conn[c] = "authed"
    /\ queue_len
    /\ UNCHANGED <<now, conn, managed, made, offered, taken, pops>> /\ HubStays

\* A count that is not positive, like a wrong number of arguments, is
\* answered with an error and pops nothing; without one it is 1.
parse_pop_count == 1..2

\* LPOP and RPOP alike take the oldest.  A reply that cannot be written ends
\* the connection; the records are popped all the same.
Pop(c) ==
    /\ conn[c] = "authed" /\ pops < MaxPops
    /\ \E count \in parse_pop_count :
          LET r == pop_oldest(Queue, count) IN
          /\ Becomes(r.queue)
          /\ taken' = taken \o Ids(r.out)
          /\ offered' = SelectSeq(offered, LAMBDA i : \A j \in DOMAIN r.out : r.out[j] # i)
    /\ \E pc \in {"authed", "closed"} : Goes(c, pc)
    /\ pops' = pops + 1
    /\ UNCHANGED <<now, managed, made>> /\ HubStays

subscribe(c, channel) ==
    /\ conn[c] = "authed"
    /\ subscribers' = [subscribers EXCEPT ![c] = channel]
    /\ buffer' = [buffer EXCEPT ![c] = IF channel = "usage" THEN <<SupportRefresh>> ELSE <<>>]
    /\ received' = [received EXCEPT ![c] = <<>>]
    /\ since' = [since EXCEPT ![c] = made]
    /\ Goes(c, "subscribed")
    /\ QueueStays

\* SUBSCRIBE; another channel's name is answered with an error.
Subscribe(c) == \E channel \in {"usage", "errors"} : subscribe(c, channel)

\* The handler leaves: QUIT, end of input, a malformed or oversized command,
\* a command that takes too long, or a reply that cannot be written.
Leave(c) ==
    /\ conn[c] \in {"open", "authed"}
    /\ Goes(c, "closed")
    /\ QueueStays /\ HubStays

\* stream_subscription forwards the next message.
Deliver(c) ==
    /\ conn[c] = "subscribed" /\ buffer[c] # <<>>
    /\ received' = [received EXCEPT ![c] = Append(@, Head(buffer[c]))]
    /\ buffer' = [buffer EXCEPT ![c] = Tail(@)]
    /\ UNCHANGED <<conn, subscribers, since>> /\ QueueStays

\* Mutant: leaving a subscription leaves its sender in the map.
MutUnsubscribe(c) ==
    /\ conn[c] = "subscribed"
    /\ Goes(c, "closed")
    /\ UNCHANGED <<subscribers, since>>
    /\ buffer' = [buffer EXCEPT ![c] = <<>>]
    /\ received' = [received EXCEPT ![c] = <<>>]
    /\ QueueStays

\* UNSUBSCRIBE, QUIT, an error, or a channel whose sender is gone: the guard
\* removes the sender, then the receiver goes with what it holds.
unsubscribe(c) ==
    /\ conn[c] = "subscribed"
    /\ Goes(c, "closed")
    /\ subscribers' = [subscribers EXCEPT ![c] = "none"]
    /\ buffer' = [buffer EXCEPT ![c] = <<>>]
    /\ received' = [received EXCEPT ![c] = <<>>]
    /\ UNCHANGED since /\ QueueStays

QueueInit ==
    /\ now = 0 /\ items = <<>> /\ head = 0 /\ made = 0 /\ pops = 0
    /\ managed \in BOOLEAN
    /\ subscribers = [c \in Conn |-> "none"]
    /\ buffer = [c \in Conn |-> <<>>] /\ received = [c \in Conn |-> <<>>]
    /\ conn = [c \in Conn |-> "closed"]
    /\ since = [c \in Conn |-> 0]
    /\ offered = <<>> /\ taken = <<>>

QueueNext ==
    \/ EnqueueUsage \/ Tick
    \/ \E c \in Conn :
          \/ Connect(c) \/ Auth(c) \/ Llen(c) \/ Pop(c) \/ Leave(c)
          \/ Subscribe(c) \/ Deliver(c) \/ unsubscribe(c)

QueueSpec == QueueInit /\ [][QueueNext]_queueVars

(***************************************************************************)
(* Properties.                                                             *)
(***************************************************************************)

\* However it was pruned and compacted, the queue holds the records that
\* were offered, not popped and not expired, in their order; and no record
\* was popped twice or out of order (Queue of resp.rs).
QueueIsExact ==
    /\ head <= Len(items)
    /\ Fresh(Live(Queue)) = Fresh(offered)
    /\ \A i, j \in DOMAIN taken : i < j => taken[i] < taken[j]

\* A subscriber that is still registered has been sent, or holds, the first
\* message and every record made since it subscribed, in order: one that
\* could not keep up is dropped rather than left with a gap; and a record
\* that was streamed is not popped too (publish_to_subscribers).
StreamHasNoGaps ==
    /\ \A c \in UsageSubscribers :
          received[c] \o buffer[c] = <<SupportRefresh>> \o [i \in 1..(made - since[c]) |-> since[c] + i]
    /\ \A c \in Conn : \A i \in DOMAIN received[c] : ~Contains(taken, received[c][i])

\* A sender is registered only while its connection is in a subscription
\* (defer_unsubscribe).
SendersHaveReceivers ==
    \A c \in Conn : subscribers[c] # "none" => conn[c] = "subscribed"

-----------------------------------------------------------------------------
(***************************************************************************)
(* The dashboard's counters beside the request history: every outcome goes *)
(* into both, and clearing part of the history takes its share out of the  *)
(* counters.  crates/gateway/src/telemetry.rs, management/history.rs, and  *)
(* record_request_outcome of relay.rs.                                     *)
(*                                                                         *)
(* A bucket counts the requests and tokens of a minute, in total, by       *)
(* provider and by account; a bucket or entry that is all zero is absent.  *)
(* Successes, failures and the two kinds of tokens are summed alike.       *)
(***************************************************************************)

CONSTANTS Provider, Holder,   \* providers, accounts
          Minutes,            \* bound: minutes are 0..Minutes
          Keep,               \* RETENTION_MINUTES
          Tokens,             \* what an outcome may have used: 0, 1
          Clearer,            \* calls of clear at a time
          MaxEvents, MaxClears \* bounds: outcomes, clears

VARIABLES buckets,
          saved,      \* telemetry.json
          events,     \* the outcomes so far, by number
          pending,    \* given to the history, not yet stored
          stored,     \* in the history
          counted,    \* in the counters
          clearing,   \* each clear in progress
          clears,
          newest,     \* the latest minute counted
          disturbed   \* history: a clear took out other outcomes than it had counted, or a crash lost some

boardVars == <<buckets, saved, events, pending, stored, counted, clearing, clears, newest, disturbed>>

Minute == 0..Minutes
Nothing == [requests |-> 0, tokens |-> 0]
EmptyBucket == [total |-> Nothing, providers |-> [p \in Provider |-> Nothing], accounts |-> [a \in Holder |-> Nothing]]
Event == [start : Minute, end : Minute, provider : Provider, account : Holder, tokens : Tokens]
Minus(x, y) == IF x > y THEN x - y ELSE 0
Plus(m, n) == [requests |-> m.requests + n.requests, tokens |-> m.tokens + n.tokens]
saturating_sub(m, n) == [requests |-> Minus(m.requests, n.requests), tokens |-> Minus(m.tokens, n.tokens)]
Amount(e) == [requests |-> 1, tokens |-> e.tokens]

Added(b, provider, account, n) ==
    [total |-> Plus(b.total, n), providers |-> [b.providers EXCEPT ![provider] = Plus(@, n)],
     accounts |-> [b.accounts EXCEPT ![account] = Plus(@, n)]]

\* Mutant: an outcome is counted in the newest bucket.
MutBucketFor(minute) == IF newest > minute THEN newest ELSE minute

\* An outcome that comes late is counted in its own minute's bucket.
bucket_index_for(minute) == minute

record_with_account(e) ==
    LET m == bucket_index_for(e.end)
        bs == [buckets EXCEPT ![m] = Added(@, e.provider, e.account, Amount(e))]
    IN [n \in Minute |-> IF n + Keep >= e.end THEN bs[n] ELSE EmptyBucket]

(***************************************************************************)
(* An outcome: first to the history's queue, then to the counters.         *)
(***************************************************************************)
record_request_outcome(e) ==
    /\ Cardinality(DOMAIN events) < MaxEvents
    /\ e.start <= e.end
    /\ LET id == Cardinality(DOMAIN events) + 1 IN
       /\ events' = [i \in DOMAIN events \cup {id} |-> IF i = id THEN e ELSE events[i]]
       /\ pending' = pending \cup {id}
    /\ UNCHANGED <<buckets, saved, stored, counted, clearing, clears, newest, disturbed>>

Count(i) ==
    /\ i \in DOMAIN events \ counted
    /\ buckets' = record_with_account(events[i])
    /\ counted' = counted \cup {i}
    /\ newest' = IF events[i].end > newest THEN events[i].end ELSE newest
    /\ UNCHANGED <<saved, events, pending, stored, clearing, clears, disturbed>>

\* The ingest thread stores what is queued.
Store ==
    /\ pending # {}
    /\ stored' = stored \cup pending /\ pending' = {}
    /\ UNCHANGED <<buckets, saved, events, counted, clearing, clears, newest, disturbed>>

\* The flush worker, on its tick, when asked, and when it stops.
flush ==
    /\ saved' = buckets
    /\ UNCHANGED <<buckets, events, pending, stored, counted, clearing, clears, newest, disturbed>>

(***************************************************************************)
(* Clearing: the outcomes that match are grouped by minute, provider and   *)
(* account, then deleted, and the groups are taken out of the counters.    *)
(***************************************************************************)
\* parse_query: a provider or all of them, an account or all of them, as the
\* pairs that it selects.
Query == {P \X A : P \in {Provider} \cup {{p} : p \in Provider}, A \in {Holder} \cup {{a} : a \in Holder}}
Matches(q, e) == <<e.provider, e.account>> \in q
Matching(q) == {i \in stored : Matches(q, events[i])}
Idle == [pc |-> "idle", query |-> {}, groups |-> {}]

\* clear waits until what was queued is stored, and groups what matches.
BeginClear(c, q) ==
    /\ clearing[c].pc = "idle" /\ clears < MaxClears
    /\ stored' = stored \cup pending /\ pending' = {}
    /\ clearing' = [clearing EXCEPT ![c] =
          [pc |-> "delete", query |-> q, groups |-> {i \in stored \cup pending : Matches(q, events[i])}]]
    /\ clears' = clears + 1
    /\ UNCHANGED <<buckets, saved, events, counted, newest, disturbed>>

\* What matches is deleted, whether or not it was grouped.  The groups are
\* of the minute a request began, the counters of the minute it ended.
Delete(c) ==
    LET gone == Matching(clearing[c].query) IN
    /\ clearing[c].pc = "delete"
    /\ stored' = stored \ gone
    /\ clearing' = [clearing EXCEPT ![c] = [@ EXCEPT !.pc = "subtract", !.query = {}]]
    /\ disturbed' = (\/ disturbed \/ gone # clearing[c].groups
                     \/ \E i \in gone : i \notin counted \/ events[i].start # events[i].end)
    /\ UNCHANGED <<buckets, saved, events, pending, counted, clears, newest>>

Sum(S) == [requests |-> Cardinality(S), tokens |-> Cardinality({i \in S : events[i].tokens = 1})]

\* Mutant: the accounts' counters are left as they are.
MutRemoveHistoryGroups(S) ==
    [m \in Minute |->
       LET here == {i \in S : events[i].start = m}
           b == buckets[m]
       IN [total |-> saturating_sub(b.total, Sum(here)),
           providers |-> [p \in Provider |-> saturating_sub(b.providers[p], Sum({i \in here : events[i].provider = p}))],
           accounts |-> b.accounts]]

remove_history_groups(S) ==
    [m \in Minute |->
       LET here == {i \in S : events[i].start = m}
           b == buckets[m]
       IN [total |-> saturating_sub(b.total, Sum(here)),
           providers |-> [p \in Provider |-> saturating_sub(b.providers[p], Sum({i \in here : events[i].provider = p}))],
           accounts |-> [a \in Holder |-> saturating_sub(b.accounts[a], Sum({i \in here : events[i].account = a}))]]]

EndClear(c) ==
    /\ clearing[c].pc = "subtract"
    /\ buckets' = remove_history_groups(clearing[c].groups)
    /\ saved' = buckets'
    /\ clearing' = [clearing EXCEPT ![c] = Idle]
    /\ UNCHANGED <<events, pending, stored, counted, clears, newest, disturbed>>

\* A crash: the counters are those last saved, and what was queued is lost.
\* Bound: none after a disturbance.
Restart ==
    /\ ~disturbed
    /\ buckets # saved \/ pending # {}
    /\ buckets' = saved /\ pending' = {} /\ counted' = DOMAIN events
    /\ clearing' = [c \in Clearer |-> Idle]
    /\ disturbed' = TRUE
    /\ UNCHANGED <<saved, events, stored, clears, newest>>

BoardInit ==
    /\ buckets = [m \in Minute |-> EmptyBucket] /\ saved = buckets
    /\ events = [i \in {} |-> Nothing] /\ pending = {} /\ stored = {} /\ counted = {}
    /\ clearing = [c \in Clearer |-> Idle] /\ clears = 0 /\ newest = 0
    /\ disturbed = FALSE

BoardNext ==
    \/ \E e \in Event : record_request_outcome(e)
    \/ \E i \in DOMAIN events : Count(i)
    \/ Store \/ flush \/ Restart
    \/ \E c \in Clearer : Delete(c) \/ EndClear(c) \/ \E q \in Query : BeginClear(c, q)

BoardSpec == BoardInit /\ [][BoardNext]_boardVars

(***************************************************************************)
(* Properties.                                                             *)
(***************************************************************************)

\* The outcomes the counters should show: those counted and still in the
\* history, or deleted by a clear that has not come to the counters.
Shown == {i \in counted : \/ i \in stored \cup pending
                          \/ \E c \in Clearer : clearing[c].pc = "subtract" /\ i \in clearing[c].groups}

\* As long as every clear deletes what it grouped and no crash came, the
\* counters of a retained minute are those of the history's outcomes, in
\* total, by provider and by account (remove_history_groups, clear).
DashboardFollowsHistory ==
    ~disturbed => \A m \in Minute : m + Keep >= newest =>
        LET here == {i \in Shown : events[i].end = m} IN
        /\ buckets[m].total = Sum(here)
        /\ \A p \in Provider : buckets[m].providers[p] = Sum({i \in here : events[i].provider = p})
        /\ \A a \in Holder : buckets[m].accounts[a] = Sum({i \in here : events[i].account = a})
=============================================================================
