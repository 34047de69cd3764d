----------------------------- MODULE SseChannel ------------------------------
(***************************************************************************)
(* The fast SSE channel: the broadcaster's queues, and the connection each *)
(* browser keeps (resilientSource and its watchdog).                       *)
(*                                                                         *)
(* An item is a state block, here session_identity (id 0), which the       *)
(* broadcaster caches, or a trade_manifest, which it does not.  A browser  *)
(* that closes a connection handles nothing more of it, so only its        *)
(* current subscription is kept.                                           *)
(***************************************************************************)
EXTENDS Integers, Sequences

CONSTANTS
    Browsers,
    Items,       \* what is published: records with an id and a ts
    NoItem,
    QueueSize,   \* maxsize of a subscriber's queue
    WireSize     \* bound: items yielded and not handled

VARIABLES
    cache,   \* _last: the state block, or NoItem
    queue,   \* the subscriber's queue of each browser
    wire,    \* yielded by the server, not handled by the browser
    link,    \* "open", "hung" (no error, nothing comes) or "retry" (es = null)
    heard    \* lastFastEventAt > 0: the page has handled a block

channelVars == <<cache, queue, wire, link, heard>>

Links == {"open", "hung", "retry"}

ChannelTypeOK ==
    /\ cache \in Items \cup {NoItem}
    /\ queue \in [Browsers -> Seq(Items)] /\ wire \in [Browsers -> Seq(Items)]
    /\ \A b \in Browsers : Len(queue[b]) <= QueueSize /\ Len(wire[b]) <= WireSize
    /\ link \in [Browsers -> Links] /\ heard \in [Browsers -> BOOLEAN]

ChannelInit ==
    /\ cache = NoItem
    /\ queue = [b \in Browsers |-> <<>>] /\ wire = [b \in Browsers |-> <<>>]
    /\ link = [b \in Browsers |-> "open"] /\ heard = [b \in Browsers |-> FALSE]

-----------------------------------------------------------------------------

\* Mutation: on overflow the oldest item goes to the end.
EnqueueRotating(q, item) ==
    IF Len(q) < QueueSize THEN Append(q, item)
    ELSE Append(Tail(Tail(q)), item) \o <<Head(q)>>

\* Mutation: a queue with no maximum.
EnqueueUnbounded(q, item) == Append(q, item)

\* QueueFull: the oldest item is dropped, whichever it is.
Enqueue(q, item) ==
    IF Len(q) < QueueSize THEN Append(q, item) ELSE Append(Tail(q), item)

ToSubscribers(item) ==
    queue' = [b \in Browsers |->
                IF link[b] = "open" THEN Enqueue(queue[b], item) ELSE queue[b]]

\* publish of a state block: cached for the subscribers to come.
PublishBlock(item) ==
    /\ cache' = item /\ ToSubscribers(item)
    /\ UNCHANGED <<wire, link, heard>>

\* Mutation: an event is cached like a state.
PublishCachedEvent(item) ==
    /\ cache' = item /\ ToSubscribers(item)
    /\ UNCHANGED <<wire, link, heard>>

\* publish with replay=False.
PublishEvent(item) ==
    /\ ToSubscribers(item)
    /\ UNCHANGED <<cache, wire, link, heard>>

\* The endpoint's generator yields the head of the queue.
Yield(b) ==
    /\ link[b] = "open" /\ queue[b] # <<>> /\ Len(wire[b]) < WireSize
    /\ wire' = [wire EXCEPT ![b] = Append(@, Head(queue[b]))]
    /\ queue' = [queue EXCEPT ![b] = Tail(@)]
    /\ UNCHANGED <<cache, link, heard>>

\* The browser takes the next item; what it does with it is the store's matter.
\* Only a state block is a sign of life (markFast).
Handle(b, item) ==
    /\ link[b] # "retry" /\ wire[b] # <<>> /\ item = Head(wire[b])
    /\ wire' = [wire EXCEPT ![b] = Tail(@)]
    /\ heard' = [heard EXCEPT ![b] = @ \/ item.id = 0]
    /\ UNCHANGED <<cache, queue, link>>

\* subscribe: a fresh queue, hydrated from the cache.
Subscribe(b) ==
    /\ queue' = [queue EXCEPT ![b] = IF cache = NoItem THEN <<>> ELSE <<cache>>]
    /\ wire' = [wire EXCEPT ![b] = <<>>]
    /\ link' = [link EXCEPT ![b] = "open"]
    /\ UNCHANGED cache

\* onerror: the source is closed and a timer reopens one.
Break(b) ==
    /\ link[b] # "retry"
    /\ queue' = [queue EXCEPT ![b] = <<>>] /\ wire' = [wire EXCEPT ![b] = <<>>]
    /\ link' = [link EXCEPT ![b] = "retry"]
    /\ UNCHANGED <<cache, heard>>

Retry(b) == link[b] = "retry" /\ Subscribe(b) /\ UNCHANGED heard

\* The stream stops and no error is raised.
Hang(b) ==
    /\ link[b] = "open"
    /\ queue' = [queue EXCEPT ![b] = <<>>]
    /\ link' = [link EXCEPT ![b] = "hung"]
    /\ UNCHANGED <<cache, wire, heard>>

\* Mutation: the watchdog leaves a source alone that has raised no error.
RecycleAfterError(b) == link[b] = "retry" /\ Subscribe(b) /\ UNCHANGED heard

\* The watchdog found the channel silent, after it had been heard: close and
\* reopen.
Recycle(b) == link[b] # "retry" /\ heard[b] /\ Subscribe(b) /\ UNCHANGED heard

\* The page is reloaded.
Reopen(b) == Subscribe(b) /\ heard' = [heard EXCEPT ![b] = FALSE]

\* The backend dies and is back with an empty cache; a browser sees an error,
\* or its proxy keeps the connection open and silent.
ChannelRestart ==
    /\ cache' = NoItem
    /\ queue' = [b \in Browsers |-> <<>>]
    /\ \E noticed \in SUBSET Browsers :
         link' = [b \in Browsers |-> IF b \in noticed \/ link[b] = "retry"
                                     THEN "retry" ELSE "hung"]
    /\ wire' = [b \in Browsers |-> IF link'[b] = "hung" THEN wire[b] ELSE <<>>]
    /\ UNCHANGED heard

-----------------------------------------------------------------------------

\* A browser that lost its stream has one again: with an error, by the retry;
\* without, by the watchdog, provided the page had received a block since it was
\* loaded.
LinkRecovers ==
    \A b \in Browsers :
        (link[b] = "retry" \/ (link[b] = "hung" /\ heard[b])) ~> link[b] = "open"
=============================================================================
