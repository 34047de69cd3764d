-------------------------- MODULE TicketPathProofs ---------------------------
(***************************************************************************)
(* What the path of a ticket guarantees for any number of browsers,        *)
(* tickets and faults, any sizes of queues, delays and clock offsets.      *)
(***************************************************************************)
EXTENDS TicketPath, TLAPS

-----------------------------------------------------------------------------
(* The emission                                                            *)

\* The event in memory began no later than the last iteration; so did the
\* events of the manifests, and none was published in the future.
EventsArePast ==
    /\ sweptAt <= now
    /\ event # Emission!NoEvent => event.since <= sweptAt
    /\ \A i \in DOMAIN manifests :
         /\ manifests[i].event.since <= sweptAt
         /\ manifests[i].ts <= now /\ manifests[i].life <= life

\* What the process remembers of the manifests of its own life: when the last
\* one was emitted, and that of the event in memory if it is that event's.
MemoryOfLife ==
    \A i \in DOMAIN manifests : manifests[i].life = life =>
        /\ manifests[i].ts <= lastEmit
        /\ manifests[i].event = event => emittedKey = event.key

EmissionInv ==
    /\ Emission!EmissionTypeOK
    /\ EventsArePast /\ MemoryOfLife /\ OneManifestPerEvent

\* A manifest of the list is well typed.
LEMMA ManifestType ==
    ASSUME Emission!EmissionTypeOK, NEW i \in DOMAIN manifests
    PROVE  /\ manifests[i].event \in Emission!Events /\ manifests[i].event.since \in Nat
           /\ manifests[i].ts \in Nat /\ manifests[i].life \in Nat
<1>1. manifests[i] \in Emission!Manifests
    BY DEF Emission!EmissionTypeOK
<1> QED BY <1>1, PathAssumption DEF Emission!Manifests, Emission!Events, Emission!Times, Emission!Lives

\* The event after an iteration is the one before, none, or one that begins.
LEMMA EventType ==
    ASSUME EmissionInv, NEW found \in Emission!Found, Emission!Iterates(found)
    PROVE  /\ event' \in Emission!Events \cup {Emission!NoEvent}
           /\ found \in Keys => event' \in Emission!Events /\ event'.key = found
           /\ event' # Emission!NoEvent => event'.since <= now
           /\ \/ event' = event
              \/ event' = Emission!NoEvent
              \/ event' = [key |-> found, since |-> now]
BY PathAssumption
   DEF EmissionInv, EventsArePast, Emission!EmissionTypeOK, Emission!Iterates, Emission!EventAfter,
       Emission!Events, Emission!NoEvent, Emission!NoKey, Emission!Found, Emission!Times

\* The loop starts with no event in memory and no manifest.
LEMMA EmissionInitially == Emission!EmissionInit => EmissionInv
BY PathAssumption
   DEF EmissionInv, EventsArePast, MemoryOfLife, OneManifestPerEvent, Emission!OneManifestPerEvent,
       Emission!EmissionInit, Emission!EmissionTypeOK, Emission!Times, Emission!Lives,
       Emission!NoEvent

\* An iteration without a manifest: a new event has none yet.
LEMMA QuietSweepKeeps ==
    ASSUME EmissionInv, NEW found \in Emission!Found,
           Emission!SweepSilent(found) \/ Emission!SweepFails(found)
    PROVE  EmissionInv'
<1>1. Emission!Iterates(found) /\ manifests' = manifests /\ life' = life /\ now' = now
      /\ lastEmit' = lastEmit /\ sweptAt < now /\ sweptAt' = now
    BY DEF Emission!SweepSilent, Emission!SweepFails, Emission!Iterates
<1>2. emittedKey' = emittedKey \/ (found = Emission!Quiet /\ emittedKey' = Emission!NoKey)
    BY DEF Emission!SweepSilent, Emission!SweepFails
<1>3. event' \in Emission!Events \cup {Emission!NoEvent}
    BY <1>1, EventType
<1>4. Emission!EmissionTypeOK'
    BY <1>1, <1>2, <1>3, PathAssumption
       DEF EmissionInv, Emission!EmissionTypeOK, Emission!Times
<1>5. EventsArePast'
  <2>1. \A i \in DOMAIN manifests : manifests[i].event.since <= now
      BY ManifestType, PathAssumption DEF EmissionInv, EventsArePast, Emission!EmissionTypeOK, Emission!Times
  <2> QED BY <1>1, <2>1, EventType, PathAssumption
          DEF EmissionInv, EventsArePast, Emission!EmissionTypeOK, Emission!Times
<1>6. MemoryOfLife'
  <2> SUFFICES ASSUME NEW i \in DOMAIN manifests, manifests[i].life = life,
                      manifests[i].event = event'
               PROVE  emittedKey' = event'.key
      BY <1>1 DEF MemoryOfLife, EmissionInv
  <2>1. manifests[i].event \in Emission!Events /\ manifests[i].event.since <= sweptAt
      BY ManifestType DEF EmissionInv, EventsArePast
  <2>2. event' # [key |-> found, since |-> now]
      BY <1>1, <2>1, PathAssumption DEF EmissionInv, Emission!EmissionTypeOK, Emission!Events, Emission!Times
  <2>3. event' # Emission!NoEvent
      BY <2>1, PathAssumption DEF Emission!Events, Emission!NoEvent, Emission!NoKey
  <2>4. event' = event /\ found # Emission!Quiet
      BY <1>1, <2>2, <2>3, EventType, PathAssumption
         DEF Emission!Iterates, Emission!EventAfter, Emission!Quiet
  <2> QED BY <1>2, <2>4 DEF EmissionInv, MemoryOfLife
<1>7. OneManifestPerEvent'
    BY <1>1 DEF EmissionInv, OneManifestPerEvent, Emission!OneManifestPerEvent
<1> QED BY <1>4, <1>5, <1>6, <1>7 DEF EmissionInv

\* An iteration with a manifest: its event has none in this life, and the window
\* is over.
LEMMA EmittingSweepKeeps ==
    ASSUME EmissionInv, NEW found \in Emission!Found, Emission!SweepEmits(found)
    PROVE  EmissionInv'
<1> DEFINE new == [event |-> event', ts |-> now, life |-> life]
<1> USE DEF Emission!Times
<1>1. /\ found \in Keys /\ found # emittedKey /\ now - lastEmit >= Rearm
      /\ Emission!Iterates(found) /\ sweptAt < now /\ sweptAt' = now
      /\ Len(manifests) < MaxManifests /\ manifests' = Append(manifests, new)
      /\ emittedKey' = found /\ lastEmit' = now /\ now' = now /\ life' = life
    BY DEF Emission!SweepEmits, Emission!MayEmit, Emission!Iterates
<1>2. event' \in Emission!Events /\ event'.key = found /\ event'.since <= now
    BY <1>1, EventType, PathAssumption DEF Emission!Events, Emission!NoEvent, Emission!NoKey
<1>3. new \in Emission!Manifests
    BY <1>2 DEF EmissionInv, Emission!EmissionTypeOK, Emission!Manifests
<1>4. Emission!EmissionTypeOK'
    BY <1>1, <1>2, <1>3, PathAssumption DEF EmissionInv, Emission!EmissionTypeOK
<1>5. manifests \in Seq(Emission!Manifests)
    BY DEF EmissionInv, Emission!EmissionTypeOK
<1>6. \A i \in DOMAIN manifests' :
         \/ i \in DOMAIN manifests /\ manifests'[i] = manifests[i]
         \/ i = Len(manifests) + 1 /\ manifests'[i] = new
    BY <1>1, <1>5
<1>7. now \in Nat /\ sweptAt \in Int /\ life \in Nat /\ lastEmit \in Int /\ Rearm \in Nat
    BY PathAssumption DEF EmissionInv, Emission!EmissionTypeOK, Emission!Lives
<1>8. \A i \in DOMAIN manifests :
         /\ manifests[i].event.since \in Nat /\ manifests[i].event.since <= sweptAt
         /\ manifests[i].ts \in Nat /\ manifests[i].life <= life /\ manifests[i].ts <= now
         /\ manifests[i].life = life => manifests[i].ts <= lastEmit
    BY ManifestType DEF EmissionInv, EventsArePast, MemoryOfLife
<1>9. EventsArePast'
    BY <1>1, <1>2, <1>6, <1>7, <1>8 DEF EventsArePast
<1>10. MemoryOfLife'
  <2> SUFFICES ASSUME NEW i \in DOMAIN manifests', manifests'[i].life = life
               PROVE  /\ manifests'[i].ts <= now
                      /\ manifests'[i].event = event' => found = event'.key
      BY <1>1 DEF MemoryOfLife
  <2> QED BY <1>2, <1>6, <1>7, <1>8
<1>11. \A i \in DOMAIN manifests : manifests[i].life = life => manifests[i].event # event'
  <2> SUFFICES ASSUME NEW i \in DOMAIN manifests, manifests[i].life = life,
                      manifests[i].event = event'
               PROVE  FALSE
      OBVIOUS
  <2>1. event' # [key |-> found, since |-> now]
      BY <1>1, <1>7, <1>8
  <2>2. event' = event
      BY <1>1, <1>2, <2>1, EventType, PathAssumption DEF Emission!Events, Emission!NoEvent, Emission!NoKey
  <2> QED BY <1>1, <1>2, <2>2 DEF EmissionInv, MemoryOfLife
<1>12. OneManifestPerEvent'
  <2> SUFFICES ASSUME NEW i \in DOMAIN manifests', NEW j \in DOMAIN manifests', i < j,
                      manifests'[i].life = manifests'[j].life
               PROVE  /\ manifests'[i].event # manifests'[j].event
                      /\ manifests'[j].ts - manifests'[i].ts >= Rearm
      BY DEF OneManifestPerEvent, Emission!OneManifestPerEvent
  <2>1. i \in DOMAIN manifests /\ manifests'[i] = manifests[i]
      BY <1>1, <1>5, <1>6
  <2>2. CASE j \in DOMAIN manifests /\ manifests'[j] = manifests[j]
      BY <2>1, <2>2 DEF EmissionInv, OneManifestPerEvent, Emission!OneManifestPerEvent
  <2>3. CASE manifests'[j] = new
      BY <1>1, <1>7, <1>8, <1>11, <2>1, <2>3
  <2> QED BY <1>6, <2>2, <2>3
<1> QED BY <1>4, <1>9, <1>10, <1>12 DEF EmissionInv

\* Time passes.
LEMMA ClockTickKeeps ==
    ASSUME EmissionInv, Emission!ClockTick
    PROVE  EmissionInv'
<1>1. now \in Nat /\ sweptAt \in Int /\ now' = now + 1 /\ now' \in Emission!Times
    BY PathAssumption DEF EmissionInv, Emission!EmissionTypeOK, Emission!Times, Emission!ClockTick
<1>2. Emission!EmissionTypeOK'
    BY <1>1 DEF EmissionInv, Emission!EmissionTypeOK, Emission!ClockTick
<1>3. EventsArePast'
    BY <1>1, ManifestType DEF EmissionInv, EventsArePast, Emission!ClockTick
<1> QED BY <1>2, <1>3 DEF EmissionInv, MemoryOfLife, OneManifestPerEvent, Emission!OneManifestPerEvent,
                          Emission!ClockTick

\* A restart begins a life that has no manifest.
LEMMA EngineRestartKeeps ==
    ASSUME EmissionInv, Emission!EngineRestart
    PROVE  EmissionInv'
<1>1. /\ life \in Nat /\ life' = life + 1 /\ life' \in Emission!Lives
      /\ event' = Emission!NoEvent /\ UNCHANGED <<now, sweptAt, manifests>>
    BY PathAssumption DEF EmissionInv, Emission!EmissionTypeOK, Emission!Lives, Emission!EngineRestart
<1>2. Emission!EmissionTypeOK'
    BY <1>1, PathAssumption DEF EmissionInv, Emission!EmissionTypeOK, Emission!EngineRestart
<1>3. EventsArePast' /\ MemoryOfLife'
    BY <1>1, ManifestType DEF EmissionInv, EventsArePast, MemoryOfLife
<1> QED BY <1>1, <1>2, <1>3 DEF EmissionInv, OneManifestPerEvent, Emission!OneManifestPerEvent

\* What the rest of the path does is nothing to the emission.
LEMMA EmissionUnchanged ==
    ASSUME EmissionInv, UNCHANGED emissionVars
    PROVE  EmissionInv'
BY DEF EmissionInv, Emission!EmissionTypeOK, EventsArePast, MemoryOfLife, OneManifestPerEvent,
       Emission!OneManifestPerEvent, emissionVars

\* Every step of the path keeps what the emission remembers.
LEMMA EmissionKeeps == EmissionInv /\ [Next]_vars => EmissionInv'
<1> SUFFICES ASSUME EmissionInv, [Next]_vars PROVE EmissionInv'
    OBVIOUS
<1>1. CASE UNCHANGED emissionVars
    BY <1>1, EmissionUnchanged
<1>2. CASE Emission!ClockTick
    BY <1>2, ClockTickKeeps
<1>3. CASE Emission!EngineRestart
    BY <1>3, EngineRestartKeeps
<1>4. ASSUME NEW found \in Emission!Found,
             \/ Emission!SweepEmits(found)
             \/ Emission!SweepSilent(found) \/ Emission!SweepFails(found)
      PROVE  EmissionInv'
    BY <1>4, EmittingSweepKeeps, QuietSweepKeeps
<1> QED BY <1>1, <1>2, <1>3, <1>4
        DEF Next, vars, PublishIdentity, ClockTick, Restart, Emit, SweepTick, Yield, Deliver, BrowserStep,
            Lose, Reconnect, Reload

\* Within one life of the process, a sweep that persists gives one manifest, and
\* two manifests are a window apart, for any window and any number of sweeps.
THEOREM OneManifest == Spec => []OneManifestPerEvent
<1>1. Init => EmissionInv
    BY EmissionInitially DEF Init
<1>2. EmissionInv => OneManifestPerEvent
    BY DEF EmissionInv
<1> QED BY <1>1, <1>2, EmissionKeeps, PTL DEF Spec

-----------------------------------------------------------------------------
(* The channel                                                             *)

\* Tickets in increasing order of their ids ...
Rising(q) ==
    \A i, j \in DOMAIN q : i < j /\ q[i].id # 0 /\ q[j].id # 0 => q[i].id < q[j].id

\* ... in one sequence after those of another ...
Before(q, r) ==
    \A i \in DOMAIN q, j \in DOMAIN r : q[i].id # 0 /\ r[j].id # 0 => q[i].id < r[j].id

\* ... and after the tickets of a set.
After(ids, q) == \A id \in ids, i \in DOMAIN q : q[i].id # 0 => id < q[i].id

Emitted(q) == \A i \in DOMAIN q : q[i].id <= Len(manifests)

\* What is on its way to a browser is in the order of the emissions, and comes
\* after all that the browser has displayed.
InOrder(b) ==
    /\ Rising(wire[b]) /\ Rising(queue[b]) /\ Before(wire[b], queue[b])
    /\ After(shown[b], wire[b]) /\ After(shown[b], queue[b])
    /\ Emitted(wire[b]) /\ Emitted(queue[b])

ChannelInv ==
    /\ Channel!ChannelTypeOK
    /\ cache.id = 0
    /\ \A b \in Browsers : InOrder(b)

\* r is q without its first k items, and then item.
Shifted(q, k, item, r) ==
    /\ Len(r) = Len(q) + 1 - k /\ r[Len(r)] = item
    /\ \A i \in 1 .. Len(r) - 1 : i + k \in DOMAIN q /\ r[i] = q[i + k]

\* Each item of r is the new one or was in q.
LEMMA ShiftedItems ==
    ASSUME NEW q, NEW k \in {0, 1}, NEW item, NEW r, Shifted(q, k, item, r),
           Len(r) \in Nat, DOMAIN r = 1 .. Len(r)
    PROVE  \A i \in DOMAIN r :
             \/ i = Len(r) /\ r[i] = item
             \/ i \in 1 .. Len(r) - 1 /\ i + k \in DOMAIN q /\ r[i] = q[i + k]
<1> SUFFICES ASSUME NEW i \in DOMAIN r, i # Len(r)
             PROVE  i \in 1 .. Len(r) - 1 /\ i + k \in DOMAIN q /\ r[i] = q[i + k]
    BY DEF Shifted
<1>1. i \in 1 .. Len(r) - 1
    OBVIOUS
<1> QED BY <1>1 DEF Shifted

\* A full queue loses its head, and the new item is its last.
LEMMA EnqueueShifts ==
    ASSUME NEW q \in Seq(Items), NEW item \in Items, Len(q) <= QueueSize,
           NEW r, r = Channel!Enqueue(q, item)
    PROVE  /\ r \in Seq(Items) /\ Len(r) <= QueueSize
           /\ \E k \in {0, 1} : Shifted(q, k, item, r)
<1>1. CASE Len(q) < QueueSize
  <2>1. r = Append(q, item)
      BY <1>1 DEF Channel!Enqueue
  <2>2. Shifted(q, 0, item, r)
      BY <2>1 DEF Shifted
  <2> QED BY <1>1, <2>1, <2>2, PathAssumption
<1>2. CASE ~(Len(q) < QueueSize)
  <2>1. r = Append(Tail(q), item)
      BY <1>2 DEF Channel!Enqueue
  <2>2. Len(q) = QueueSize /\ Len(q) > 0 /\ q # <<>>
      BY <1>2, PathAssumption
  <2>3. Tail(q) \in Seq(Items) /\ Len(Tail(q)) = Len(q) - 1
        /\ \A i \in 1 .. Len(q) - 1 : Tail(q)[i] = q[i + 1]
      BY <2>2
  <2>4. Len(r) = Len(q) + 1 - 1
      BY <2>1, <2>2, <2>3
  <2>5. Shifted(q, 1, item, r)
      BY <2>1, <2>2, <2>3, <2>4 DEF Shifted
  <2> QED BY <2>1, <2>2, <2>3, <2>4, <2>5
<1> QED BY <1>1, <1>2

\* An item of a queue is an item, and its id a number.
LEMMA ItemType ==
    ASSUME NEW q \in Seq(Items), NEW i \in DOMAIN q
    PROVE  q[i] \in Items /\ q[i].id \in Nat
<1>1. q[i] \in Items
    OBVIOUS
<1> QED BY <1>1, PathAssumption DEF Items

\* No browser has displayed a ticket that was not emitted.
ShownEmitted ==
    \A b \in Browsers : shown[b] \subseteq Ids /\ \A id \in shown[b] : id <= Len(manifests)

\* A state block, or the ticket emitted last, is published.
LEMMA PublishKeeps ==
    ASSUME ChannelInv, ShownEmitted, NEW item \in Items, Channel!ToSubscribers(item),
           Len(manifests) \in Nat, Len(manifests') \in Nat, Len(manifests) <= Len(manifests'),
           item.id # 0 => item.id = Len(manifests') /\ Len(manifests) < item.id,
           cache' \in {cache, item} /\ cache'.id = 0,
           UNCHANGED <<wire, link, heard, shown>>
    PROVE  ChannelInv'
<1>1. /\ wire \in [Browsers -> Seq(Items)] /\ queue \in [Browsers -> Seq(Items)]
      /\ \A b \in Browsers : Len(queue[b]) <= QueueSize
    BY DEF ChannelInv, Channel!ChannelTypeOK
<1>2. \A b \in Browsers : queue'[b] = queue[b] \/ queue'[b] = Channel!Enqueue(queue[b], item)
    BY DEF Channel!ToSubscribers
<1>3. \A b \in Browsers : queue'[b] \in Seq(Items) /\ Len(queue'[b]) <= QueueSize
  <2> SUFFICES ASSUME NEW b \in Browsers
               PROVE  queue'[b] \in Seq(Items) /\ Len(queue'[b]) <= QueueSize
      OBVIOUS
  <2>0. queue[b] \in Seq(Items) /\ Len(queue[b]) <= QueueSize
      BY <1>1
  <2>1. CASE queue'[b] = queue[b]
      BY <2>0, <2>1
  <2>2. CASE queue'[b] = Channel!Enqueue(queue[b], item)
      BY <2>0, <2>2, EnqueueShifts
  <2> QED BY <1>2, <2>1, <2>2
<1>4. queue' \in [Browsers -> Seq(Items)]
    BY <1>3 DEF Channel!ToSubscribers
<1>5. Channel!ChannelTypeOK'
    BY <1>3, <1>4 DEF ChannelInv, Channel!ChannelTypeOK
<1>6. ASSUME NEW b \in Browsers PROVE InOrder(b)'
  <2> DEFINE q == queue[b]
             r == queue'[b]
  <2>0. /\ q \in Seq(Items) /\ Len(q) <= QueueSize
        /\ r \in Seq(Items) /\ DOMAIN r = 1 .. Len(r) /\ Len(r) \in Nat
      BY <1>1, <1>3
  <2>1. InOrder(b) /\ wire'[b] = wire[b] /\ shown'[b] = shown[b]
        /\ q \in Seq(Items) /\ r \in Seq(Items) /\ wire[b] \in Seq(Items)
      BY <1>1, <1>3 DEF ChannelInv
  <2>2. Emitted(wire[b])'
      BY <2>1, ItemType DEF InOrder, Emitted
  <2>3. CASE r = q
    <3>1. Emitted(queue[b])'
        BY <2>1, <2>3, ItemType DEF InOrder, Emitted
    <3> QED BY <2>1, <2>2, <2>3, <3>1 DEF InOrder, Rising, Before, After
  <2>4. CASE r = Channel!Enqueue(q, item)
    <3>1. PICK k \in {0, 1} : Shifted(q, k, item, r)
        BY <2>0, <2>4, EnqueueShifts
    <3>2. \A i \in DOMAIN r :
             \/ i = Len(r) /\ r[i] = item
             \/ i \in 1 .. Len(r) - 1 /\ i + k \in DOMAIN q /\ r[i] = q[i + k]
        BY <2>0, <3>1, ShiftedItems
    <3>3. \A i \in DOMAIN q : q[i].id \in Nat /\ (item.id # 0 => q[i].id < item.id)
        BY <2>1, ItemType DEF InOrder, Emitted
    <3>4. \A i \in DOMAIN wire[b] : wire[b][i].id \in Nat /\ (item.id # 0 => wire[b][i].id < item.id)
        BY <2>1, ItemType DEF InOrder, Emitted
    <3>5. \A id \in shown[b] : item.id # 0 => id < item.id
        BY PathAssumption DEF ShownEmitted, Ids
    <3>6. Rising(r)
      <4> SUFFICES ASSUME NEW i \in DOMAIN r, NEW j \in DOMAIN r, i < j, r[i].id # 0, r[j].id # 0
                   PROVE  r[i].id < r[j].id
          BY DEF Rising
      <4>1. i \in 1 .. Len(r) - 1 /\ i + k \in DOMAIN q /\ r[i] = q[i + k] /\ k \in {0, 1}
          BY <2>0, <3>2
      <4>2. CASE r[j] = item
          BY <3>3, <4>1, <4>2
      <4>3. CASE j + k \in DOMAIN q /\ r[j] = q[j + k]
        <5>1. i + k < j + k
            BY <2>0, <4>1
        <5> QED BY <2>1, <4>1, <4>3, <5>1 DEF InOrder, Rising
      <4> QED BY <3>2, <4>2, <4>3
    <3>7. Before(wire[b], r)
        BY <2>1, <3>2, <3>4 DEF InOrder, Before
    <3>8. After(shown[b], r)
        BY <2>1, <3>2, <3>5 DEF InOrder, After
    <3>9. \A i \in DOMAIN r : r[i].id <= Len(manifests')
        BY <2>1, <3>2, <3>3, SMTT(30) DEF InOrder, Emitted
    <3> QED BY <2>1, <2>2, <3>6, <3>7, <3>8, <3>9 DEF InOrder, Rising, Before, After, Emitted
  <2> QED BY <1>2, <2>3, <2>4
<1> QED BY <1>5, <1>6 DEF ChannelInv

\* Nothing, or one state block, is in order behind anything.
LEMMA BlockInOrder ==
    ASSUME NEW q, q = <<>> \/ (q = <<cache>> /\ cache.id = 0), NEW ids, NEW r,
           Len(manifests) \in Nat
    PROVE  Rising(q) /\ Before(r, q) /\ After(ids, q) /\ Emitted(q)
<1>1. \A i \in DOMAIN q : i = 1 /\ q[i].id = 0
    OBVIOUS
<1> QED BY <1>1 DEF Rising, Before, After, Emitted

\* The head of the queue is handed over, behind what was.
LEMMA YieldKeeps ==
    ASSUME ChannelInv, NEW b \in Browsers, Channel!Yield(b), UNCHANGED <<manifests, shown>>
    PROVE  ChannelInv'
<1> DEFINE q == queue[b]
           w == wire[b]
<1>1. /\ q \in Seq(Items) /\ w \in Seq(Items) /\ q # <<>> /\ Len(w) < WireSize
      /\ Len(q) \in Nat \ {0} /\ Len(w) \in Nat /\ Len(q) <= QueueSize
      /\ queue \in [Browsers -> Seq(Items)] /\ wire \in [Browsers -> Seq(Items)]
      /\ wire' = [wire EXCEPT ![b] = Append(w, Head(q))] /\ queue' = [queue EXCEPT ![b] = Tail(q)]
      /\ UNCHANGED <<cache, link, heard>>
    BY DEF ChannelInv, Channel!ChannelTypeOK, Channel!Yield
<1>2. /\ Head(q) = q[1] /\ q[1] \in Items
      /\ Tail(q) \in Seq(Items) /\ Len(Tail(q)) = Len(q) - 1
      /\ \A i \in DOMAIN Tail(q) : i + 1 \in DOMAIN q /\ Tail(q)[i] = q[i + 1] /\ i + 1 > 1
    BY <1>1
<1>3. /\ Append(w, q[1]) \in Seq(Items) /\ Len(Append(w, q[1])) = Len(w) + 1
      /\ \A i \in DOMAIN Append(w, q[1]) :
           \/ i \in DOMAIN w /\ Append(w, q[1])[i] = w[i]
           \/ i = Len(w) + 1 /\ Append(w, q[1])[i] = q[1]
      /\ \A i \in DOMAIN w : i < Len(w) + 1
    BY <1>1, <1>2
<1>4. queue'[b] = Tail(q) /\ wire'[b] = Append(w, q[1])
      /\ \A c \in Browsers \ {b} : queue'[c] = queue[c] /\ wire'[c] = wire[c]
    BY <1>1, <1>2
<1>5. Channel!ChannelTypeOK'
  <2>1. queue' \in [Browsers -> Seq(Items)] /\ wire' \in [Browsers -> Seq(Items)]
      BY <1>1, <1>2, <1>3
  <2>2. \A c \in Browsers : Len(queue'[c]) <= QueueSize /\ Len(wire'[c]) <= WireSize
      BY <1>1, <1>2, <1>3, <1>4, PathAssumption DEF ChannelInv, Channel!ChannelTypeOK
  <2> QED BY <1>1, <2>1, <2>2 DEF ChannelInv, Channel!ChannelTypeOK
<1>6. InOrder(b)'
  <2>1. InOrder(b) /\ 1 \in DOMAIN q
      BY <1>1 DEF ChannelInv
  <2> DEFINE v == Append(w, q[1])
             r == Tail(q)
  <2> HIDE DEF v, r
  <2>2. \A i \in DOMAIN v : (i \in DOMAIN w /\ v[i] = w[i]) \/ (i = Len(w) + 1 /\ v[i] = q[1])
      BY <1>3 DEF v
  <2>3. \A i \in DOMAIN r : i + 1 \in DOMAIN q /\ r[i] = q[i + 1] /\ i \in Nat /\ i + 1 > 1
      BY <1>1, <1>2 DEF r
  <2>4. Rising(v)
    <3> SUFFICES ASSUME NEW i \in DOMAIN v, NEW j \in DOMAIN v, i < j, v[i].id # 0, v[j].id # 0
                 PROVE  v[i].id < v[j].id
        BY DEF Rising
    <3>0. i \in 1 .. Len(w) + 1 /\ j \in 1 .. Len(w) + 1
        BY <1>1, <2>2
    <3>1. i \in DOMAIN w /\ v[i] = w[i]
        BY <1>1, <2>2, <3>0
    <3> QED BY <2>1, <2>2, <3>1 DEF InOrder, Rising, Before
  <2>5. Rising(r)
    <3> SUFFICES ASSUME NEW i \in DOMAIN r, NEW j \in DOMAIN r, i < j, r[i].id # 0, r[j].id # 0
                 PROVE  r[i].id < r[j].id
        BY DEF Rising
    <3>1. i + 1 < j + 1
        BY <2>3
    <3> QED BY <2>1, <2>3, <3>1 DEF InOrder, Rising
  <2>6. Before(v, r)
    <3> SUFFICES ASSUME NEW i \in DOMAIN v, NEW j \in DOMAIN r, v[i].id # 0, r[j].id # 0
                 PROVE  v[i].id < r[j].id
        BY DEF Before
    <3> QED BY <2>1, <2>2, <2>3 DEF InOrder, Rising, Before
  <2>7. After(shown[b], v) /\ After(shown[b], r) /\ Emitted(v) /\ Emitted(r)
      BY <2>1, <2>2, <2>3 DEF InOrder, After, Emitted
  <2>8. wire'[b] = v /\ queue'[b] = r
      BY <1>4 DEF v, r
  <2> QED BY <2>4, <2>5, <2>6, <2>7, <2>8 DEF InOrder, Rising, Before, After, Emitted
<1>7. ASSUME NEW c \in Browsers \ {b} PROVE InOrder(c)'
    BY <1>4 DEF ChannelInv, InOrder, Rising, Before, After, Emitted
<1> QED BY <1>1, <1>5, <1>6, <1>7 DEF ChannelInv

\* The ticket that a browser takes next is one that it has not displayed.
LEMMA HeadIsNew ==
    ASSUME ChannelInv, NEW b \in Browsers, NEW item \in Items, Channel!Handle(b, item), item.id # 0
    PROVE  item.id \notin shown[b] /\ item.id \in 1 .. Len(manifests)
<1>1. wire[b] \in Seq(Items) /\ wire[b] # <<>> /\ item = Head(wire[b]) /\ InOrder(b)
    BY DEF ChannelInv, Channel!ChannelTypeOK, Channel!Handle
<1>2. 1 \in DOMAIN wire[b] /\ item = wire[b][1] /\ item.id \in Nat
    BY <1>1, PathAssumption DEF Items
<1>3. \A id \in shown[b] : id < item.id
    BY <1>1, <1>2 DEF InOrder, After
<1>4. item.id <= Len(manifests)
    BY <1>1, <1>2 DEF InOrder, Emitted
<1> QED BY <1>2, <1>3, <1>4

\* What is behind the item handled comes after it, displayed or not.
LEMMA HandleKeeps ==
    ASSUME ChannelInv, NEW b \in Browsers, NEW item \in Items, Channel!Handle(b, item),
           UNCHANGED manifests, \A c \in Browsers \ {b} : shown'[c] = shown[c],
           \/ shown'[b] = shown[b]
           \/ item.id # 0 /\ shown'[b] = shown[b] \cup {item.id}
    PROVE  ChannelInv'
<1> DEFINE w == wire[b]
<1>1. /\ w \in Seq(Items) /\ w # <<>> /\ item = Head(w) /\ InOrder(b)
      /\ wire \in [Browsers -> Seq(Items)] /\ wire' = [wire EXCEPT ![b] = Tail(w)]
      /\ UNCHANGED <<cache, queue, link>>
    BY DEF ChannelInv, Channel!ChannelTypeOK, Channel!Handle
<1>2. /\ Tail(w) \in Seq(Items) /\ Len(Tail(w)) = Len(w) - 1 /\ Len(w) \in Nat
      /\ \A i \in DOMAIN Tail(w) : i + 1 \in DOMAIN w /\ Tail(w)[i] = w[i + 1] /\ i \in Nat /\ i + 1 > 1
      /\ 1 \in DOMAIN w /\ item = w[1]
    BY <1>1
<1>3. wire'[b] = Tail(w) /\ queue' = queue /\ \A c \in Browsers \ {b} : wire'[c] = wire[c]
    BY <1>1
<1>4. Channel!ChannelTypeOK'
  <2>1. wire' \in [Browsers -> Seq(Items)]
      BY <1>1, <1>2
  <2>2. \A c \in Browsers : Len(wire'[c]) <= WireSize
      BY <1>2, <1>3, PathAssumption DEF ChannelInv, Channel!ChannelTypeOK
  <2>3. heard' \in [Browsers -> BOOLEAN]
    <3>1. heard \in [Browsers -> BOOLEAN] /\ heard' = [heard EXCEPT ![b] = heard[b] \/ item.id = 0]
        BY DEF ChannelInv, Channel!ChannelTypeOK, Channel!Handle
    <3> QED BY <3>1, ZenonT(30)
  <2> QED BY <1>1, <2>1, <2>2, <2>3 DEF ChannelInv, Channel!ChannelTypeOK
<1>5. InOrder(b)'
  <2> DEFINE v == Tail(w)
  <2> HIDE DEF v
  <2>1. \A i \in DOMAIN v : i + 1 \in DOMAIN w /\ v[i] = w[i + 1] /\ i \in Nat /\ i + 1 > 1
      BY <1>2 DEF v
  <2>2. Rising(v)
    <3> SUFFICES ASSUME NEW i \in DOMAIN v, NEW j \in DOMAIN v, i < j, v[i].id # 0, v[j].id # 0
                 PROVE  v[i].id < v[j].id
        BY DEF Rising
    <3>1. i + 1 < j + 1
        BY <2>1
    <3> QED BY <1>1, <2>1, <3>1 DEF InOrder, Rising
  <2>3. Before(v, queue[b]) /\ Emitted(v) /\ After(shown[b], v)
      BY <1>1, <2>1 DEF InOrder, Before, Emitted, After
  <2>4. item.id # 0 => After({item.id}, v) /\ After({item.id}, queue[b])
      BY <1>1, <1>2, <2>1 DEF InOrder, Rising, Before, After
  <2>5. After(shown'[b], v) /\ After(shown'[b], queue[b])
      BY <1>1, <2>3, <2>4 DEF InOrder, After
  <2>6. wire'[b] = v /\ queue'[b] = queue[b] /\ manifests' = manifests
      BY <1>3 DEF v
  <2> QED BY <1>1, <2>2, <2>3, <2>5, <2>6 DEF InOrder, Rising, Before, After, Emitted
<1>6. ASSUME NEW c \in Browsers \ {b} PROVE InOrder(c)'
    BY <1>3 DEF ChannelInv, InOrder, Rising, Before, After, Emitted
<1> QED BY <1>1, <1>4, <1>5, <1>6 DEF ChannelInv

\* Items are lost, and a new connection begins with the block cached.
LEMMA LossKeeps ==
    ASSUME ChannelInv, UNCHANGED <<manifests, shown>>, Len(manifests) \in Nat,
           cache' \in {cache, NoItem},
           queue' \in [Browsers -> Seq(Items)], wire' \in [Browsers -> Seq(Items)],
           link' \in [Browsers -> Channel!Links], heard' \in [Browsers -> BOOLEAN],
           \A b \in Browsers :
             \/ queue'[b] = queue[b] /\ wire'[b] = wire[b]
             \/ queue'[b] = <<>> /\ wire'[b] \in {wire[b], <<>>}
             \/ queue'[b] = <<cache>> /\ wire'[b] = <<>>
    PROVE  ChannelInv'
<1>1. Channel!ChannelTypeOK'
  <2>1. QueueSize \in Nat \ {0} /\ WireSize \in Nat \ {0}
      BY PathAssumption
  <2>2. \A b \in Browsers : Len(queue[b]) <= QueueSize /\ Len(wire[b]) <= WireSize
      BY DEF ChannelInv, Channel!ChannelTypeOK
  <2>3. Len(<<>>) = 0 /\ Len(<<cache>>) = 1
      OBVIOUS
  <2>4. ASSUME NEW b \in Browsers PROVE Len(queue'[b]) <= QueueSize
    <3>1. CASE queue'[b] = <<cache>>
        BY <2>1, <2>3, <3>1
    <3>2. CASE queue'[b] \in {<<>>, queue[b]}
        BY <2>1, <2>2, <2>3, <3>2
    <3> QED BY <2>4, <3>1, <3>2
  <2>5. \A b \in Browsers : Len(wire'[b]) <= WireSize
      BY <2>1, <2>2, <2>3
  <2>6. cache' \in Items \cup {NoItem}
      BY DEF ChannelInv, Channel!ChannelTypeOK
  <2> QED BY <2>4, <2>5, <2>6 DEF Channel!ChannelTypeOK
<1>2. ASSUME NEW b \in Browsers PROVE InOrder(b)'
  <2>1. InOrder(b) /\ cache.id = 0
      BY <1>2 DEF ChannelInv
  <2>2. CASE queue'[b] = queue[b] /\ wire'[b] = wire[b]
      BY <2>1, <2>2 DEF InOrder, Rising, Before, After, Emitted
  <2>3. CASE queue'[b] = <<>> /\ wire'[b] \in {wire[b], <<>>}
      BY <2>1, <2>3 DEF InOrder, Rising, Before, After, Emitted
  <2>4. CASE queue'[b] = <<cache>> /\ wire'[b] = <<>>
    <3>1. Rising(<<cache>>) /\ After(shown[b], <<cache>>) /\ Emitted(<<cache>>)
        BY <2>1, BlockInOrder
    <3> QED BY <2>1, <2>4, <3>1 DEF InOrder, Rising, Before, After, Emitted
  <2> QED BY <1>2, <2>2, <2>3, <2>4
<1>3. cache'.id = 0
    BY DEF ChannelInv, NoItem
<1> QED BY <1>1, <1>2, <1>3 DEF ChannelInv

\* A new connection begins with at most the block cached.
LEMMA SubscribeKeeps ==
    ASSUME ChannelInv, NEW b \in Browsers, Channel!Subscribe(b),
           heard' = heard \/ heard' = [heard EXCEPT ![b] = FALSE],
           UNCHANGED <<manifests, shown>>, Len(manifests) \in Nat
    PROVE  ChannelInv'
<1>1. /\ queue \in [Browsers -> Seq(Items)] /\ wire \in [Browsers -> Seq(Items)]
      /\ link \in [Browsers -> Channel!Links] /\ heard \in [Browsers -> BOOLEAN]
      /\ cache \in Items \cup {NoItem} /\ cache' = cache
    BY DEF ChannelInv, Channel!ChannelTypeOK, Channel!Subscribe
<1> DEFINE q == IF cache = NoItem THEN <<>> ELSE <<cache>>
<1>2. queue' = [queue EXCEPT ![b] = q] /\ wire' = [wire EXCEPT ![b] = <<>>]
      /\ link' = [link EXCEPT ![b] = "open"]
    BY DEF Channel!Subscribe
<1>3. q \in Seq(Items) /\ q \in {<<>>, <<cache>>} /\ "open" \in Channel!Links
    BY <1>1 DEF Channel!Links
<1>4. /\ queue' \in [Browsers -> Seq(Items)] /\ wire' \in [Browsers -> Seq(Items)]
      /\ link' \in [Browsers -> Channel!Links]
    BY <1>1, <1>2, <1>3
<1>6. heard' \in [Browsers -> BOOLEAN]
    BY <1>1, ZenonT(30)
<1>5. \A c \in Browsers :
        \/ queue'[c] = queue[c] /\ wire'[c] = wire[c]
        \/ queue'[c] \in {<<>>, <<cache>>} /\ wire'[c] = <<>>
    BY <1>1, <1>2, <1>3
<1> QED BY <1>1, <1>4, <1>5, <1>6, LossKeeps

\* An error, a hang and a restart of the backend.
LEMMA BreakKeeps ==
    ASSUME ChannelInv, NEW b \in Browsers, Channel!Break(b) \/ Channel!Hang(b),
           UNCHANGED <<manifests, shown>>, Len(manifests) \in Nat
    PROVE  ChannelInv'
<1>1. /\ queue \in [Browsers -> Seq(Items)] /\ wire \in [Browsers -> Seq(Items)]
      /\ link \in [Browsers -> Channel!Links] /\ heard \in [Browsers -> BOOLEAN]
    BY DEF ChannelInv, Channel!ChannelTypeOK
<1>2. /\ queue' = [queue EXCEPT ![b] = <<>>]
      /\ wire' = wire \/ wire' = [wire EXCEPT ![b] = <<>>]
      /\ \E l \in Channel!Links : link' = [link EXCEPT ![b] = l]
      /\ UNCHANGED <<cache, heard>>
    BY DEF Channel!Break, Channel!Hang, Channel!Links
<1>3. \A c \in Browsers :
        \/ queue'[c] = queue[c] /\ wire'[c] = wire[c]
        \/ queue'[c] = <<>> /\ wire'[c] \in {wire[c], <<>>}
    BY <1>1, <1>2
<1>4. queue' \in [Browsers -> Seq(Items)] /\ wire' \in [Browsers -> Seq(Items)]
  <2>1. <<>> \in Seq(Items)
      OBVIOUS
  <2>2. queue' \in [Browsers -> Seq(Items)]
      BY <1>1, <1>2, <2>1
  <2>3. CASE wire' = wire
      BY <1>1, <2>2, <2>3
  <2>4. CASE wire' = [wire EXCEPT ![b] = <<>>]
      BY <1>1, <2>1, <2>2, <2>4
  <2> QED BY <1>2, <2>3, <2>4
<1>5. link' \in [Browsers -> Channel!Links]
    BY <1>1, <1>2
<1> QED BY <1>1, <1>2, <1>3, <1>4, <1>5, LossKeeps

\* A restart of the backend empties its queues.
LEMMA ChannelRestartKeeps ==
    ASSUME ChannelInv, Channel!ChannelRestart,
           UNCHANGED <<manifests, shown>>, Len(manifests) \in Nat
    PROVE  ChannelInv'
<1>1. /\ queue \in [Browsers -> Seq(Items)] /\ wire \in [Browsers -> Seq(Items)]
      /\ link \in [Browsers -> Channel!Links] /\ heard \in [Browsers -> BOOLEAN]
    BY DEF ChannelInv, Channel!ChannelTypeOK
<1>2. link' \in [Browsers -> Channel!Links]
    BY DEF Channel!ChannelRestart, Channel!Links
<1>3. wire' = [b \in Browsers |-> IF link'[b] = "hung" THEN wire[b] ELSE <<>>]
      /\ queue' = [b \in Browsers |-> <<>>] /\ cache' = NoItem /\ heard' = heard
    BY DEF Channel!ChannelRestart
<1>4. \A b \in Browsers : queue'[b] = <<>> /\ wire'[b] \in {wire[b], <<>>}
    BY <1>3
<1>5. queue' \in [Browsers -> Seq(Items)] /\ wire' \in [Browsers -> Seq(Items)]
    BY <1>1, <1>3
<1> QED BY <1>1, <1>2, <1>3, <1>4, <1>5, LossKeeps

\* What is on its way stays in order while nothing is displayed or emitted.
LEMMA ChannelUnchanged ==
    ASSUME ChannelInv, UNCHANGED channelVars, UNCHANGED <<manifests, shown>>
    PROVE  ChannelInv'
BY DEF ChannelInv, Channel!ChannelTypeOK, InOrder, Rising, Before, After, Emitted, channelVars

-----------------------------------------------------------------------------
(* The alert                                                               *)

\* The journal holds an outcome of ticket id by browser b.
Answered(b, id) == \E i \in DOMAIN journal : journal[i].by = b /\ journal[i].id = id

\* A browser has one request at most for a ticket, which it has displayed; a
\* request on its way is the first, and an ACK was given in time.
RequestsSound(b) ==
    /\ \A p, q \in posts[b] : p.id = q.id => p = q
    /\ \A p \in posts[b] :
         /\ p.id \in shown[b]
         /\ p.outcome = "ACK" => p.reaction \in 0 .. TTL - 1
         /\ p.server = "pending" => ~Answered(b, p.id)

\* An alert on display was displayed in the past; one that may still be settled
\* has no request and no outcome.
AlertSound(b) ==
    alert[b] # Alert!NoAlert =>
        /\ alert[b].id \in shown[b] /\ alert[b].at <= now
        /\ alert[b].status = "ARMED" =>
             ~Answered(b, alert[b].id) /\ \A p \in posts[b] : p.id # alert[b].id

JournalSound == \A i \in DOMAIN journal : journal[i].id \in shown[journal[i].by]

AlertInv ==
    /\ Alert!AlertTypeOK
    /\ \A b \in Browsers : RequestsSound(b) /\ AlertSound(b)
    /\ JournalSound /\ AckInTime

\* The alert of a browser is none, or a ticket.
LEMMA AlertType ==
    ASSUME Alert!AlertTypeOK, NEW b \in Browsers
    PROVE  /\ alert[b] = Alert!NoAlert \/ alert[b] \in Alert!Alerts
           /\ alert[b].id = 0 <=> alert[b] = Alert!NoAlert
           /\ alert[b].status \in {"ARMED", "LOCKED", "FAILED"} => alert[b] \in Alert!Alerts
           /\ alert[b] \in Alert!Alerts => alert[b].id \in Ids /\ alert[b].at \in Times
<1>1. alert[b] \in Alert!Alerts \cup {Alert!NoAlert}
    BY DEF Alert!AlertTypeOK
<1>2. alert[b] \in Alert!Alerts => alert[b].id \in Ids /\ alert[b].at \in Times /\ alert[b].id # 0
    BY PathAssumption DEF Alert!Alerts, Ids
<1>3. Alert!NoAlert.id = 0 /\ Alert!NoAlert.status = "NONE"
    BY DEF Alert!NoAlert
<1> QED BY <1>1, <1>2, <1>3

\* A request of a browser.
LEMMA PostType ==
    ASSUME Alert!AlertTypeOK, NEW b \in Browsers, NEW p \in posts[b]
    PROVE  /\ p \in Alert!Posts /\ p.id \in Ids /\ p.outcome \in Alert!Outcomes
           /\ p.reaction \in Alert!Reactions /\ p.waiting \in BOOLEAN
           /\ p.server \in {"pending", "stored", "refused"}
<1>1. p \in Alert!Posts
    BY DEF Alert!AlertTypeOK
<1> QED BY <1>1 DEF Alert!Posts

\* An instant of the backend and a clock's offset.
LEMMA OffsetType ==
    ASSUME NEW x \in Times, NEW y \in Times
    PROVE  x - (y + Skew) \in Alert!Offsets
BY PathAssumption DEF Alert!Offsets, Times

\* A page starts with no alert, no request and an empty journal.
LEMMA AlertInitially == Alert!AlertInit /\ Len(manifests) \in Nat => AlertInv
<1> SUFFICES ASSUME Alert!AlertInit PROVE AlertInv
    OBVIOUS
<1>1. Alert!AlertTypeOK
    BY DEF Alert!AlertInit, Alert!AlertTypeOK, Alert!Offsets
<1> QED BY <1>1 DEF AlertInv, RequestsSound, AlertSound, JournalSound, AckInTime, Alert!AckInTime,
                    Alert!AlertInit

\* Time passes, tickets are emitted, connections come and go.
LEMMA AlertUnchanged ==
    ASSUME AlertInv, UNCHANGED alertVars, now \in Nat, now' \in Nat, now <= now'
    PROVE  AlertInv'
<1>1. Alert!AlertTypeOK'
    BY DEF AlertInv, Alert!AlertTypeOK, alertVars
<1>2. \A b \in Browsers : alert[b] # Alert!NoAlert => alert[b].at \in Nat
    BY AlertType, PathAssumption DEF AlertInv, Times
<1> QED BY <1>1, <1>2 DEF AlertInv, RequestsSound, AlertSound, JournalSound, AckInTime,
                         Alert!AckInTime, Answered, alertVars

\* A state block: the offset changes, no alert does.
LEMMA IdentityKeeps ==
    ASSUME AlertInv, NEW b \in Browsers, NEW ts \in Times, now \in Times, now' = now,
           Alert!ApplyIdentity(b, ts, now)
    PROVE  AlertInv'
<1>1. Alert!AlertTypeOK'
  <2>1. ts - (now + Skew) \in Alert!Offsets
      BY OffsetType
  <2> QED BY <2>1 DEF AlertInv, Alert!AlertTypeOK, Alert!ApplyIdentity
<1> QED BY <1>1 DEF AlertInv, RequestsSound, AlertSound, JournalSound, AckInTime,
                    Alert!AckInTime, Answered, Alert!ApplyIdentity

\* A ticket that was never displayed: displayed, or dropped.
LEMMA PushKeeps ==
    ASSUME AlertInv, NEW b \in Browsers, NEW item \in Items, now \in Times, now' = now,
           item.id \in Ids, item.id \notin shown[b], Alert!Push(b, item, now)
    PROVE  AlertInv'
<1> DEFINE new == [id |-> item.id, ts |-> item.ts, at |-> now, status |-> "ARMED"]
<1>1. CASE Alert!Admits(b, item, now)
  <2>1. /\ alert' = [alert EXCEPT ![b] = new] /\ shown' = [shown EXCEPT ![b] = shown[b] \cup {item.id}]
        /\ UNCHANGED <<identity, offset, posts, journal>>
      BY <1>1 DEF Alert!Push
  <2>2. new \in Alert!Alerts
      BY DEF Alert!Alerts, Items
  <2>3. Alert!AlertTypeOK'
      BY <2>1, <2>2 DEF AlertInv, Alert!AlertTypeOK
  <2>4. /\ alert'[b] = new /\ shown'[b] = shown[b] \cup {item.id}
        /\ \A c \in Browsers \ {b} : alert'[c] = alert[c] /\ shown'[c] = shown[c]
        /\ \A c \in Browsers : shown[c] \subseteq shown'[c]
      BY <2>1 DEF AlertInv, Alert!AlertTypeOK
  <2>5. \A p \in posts[b] : p.id # item.id
      BY DEF AlertInv, RequestsSound
  <2>6. ~Answered(b, item.id)
      BY DEF AlertInv, JournalSound, Answered
  <2>7. \A c \in Browsers : RequestsSound(c)'
      BY <2>1, <2>4 DEF AlertInv, RequestsSound, Answered
  <2>8. AlertSound(b)'
      BY <2>1, <2>4, <2>5, <2>6, PathAssumption DEF AlertSound, Answered, Times
  <2>9. \A c \in Browsers \ {b} : AlertSound(c)'
      BY <2>1, <2>4 DEF AlertInv, AlertSound, Answered
  <2>10. JournalSound'
    <3> SUFFICES ASSUME NEW i \in DOMAIN journal PROVE journal[i].id \in shown'[journal[i].by]
        BY <2>1 DEF JournalSound
    <3>1. journal[i] \in Alert!Entries
        BY DEF AlertInv, Alert!AlertTypeOK
    <3>2. journal[i].by \in Browsers
        BY <3>1 DEF Alert!Entries
    <3> QED BY <2>4, <3>2 DEF AlertInv, JournalSound
  <2>11. AckInTime'
      BY <2>1 DEF AlertInv, AckInTime, Alert!AckInTime
  <2> QED BY <2>3, <2>7, <2>8, <2>9, <2>10, <2>11 DEF AlertInv
<1>2. CASE ~Alert!Admits(b, item, now)
  <2>1. UNCHANGED alertVars
      BY <1>2 DEF Alert!Push, alertVars
  <2> QED BY <2>1, AlertUnchanged, PathAssumption DEF Times
<1> QED BY <1>1, <1>2

\* An alert is taken down.
LEMMA ClearKeeps ==
    ASSUME AlertInv, NEW b \in Browsers, alert' = [alert EXCEPT ![b] = Alert!NoAlert],
           UNCHANGED <<now, identity, offset, shown, posts, journal>>
    PROVE  AlertInv'
<1>1. Alert!AlertTypeOK'
    BY DEF AlertInv, Alert!AlertTypeOK
<1>2. \A c \in Browsers : alert'[c] \in {alert[c], Alert!NoAlert}
    BY DEF AlertInv, Alert!AlertTypeOK
<1> QED BY <1>1, <1>2 DEF AlertInv, RequestsSound, AlertSound, JournalSound, AckInTime,
                         Alert!AckInTime, Answered

\* The operator or the deadline settles an alert: one request leaves, and the
\* alert can be settled no more.
LEMMA SettleKeeps ==
    ASSUME AlertInv, NEW b \in Browsers, alert[b].status = "ARMED",
           NEW outcome \in Alert!Outcomes, NEW reaction \in Alert!Reactions,
           outcome = "ACK" => reaction \in 0 .. TTL - 1,
           Alert!Journalize(b, outcome, reaction),
           \/ alert' = [alert EXCEPT ![b] = Alert!NoAlert]
           \/ alert' = [alert EXCEPT ![b].status = "LOCKED"],
           UNCHANGED <<now, identity, offset, shown, journal>>
    PROVE  AlertInv'
<1> DEFINE id  == alert[b].id
           new == [id |-> id, outcome |-> outcome, reaction |-> reaction,
                   waiting |-> TRUE, server |-> "pending"]
<1>1. /\ alert[b] \in Alert!Alerts /\ id \in Ids /\ alert[b] # Alert!NoAlert
      /\ id \in shown[b] /\ ~Answered(b, id) /\ \A p \in posts[b] : p.id # id
    BY AlertType DEF AlertInv, AlertSound, Alert!NoAlert
<1>2. /\ posts' = [posts EXCEPT ![b] = posts[b] \cup {new}] /\ posts'[b] = posts[b] \cup {new}
      /\ \A c \in Browsers \ {b} : posts'[c] = posts[c]
    BY DEF AlertInv, Alert!AlertTypeOK, Alert!Journalize
<1>3. /\ alert'[b] = Alert!NoAlert \/ alert'[b] = [alert[b] EXCEPT !.status = "LOCKED"]
      /\ \A c \in Browsers \ {b} : alert'[c] = alert[c]
      /\ alert' \in [Browsers -> Alert!Alerts \cup {Alert!NoAlert}]
  <2>1. [alert[b] EXCEPT !.status = "LOCKED"] \in Alert!Alerts
      BY <1>1 DEF Alert!Alerts
  <2> QED BY <2>1 DEF AlertInv, Alert!AlertTypeOK
<1>4. Alert!AlertTypeOK'
  <2>1. new \in Alert!Posts
      BY <1>1 DEF Alert!Posts
  <2> QED BY <1>2, <1>3, <2>1 DEF AlertInv, Alert!AlertTypeOK
<1>5. RequestsSound(b)'
  <2>1. /\ new.id = id /\ new.outcome = outcome /\ new.reaction = reaction
      OBVIOUS
  <2> HIDE DEF new, id
  <2>2. RequestsSound(b) /\ UNCHANGED <<shown, journal>>
      BY DEF AlertInv
  <2>3. \A p, q \in posts'[b] : p.id = q.id => p = q
      BY <1>1, <1>2, <2>1, <2>2 DEF RequestsSound
  <2>4. \A c, t : Answered(c, t)' <=> Answered(c, t)
      BY <2>2 DEF Answered
  <2>5. ASSUME NEW p \in posts'[b]
        PROVE  /\ p.id \in shown[b]
               /\ p.outcome = "ACK" => p.reaction \in 0 .. TTL - 1
               /\ p.server = "pending" => ~Answered(b, p.id)
    <3>1. CASE p = new
        BY <1>1, <2>1, <3>1
    <3>2. CASE p \in posts[b]
        BY <2>2, <3>2 DEF RequestsSound
    <3> QED BY <1>2, <2>5, <3>1, <3>2
  <2> QED BY <2>2, <2>3, <2>4, <2>5 DEF RequestsSound
<1>6. AlertSound(b)'
  <2>1. CASE alert'[b] = Alert!NoAlert
      BY <2>1 DEF AlertSound
  <2>2. CASE alert'[b] = [alert[b] EXCEPT !.status = "LOCKED"]
    <3>1. alert'[b].id = id /\ alert'[b].at = alert[b].at /\ alert'[b].status = "LOCKED"
        BY <1>1, <2>2 DEF Alert!Alerts
    <3> QED BY <1>1, <3>1 DEF AlertInv, AlertSound
  <2> QED BY <1>3, <2>1, <2>2
<1>7. ASSUME NEW c \in Browsers \ {b} PROVE RequestsSound(c)' /\ AlertSound(c)'
    BY <1>2, <1>3 DEF AlertInv, RequestsSound, AlertSound, Answered
<1>8. JournalSound' /\ AckInTime'
    BY DEF AlertInv, JournalSound, AckInTime, Alert!AckInTime
<1> QED BY <1>4, <1>5, <1>6, <1>7, <1>8 DEF AlertInv

\* A request p becomes q: another stage of the same request ...
Turns(b, p, q) ==
    /\ q \in Alert!Posts /\ q.id = p.id /\ q.outcome = p.outcome /\ q.reaction = p.reaction
    /\ posts' = [posts EXCEPT ![b] = Alert!Becomes(posts[b], p, q)]

\* ... and the others stay.
OthersStay(b, p, q) ==
    /\ posts' \in [Browsers -> SUBSET Alert!Posts]
    /\ \A c \in Browsers \ {b} : posts'[c] = posts[c]
    /\ \A r \in posts'[b] : r = q \/ (r \in posts[b] /\ r.id # p.id)
    /\ \A r, s \in posts'[b] : r.id = s.id => r = s

\* When a request changes, the browser still has one at most for each ticket.
LEMMA RequestAfter ==
    ASSUME AlertInv, NEW b \in Browsers, NEW p \in posts[b], NEW q, Turns(b, p, q)
    PROVE  OthersStay(b, p, q)
<1> USE DEF Turns
<1>1. posts'[b] = Alert!Becomes(posts[b], p, q) /\ \A c \in Browsers \ {b} : posts'[c] = posts[c]
    BY DEF AlertInv, Alert!AlertTypeOK
<1>2. \A r \in Alert!Becomes(posts[b], p, q) : r = q \/ (r \in posts[b] /\ r # p)
    BY DEF Alert!Becomes
<1>3. Alert!Becomes(posts[b], p, q) \in SUBSET Alert!Posts
    BY <1>2 DEF AlertInv, Alert!AlertTypeOK
<1>4. \A r, s \in posts[b] : r.id = s.id => r = s
    BY DEF AlertInv, RequestsSound
<1>5. posts' \in [Browsers -> SUBSET Alert!Posts]
    BY <1>3 DEF AlertInv, Alert!AlertTypeOK
<1>6. \A r \in posts'[b] : r = q \/ (r \in posts[b] /\ r.id # p.id)
    BY <1>1, <1>2, <1>4
<1> QED BY <1>1, <1>4, <1>5, <1>6 DEF OthersStay

\* The endpoint has an outcome: it is the first of its ticket.
LEMMA StoreKeeps ==
    ASSUME AlertInv, NEW b \in Browsers, NEW p \in posts[b], Alert!Store(b, p), now' = now
    PROVE  AlertInv'
<1> DEFINE q == [p EXCEPT !.server = IF Alert!Accepted(p) THEN "stored" ELSE "refused"]
           entry == [id |-> p.id, by |-> b, outcome |-> p.outcome, reaction |-> p.reaction]
<1>1. /\ p \in Alert!Posts /\ p.id \in Ids /\ p.id \in shown[b] /\ p.server = "pending"
      /\ p.outcome = "ACK" => p.reaction \in 0 .. TTL - 1
      /\ UNCHANGED <<identity, offset, alert, shown>>
    BY PostType DEF AlertInv, RequestsSound, Alert!Store
<1>2. q \in Alert!Posts /\ q.id = p.id /\ q.outcome = p.outcome /\ q.reaction = p.reaction
      /\ q.server # "pending"
    BY <1>1 DEF Alert!Posts
<1>3. posts' = [posts EXCEPT ![b] = Alert!Becomes(posts[b], p, q)]
    BY DEF Alert!Store
<1> HIDE DEF q
<1>4. /\ posts' \in [Browsers -> SUBSET Alert!Posts]
      /\ \A c \in Browsers \ {b} : posts'[c] = posts[c]
      /\ \A r \in posts'[b] : r = q \/ (r \in posts[b] /\ r.id # p.id)
      /\ \A r, s \in posts'[b] : r.id = s.id => r = s
  <2>1. Turns(b, p, q)
      BY <1>2, <1>3 DEF Turns
  <2> QED BY <2>1, RequestAfter DEF OthersStay
<1>5. entry \in Alert!Entries
    BY <1>1 DEF Alert!Entries, Alert!Posts
<1>6. journal \in Seq(Alert!Entries) /\ journal' \in {journal, Append(journal, entry)}
    BY DEF AlertInv, Alert!AlertTypeOK, Alert!Store
<1>7. Alert!AlertTypeOK'
    BY <1>1, <1>4, <1>5, <1>6 DEF AlertInv, Alert!AlertTypeOK
<1>8. \A i \in DOMAIN journal' : (i \in DOMAIN journal /\ journal'[i] = journal[i]) \/ journal'[i] = entry
    BY <1>6
<1>9. \A c \in Browsers, id \in Ids :
         Answered(c, id)' => Answered(c, id) \/ (c = b /\ id = p.id)
    BY <1>8 DEF Answered
<1>10. RequestsSound(b)'
  <2> SUFFICES ASSUME NEW r \in posts'[b]
               PROVE  /\ r.id \in shown[b]
                      /\ r.outcome = "ACK" => r.reaction \in 0 .. TTL - 1
                      /\ r.server = "pending" => ~Answered(b, r.id)'
      BY <1>1, <1>4 DEF RequestsSound
  <2>1. CASE r = q
      BY <1>1, <1>2, <2>1
  <2>2. CASE r \in posts[b] /\ r.id # p.id
    <3>1. r.id \in Ids
        BY <2>2, PostType DEF AlertInv
    <3> QED BY <1>9, <2>2, <3>1 DEF AlertInv, RequestsSound
  <2> QED BY <1>4, <2>1, <2>2
<1>11. AlertSound(b)'
  <2> SUFFICES ASSUME alert[b] # Alert!NoAlert, alert[b].status = "ARMED"
               PROVE  ~Answered(b, alert[b].id)' /\ \A r \in posts'[b] : r.id # alert[b].id
      BY <1>1 DEF AlertInv, AlertSound
  <2>1. /\ alert[b].id \in Ids /\ ~Answered(b, alert[b].id) /\ \A r \in posts[b] : r.id # alert[b].id
      BY AlertType DEF AlertInv, AlertSound
  <2> QED BY <1>1, <1>2, <1>4, <1>9, <2>1
<1>12. ASSUME NEW c \in Browsers \ {b} PROVE RequestsSound(c)' /\ AlertSound(c)'
  <2>1. \A id \in Ids : Answered(c, id)' => Answered(c, id)
      BY <1>9
  <2>2. \A r \in posts[c] : r.id \in Ids
      BY PostType DEF AlertInv
  <2>3. alert[c] # Alert!NoAlert => alert[c].id \in Ids
      BY AlertType DEF AlertInv
  <2>4. RequestsSound(c) /\ AlertSound(c)
      BY DEF AlertInv
  <2> QED BY <1>1, <1>4, <2>1, <2>2, <2>3, <2>4 DEF RequestsSound, AlertSound
<1>13. JournalSound' /\ AckInTime'
    BY <1>1, <1>8 DEF AlertInv, JournalSound, AckInTime, Alert!AckInTime
<1> QED BY <1>7, <1>10, <1>11, <1>12, <1>13 DEF AlertInv

\* The browser has an answer, or gives up: the banner is not an alert that can
\* be settled.
LEMMA AnswerKeeps ==
    ASSUME AlertInv, NEW b \in Browsers, NEW p \in posts[b],
           Alert!PostSucceeds(b, p) \/ Alert!PostFails(b, p), now' = now
    PROVE  AlertInv'
<1> DEFINE q == [p EXCEPT !.waiting = FALSE]
<1>1. /\ p \in Alert!Posts /\ p.id \in Ids /\ UNCHANGED <<identity, offset, shown, journal>>
      /\ posts' = [posts EXCEPT ![b] = Alert!Becomes(posts[b], p, q)]
    BY PostType DEF AlertInv, Alert!PostSucceeds, Alert!PostFails
<1>2. q \in Alert!Posts /\ q.id = p.id /\ q.outcome = p.outcome /\ q.reaction = p.reaction
      /\ q.server = p.server
    BY <1>1 DEF Alert!Posts
<1> HIDE DEF q
<1>3. /\ posts' \in [Browsers -> SUBSET Alert!Posts]
      /\ \A c \in Browsers \ {b} : posts'[c] = posts[c]
      /\ \A r \in posts'[b] : r = q \/ (r \in posts[b] /\ r.id # p.id)
      /\ \A r, s \in posts'[b] : r.id = s.id => r = s
  <2>1. Turns(b, p, q)
      BY <1>1, <1>2 DEF Turns
  <2> QED BY <2>1, RequestAfter DEF OthersStay
<1>4. alert' = alert \/ (alert[b].id = p.id /\ alert' = [alert EXCEPT ![b].status = "FAILED"])
    BY DEF Alert!PostSucceeds, Alert!PostFails
<1>5. alert[b].id = p.id => alert[b] \in Alert!Alerts /\ alert[b] # Alert!NoAlert
    BY <1>1, AlertType, PathAssumption DEF AlertInv, Ids
<1>6. alert[b] \in Alert!Alerts => [alert[b] EXCEPT !.status = "FAILED"] \in Alert!Alerts
    BY DEF Alert!Alerts
<1>7. alert' \in [Browsers -> Alert!Alerts \cup {Alert!NoAlert}]
    BY <1>4, <1>5, <1>6 DEF AlertInv, Alert!AlertTypeOK
<1>8. Alert!AlertTypeOK'
    BY <1>1, <1>3, <1>7 DEF AlertInv, Alert!AlertTypeOK
<1>9. RequestsSound(b)'
    BY <1>1, <1>2, <1>3 DEF AlertInv, RequestsSound, Answered
<1>10. AlertSound(b)'
  <2>1. CASE alert' = alert
      BY <1>1, <1>2, <1>3, <2>1 DEF AlertInv, AlertSound, Answered
  <2>2. CASE alert[b].id = p.id /\ alert' = [alert EXCEPT ![b].status = "FAILED"]
    <3>1. alert'[b] = [alert[b] EXCEPT !.status = "FAILED"]
        BY <2>2 DEF AlertInv, Alert!AlertTypeOK
    <3>2. alert'[b].id = alert[b].id /\ alert'[b].at = alert[b].at /\ alert'[b].status = "FAILED"
        BY <1>5, <2>2, <3>1 DEF Alert!Alerts
    <3> QED BY <1>1, <1>5, <2>2, <3>2 DEF AlertInv, AlertSound
  <2> QED BY <1>4, <2>1, <2>2
<1>11. ASSUME NEW c \in Browsers \ {b} PROVE RequestsSound(c)' /\ AlertSound(c)'
  <2>1. alert'[c] = alert[c]
      BY <1>4 DEF AlertInv, Alert!AlertTypeOK
  <2> QED BY <1>1, <1>3, <2>1 DEF AlertInv, RequestsSound, AlertSound, Answered
<1>12. JournalSound' /\ AckInTime'
    BY <1>1 DEF AlertInv, JournalSound, AckInTime, Alert!AckInTime
<1> QED BY <1>8, <1>9, <1>10, <1>11, <1>12 DEF AlertInv

\* A reload forgets the alert; what it posted may still arrive.
LEMMA ReloadKeeps ==
    ASSUME AlertInv, NEW b \in Browsers, Alert!Reload(b), now' = now
    PROVE  AlertInv'
<1> DEFINE left == {[p EXCEPT !.waiting = FALSE] : p \in {q \in posts[b] : q.server = "pending"}}
<1>1. /\ posts' = [posts EXCEPT ![b] = left] /\ posts'[b] = left
      /\ \A c \in Browsers \ {b} : posts'[c] = posts[c]
      /\ alert'[b] = Alert!NoAlert /\ \A c \in Browsers \ {b} : alert'[c] = alert[c]
      /\ UNCHANGED <<shown, journal>>
    BY DEF AlertInv, Alert!AlertTypeOK, Alert!Reload
<1>2. \A r \in left : \E p \in posts[b] : p \in Alert!Posts /\ r = [p EXCEPT !.waiting = FALSE]
    BY PostType DEF AlertInv
<1>3. \A p \in Alert!Posts : LET r == [p EXCEPT !.waiting = FALSE] IN
        /\ r \in Alert!Posts /\ r.id = p.id /\ r.outcome = p.outcome /\ r.reaction = p.reaction
        /\ r.server = p.server
    BY DEF Alert!Posts
<1>4. Alert!AlertTypeOK'
  <2>1. left \in SUBSET Alert!Posts
      BY <1>2, <1>3
  <2>2. posts' \in [Browsers -> SUBSET Alert!Posts]
      BY <1>1, <2>1 DEF AlertInv, Alert!AlertTypeOK
  <2> QED BY <1>1, <2>2 DEF AlertInv, Alert!AlertTypeOK, Alert!Reload, Alert!Offsets
<1>5. RequestsSound(b)'
  <2>1. RequestsSound(b)
      BY DEF AlertInv
  <2>2. \A r \in left : r.id \in shown[b] /\ (r.outcome = "ACK" => r.reaction \in 0 .. TTL - 1)
                        /\ (r.server = "pending" => ~Answered(b, r.id))
    <3> SUFFICES ASSUME NEW r \in left
                 PROVE  r.id \in shown[b] /\ (r.outcome = "ACK" => r.reaction \in 0 .. TTL - 1)
                        /\ (r.server = "pending" => ~Answered(b, r.id))
        OBVIOUS
    <3>1. PICK p \in posts[b] : p \in Alert!Posts /\ r = [p EXCEPT !.waiting = FALSE]
        BY <1>2
    <3>2. r.id = p.id /\ r.outcome = p.outcome /\ r.reaction = p.reaction /\ r.server = p.server
        BY <1>3, <3>1
    <3> QED BY <2>1, <3>2 DEF RequestsSound
  <2>3. \A r, s \in left : r.id = s.id => r = s
    <3> SUFFICES ASSUME NEW r \in left, NEW s \in left, r.id = s.id PROVE r = s
        OBVIOUS
    <3>1. PICK p \in posts[b] : p \in Alert!Posts /\ r = [p EXCEPT !.waiting = FALSE]
        BY <1>2
    <3>2. PICK q \in posts[b] : q \in Alert!Posts /\ s = [q EXCEPT !.waiting = FALSE]
        BY <1>2
    <3>3. p = q
        BY <1>3, <2>1, <3>1, <3>2 DEF RequestsSound
    <3> QED BY <3>1, <3>2, <3>3
  <2> QED BY <1>1, <2>2, <2>3 DEF RequestsSound, Answered
<1>6. AlertSound(b)'
    BY <1>1 DEF AlertSound
<1>7. ASSUME NEW c \in Browsers \ {b} PROVE RequestsSound(c)' /\ AlertSound(c)'
    BY <1>1 DEF AlertInv, RequestsSound, AlertSound, Answered
<1>8. JournalSound' /\ AckInTime'
    BY <1>1 DEF AlertInv, JournalSound, AckInTime, Alert!AckInTime
<1> QED BY <1>4, <1>5, <1>6, <1>7, <1>8 DEF AlertInv

\* Keys, frames, timers, requests and their answers.
LEMMA BrowserStepKeeps ==
    ASSUME AlertInv, now \in Times, NEW b \in Browsers, BrowserStep(b)
    PROVE  AlertInv' /\ shown' = shown
<1>1. now' = now
    BY DEF BrowserStep, emissionVars
<1>2. ASSUME alert[b].status = "ARMED"
      PROVE  /\ alert[b].at \in Times /\ alert[b].at <= now /\ now - alert[b].at \in Alert!Reactions
             /\ now - alert[b].at \in Nat
  <2>1. alert[b] \in Alert!Alerts /\ alert[b].at \in Times /\ alert[b] # Alert!NoAlert
      BY <1>2, AlertType DEF AlertInv, Alert!NoAlert
  <2>2. alert[b].at <= now
      BY <2>1 DEF AlertInv, AlertSound
  <2> QED BY <2>1, <2>2, PathAssumption DEF Times, Alert!Reactions
<1>3. {"ACK", "TIMEOUT", "REJECT_USER"} \subseteq Alert!Outcomes /\ Alert!NoReaction \in Alert!Reactions
    BY DEF Alert!Outcomes, Alert!Reactions
<1>4. ASSUME NEW outcome \in {"TIMEOUT", "REJECT_USER"}, NEW reaction \in Alert!Reactions,
             alert[b].status = "ARMED", Alert!Resolve(b, outcome, reaction)
      PROVE  AlertInv' /\ shown' = shown
    BY <1>1, <1>3, <1>4, SettleKeeps DEF Alert!Resolve
<1>5. CASE Alert!Lock(b, now)
  <2>1. CASE Alert!Expired(alert[b], now)
      BY <1>3, <1>4, <1>5, <2>1 DEF Alert!Lock
  <2>2. CASE ~Alert!Expired(alert[b], now)
    <3>1. /\ alert[b].status = "ARMED" /\ Alert!Journalize(b, "ACK", now - alert[b].at)
          /\ alert' = [alert EXCEPT ![b].status = "LOCKED"]
          /\ UNCHANGED <<identity, offset, shown, journal>>
        BY <1>5, <2>2 DEF Alert!Lock, Alert!Acknowledge
    <3>2. now - alert[b].at \in 0 .. TTL - 1 /\ now - alert[b].at \in Alert!Reactions
        BY <1>2, <2>2, <3>1, PathAssumption DEF Alert!Expired
    <3> QED BY <1>1, <1>3, <3>1, <3>2, SettleKeeps
  <2> QED BY <2>1, <2>2
<1>6. CASE Alert!Refuse(b, now)
    BY <1>2, <1>4, <1>6 DEF Alert!Refuse
<1>7. CASE Alert!FrameTimeout(b, now)
    BY <1>3, <1>4, <1>7 DEF Alert!FrameTimeout
<1>8. CASE Alert!FrameClear(b, now) \/ Alert!BannerEnds(b)
    BY <1>1, <1>8, ClearKeeps DEF Alert!FrameClear, Alert!BannerEnds
<1>9. CASE Alert!PostStep(b)
  <2>1. PICK p \in posts[b] : Alert!Store(b, p) \/ Alert!PostSucceeds(b, p) \/ Alert!PostFails(b, p)
      BY <1>9 DEF Alert!PostStep
  <2>2. shown' = shown
      BY <2>1 DEF Alert!Store, Alert!PostSucceeds, Alert!PostFails
  <2> QED BY <1>1, <2>1, <2>2, StoreKeeps, AnswerKeeps
<1> QED BY <1>5, <1>6, <1>7, <1>8, <1>9 DEF BrowserStep, Alert!AlertStep

-----------------------------------------------------------------------------
(* The path                                                                *)

PathInv ==
    /\ EmissionInv /\ ChannelInv /\ AlertInv /\ ShownEmitted
    /\ faults \in 0 .. MaxFaults

\* The initial states satisfy the inductive invariant.
LEMMA PathInitially == Init => PathInv
<1> SUFFICES ASSUME Init PROVE PathInv
    OBVIOUS
<1>1. EmissionInv /\ Len(manifests) \in Nat
    BY EmissionInitially DEF Init, Emission!EmissionInit
<1>2. ChannelInv
  <2>1. \A b \in Browsers : queue[b] = <<>> /\ wire[b] = <<>> /\ shown[b] = {}
      BY DEF Init, Channel!ChannelInit, Alert!AlertInit
  <2>2. Channel!ChannelTypeOK
      BY PathAssumption DEF Init, Channel!ChannelInit, Channel!ChannelTypeOK, Channel!Links
  <2>3. cache.id = 0
      BY DEF Init, Channel!ChannelInit, NoItem
  <2> QED BY <2>1, <2>2, <2>3 DEF ChannelInv, InOrder, Rising, Before, After, Emitted
<1>3. AlertInv
    BY <1>1, AlertInitially DEF Init
<1>4. ShownEmitted /\ faults \in 0 .. MaxFaults
    BY PathAssumption DEF Init, ShownEmitted, Alert!AlertInit
<1> QED BY <1>1, <1>2, <1>3, <1>4 DEF PathInv

\* An instant, and the tickets emitted so far.
LEMMA PathType ==
    ASSUME PathInv
    PROVE  now \in Times /\ now \in Nat /\ Len(manifests) \in Nat /\ manifests \in Seq(Emission!Manifests)
BY PathAssumption DEF PathInv, EmissionInv, Emission!EmissionTypeOK, Emission!Times, Times

\* A new ticket is the last of all.
LEMMA EmitKeeps ==
    ASSUME PathInv, NEW found \in Emission!Found, Emit(found)
    PROVE  ChannelInv' /\ AlertInv' /\ ShownEmitted' /\ faults' = faults
<1> DEFINE item == [id |-> Len(manifests'), ts |-> now]
<1>1. /\ now' = now /\ UNCHANGED <<alertVars, faults>> /\ Len(manifests) < MaxManifests
      /\ Channel!ToSubscribers(item) /\ UNCHANGED <<cache, wire, link, heard>>
    BY DEF Emit, Emission!SweepEmits, Emission!Iterates, Channel!PublishEvent
<1>2. Len(manifests') = Len(manifests) + 1 /\ Len(manifests') \in Nat
  <2>1. \E m : manifests' = Append(manifests, m)
      BY DEF Emit, Emission!SweepEmits
  <2> QED BY <2>1, PathType
<1>3. item \in Items /\ item.id = Len(manifests')
    BY <1>1, <1>2, PathType, PathAssumption DEF Items
<1>4. ChannelInv'
  <2>1. shown' = shown /\ cache' = cache /\ cache.id = 0
      BY <1>1 DEF alertVars, PathInv, ChannelInv
  <2> HIDE DEF item
  <2>2. Len(manifests) <= Len(manifests') /\ Len(manifests) < item.id
      BY <1>2, <1>3, PathType
  <2> QED BY <1>1, <1>2, <1>3, <2>1, <2>2, PathType, PublishKeeps DEF PathInv
<1>5. AlertInv'
    BY <1>1, PathType, AlertUnchanged DEF PathInv
<1>6. ShownEmitted'
    BY <1>1, <1>2, PathType, PathAssumption DEF PathInv, ShownEmitted, alertVars, Ids
<1> QED BY <1>1, <1>4, <1>5, <1>6

\* A browser handles an item: the block, or a ticket it has not displayed.
LEMMA DeliverKeeps ==
    ASSUME PathInv, NEW b \in Browsers, Deliver(b)
    PROVE  ChannelInv' /\ AlertInv' /\ ShownEmitted' /\ faults' = faults
<1>1. PICK item \in Items :
        /\ Channel!Handle(b, item)
        /\ IF item.id = 0 THEN Alert!ApplyIdentity(b, item.ts, now) ELSE Alert!Push(b, item, now)
        /\ UNCHANGED <<emissionVars, faults>>
    BY DEF Deliver
<1>2. now' = now /\ manifests' = manifests
    BY <1>1 DEF emissionVars
<1>3. CASE item.id = 0
  <2>1. Alert!ApplyIdentity(b, item.ts, now) /\ item.ts \in Times
      BY <1>1, <1>3 DEF Items
  <2>2. shown' = shown
      BY <2>1 DEF Alert!ApplyIdentity
  <2>3. ChannelInv'
      BY <1>1, <1>2, <2>2, HandleKeeps DEF PathInv
  <2>4. AlertInv'
      BY <1>2, <2>1, PathType, IdentityKeeps DEF PathInv
  <2> QED BY <1>1, <1>2, <2>2, <2>3, <2>4 DEF PathInv, ShownEmitted
<1>4. CASE item.id # 0
  <2>1. Alert!Push(b, item, now) /\ item.id \notin shown[b] /\ item.id \in 1 .. Len(manifests)
      BY <1>1, <1>4, HeadIsNew DEF PathInv
  <2>2. item.id \in Ids
      BY <1>4, PathAssumption DEF Items, Ids
  <2>3. /\ \A c \in Browsers \ {b} : shown'[c] = shown[c]
        /\ shown'[b] = shown[b] \/ shown'[b] = shown[b] \cup {item.id}
      BY <2>1 DEF Alert!Push, PathInv, AlertInv, Alert!AlertTypeOK
  <2>4. ChannelInv'
      BY <1>1, <1>2, <1>4, <2>3, HandleKeeps DEF PathInv
  <2>5. AlertInv'
      BY <1>2, <2>1, <2>2, PathType, PushKeeps DEF PathInv
  <2>6. ShownEmitted'
      BY <1>2, <2>1, <2>2, <2>3, PathType DEF PathInv, ShownEmitted
  <2> QED BY <1>1, <2>4, <2>5, <2>6
<1> QED BY <1>3, <1>4

\* Every step of the path keeps the inductive invariant.
LEMMA PathKeeps == PathInv /\ [Next]_vars => PathInv'
<1> SUFFICES ASSUME PathInv, [Next]_vars PROVE PathInv'
    OBVIOUS
<1>1. EmissionInv'
    BY EmissionKeeps DEF PathInv
<1>2. now \in Nat /\ now \in Times /\ Len(manifests) \in Nat
    BY PathType
<1>3. now' \in Nat /\ now <= now'
  <2>1. now' \in Nat
      BY <1>1, PathAssumption DEF EmissionInv, Emission!EmissionTypeOK, Emission!Times
  <2>2. now' = now \/ now' = now + 1
      BY DEF Next, vars, emissionVars, PublishIdentity, ClockTick, Restart, Emit, SweepTick, Yield, Deliver,
             BrowserStep, Lose, Reconnect, Reload, Emission!ClockTick, Emission!EngineRestart,
             Emission!SweepEmits, Emission!SweepSilent, Emission!SweepFails
  <2> QED BY <1>2, <2>1, <2>2
<1>4. ASSUME ChannelInv', AlertInv', ShownEmitted', faults' \in 0 .. MaxFaults PROVE PathInv'
    BY <1>1, <1>4 DEF PathInv
<1>5. ASSUME UNCHANGED alertVars, UNCHANGED manifests, ChannelInv', faults' \in 0 .. MaxFaults PROVE PathInv'
  <2>1. AlertInv'
      BY <1>2, <1>3, <1>5, AlertUnchanged DEF PathInv
  <2>2. ShownEmitted'
      BY <1>5 DEF PathInv, ShownEmitted, alertVars
  <2> QED BY <1>4, <1>5, <2>1, <2>2
<1>6. faults \in 0 .. MaxFaults /\ (faults < MaxFaults => faults + 1 \in 0 .. MaxFaults)
    BY PathAssumption DEF PathInv
<1>7. CASE UNCHANGED vars \/ ClockTick \/ \E found \in Emission!Found : SweepTick(found)
  <2>1. UNCHANGED <<channelVars, alertVars, faults, manifests>>
      BY <1>7 DEF vars, emissionVars, ClockTick, SweepTick, Emission!ClockTick, Emission!SweepSilent,
                  Emission!SweepFails
  <2>2. ChannelInv'
      BY <2>1, ChannelUnchanged DEF PathInv, alertVars
  <2> QED BY <1>5, <1>6, <2>1, <2>2
<1>8. CASE PublishIdentity
  <2> DEFINE item == [id |-> 0, ts |-> now]
  <2>1. /\ Channel!ToSubscribers(item) /\ cache' = item
        /\ UNCHANGED <<wire, link, heard, emissionVars, alertVars, faults>>
      BY <1>8 DEF PublishIdentity, Channel!PublishBlock
  <2>2. item \in Items /\ item.id = 0
      BY <1>2, PathAssumption DEF Items
  <2>3. UNCHANGED <<manifests, shown>>
      BY <2>1 DEF emissionVars, alertVars
  <2> HIDE DEF item
  <2>4. ChannelInv'
      BY <1>2, <2>1, <2>2, <2>3, PublishKeeps DEF PathInv
  <2> QED BY <1>5, <1>6, <2>1, <2>3, <2>4
<1>9. ASSUME NEW found \in Emission!Found, Emit(found) PROVE PathInv'
    BY <1>4, <1>6, <1>9, EmitKeeps
<1>10. ASSUME NEW b \in Browsers, Yield(b) PROVE PathInv'
  <2>1. Channel!Yield(b) /\ UNCHANGED <<manifests, shown, alertVars, faults>>
      BY <1>10 DEF Yield, emissionVars, alertVars
  <2>2. ChannelInv'
      BY <2>1, YieldKeeps DEF PathInv
  <2> QED BY <1>5, <1>6, <2>1, <2>2
<1>11. ASSUME NEW b \in Browsers, Deliver(b) PROVE PathInv'
    BY <1>4, <1>6, <1>11, DeliverKeeps
<1>12. ASSUME NEW b \in Browsers, BrowserStep(b) PROVE PathInv'
  <2>1. AlertInv' /\ shown' = shown
      BY <1>2, <1>12, BrowserStepKeeps DEF PathInv
  <2>2. UNCHANGED channelVars /\ UNCHANGED <<manifests, shown>> /\ faults' = faults
      BY <1>12, <2>1 DEF BrowserStep, emissionVars
  <2>3. ChannelInv' /\ ShownEmitted'
      BY <2>2, ChannelUnchanged DEF PathInv, ShownEmitted
  <2> QED BY <1>4, <1>6, <2>1, <2>2, <2>3
<1>13. ASSUME NEW b \in Browsers, Lose(b) \/ Reconnect(b) PROVE PathInv'
  <2>1. /\ Channel!Break(b) \/ Channel!Hang(b) \/ (Channel!Subscribe(b) /\ UNCHANGED heard)
        /\ UNCHANGED <<manifests, shown, alertVars>> /\ faults' \in 0 .. MaxFaults
      BY <1>6, <1>13 DEF Lose, Reconnect, Channel!Recycle, Channel!Retry, emissionVars, alertVars
  <2>2. ChannelInv'
      BY <1>2, <2>1, BreakKeeps, SubscribeKeeps DEF PathInv
  <2> QED BY <1>5, <2>1, <2>2
<1>14. ASSUME NEW b \in Browsers, Reload(b) PROVE PathInv'
  <2>1. /\ Alert!Reload(b) /\ Channel!Subscribe(b) /\ heard' = [heard EXCEPT ![b] = FALSE]
        /\ UNCHANGED <<now, manifests, shown>> /\ faults' \in 0 .. MaxFaults
      BY <1>6, <1>14 DEF Reload, Channel!Reopen, Alert!Reload, emissionVars
  <2>2. ChannelInv' /\ AlertInv'
      BY <1>2, <2>1, SubscribeKeeps, ReloadKeeps DEF PathInv
  <2>3. ShownEmitted'
      BY <2>1 DEF PathInv, ShownEmitted
  <2> QED BY <1>4, <2>1, <2>2, <2>3
<1>15. CASE Restart
  <2>1. Channel!ChannelRestart /\ UNCHANGED <<manifests, shown, alertVars>> /\ faults' \in 0 .. MaxFaults
      BY <1>6, <1>15 DEF Restart, Emission!EngineRestart, alertVars
  <2>2. ChannelInv'
      BY <1>2, <2>1, ChannelRestartKeeps DEF PathInv
  <2> QED BY <1>5, <2>1, <2>2
<1> QED BY <1>7, <1>8, <1>9, <1>10, <1>11, <1>12, <1>13, <1>14, <1>15 DEF Next

\* The inductive invariant holds in every reachable state.
LEMMA PathInvariant == Spec => []PathInv
BY PathInitially, PathKeeps, PTL DEF Spec

\* Every reachable state is well typed: queues and wires keep their sizes, the
\* offsets are differences of instants, an outcome is of a known ticket.
THEOREM PathTyped == Spec => []TypeOK
<1>1. PathInv => TypeOK
    BY DEF PathInv, TypeOK, EmissionInv, ChannelInv, AlertInv
<1> QED BY <1>1, PathInvariant, PTL

\* Every ACK of the journal was given before the time to live was over, whatever
\* froze, failed, was reloaded or arrived late.
THEOREM AcknowledgedInTime == Spec => []AckInTime
<1>1. PathInv => AckInTime
    BY DEF PathInv, AlertInv
<1> QED BY <1>1, PathInvariant, PTL

-----------------------------------------------------------------------------
(* The contract                                                            *)

Open == [b \in Browsers |-> alert[b].id]

AnswerOf(entry) == [id |-> entry.id, by |-> entry.by, outcome |-> entry.outcome]
Answers == [i \in DOMAIN journal |-> AnswerOf(journal[i])]

\* Initially nothing was displayed, nothing is open, nothing was answered.
LEMMA ContractInitially == Init => Contract!Init
<1> SUFFICES ASSUME Init PROVE Contract!Init
    OBVIOUS
<1>1. journal = <<>> /\ \A b \in Browsers : alert[b].id = 0
    BY DEF Init, Alert!AlertInit, Alert!NoAlert
<1>2. shown = [b \in Browsers |-> {}]
    BY DEF Init, Alert!AlertInit
<1> QED BY <1>1, <1>2 DEF Contract!Init

\* Nothing that the operator may rely on changes.
LEMMA Stutters ==
    ASSUME UNCHANGED <<shown, journal>>, \A b \in Browsers : alert'[b].id = alert[b].id
    PROVE  UNCHANGED Contract!vars
BY DEF Contract!vars

\* The alert of one browser is taken down.
LEMMA Closes ==
    ASSUME PathInv, NEW b \in Browsers, alert[b] # Alert!NoAlert, alert'[b] = Alert!NoAlert,
           \A c \in Browsers \ {b} : alert'[c] = alert[c], UNCHANGED <<shown, journal>>
    PROVE  Contract!Close(b)
<1>1. alert[b].id # 0 /\ alert'[b].id = 0
    BY AlertType DEF PathInv, AlertInv, Alert!NoAlert
<1>2. [c \in Browsers |-> alert'[c].id] = [Open EXCEPT ![b] = 0]
  <2>1. \A c \in Browsers : alert'[c].id = IF c = b THEN 0 ELSE alert[c].id
      BY <1>1
  <2> QED BY <2>1 DEF Open
<1> QED BY <1>1, <1>2 DEF Contract!Close, Open

\* A ticket is displayed, in a browser that had none.
LEMMA Shows ==
    ASSUME PathInv, NEW b \in Browsers, NEW id \in Ids, id \notin shown[b],
           alert[b] = Alert!NoAlert, alert'[b].id = id,
           \A c \in Browsers \ {b} : alert'[c] = alert[c],
           shown' = [shown EXCEPT ![b] = @ \cup {id}], UNCHANGED journal
    PROVE  Contract!Show(b, id)
<1>1. alert[b].id = 0
    BY DEF Alert!NoAlert
<1>2. [c \in Browsers |-> alert'[c].id] = [Open EXCEPT ![b] = id]
    BY Zenon DEF Open
<1> QED BY <1>1, <1>2 DEF Contract!Show, Open

\* The journal grows by the first outcome of a ticket.
LEMMA Records ==
    ASSUME PathInv, NEW b \in Browsers, NEW entry \in Alert!Entries, entry.by = b,
           entry.id \in shown[b], ~Answered(b, entry.id),
           journal' = Append(journal, entry), UNCHANGED <<alert, shown>>
    PROVE  Contract!Answer(b, entry.id, entry.outcome)
<1>1. journal \in Seq(Alert!Entries) /\ Len(journal) \in Nat /\ DOMAIN journal = 1 .. Len(journal)
    BY DEF PathInv, AlertInv, Alert!AlertTypeOK
<1>2. /\ DOMAIN journal' = 1 .. Len(journal) + 1
      /\ \A i \in DOMAIN journal : journal'[i] = journal[i]
      /\ journal'[Len(journal) + 1] = entry
    BY <1>1
<1> DEFINE S == {AnswerOf(e) : e \in Alert!Entries}
           new == [i \in DOMAIN journal' |-> AnswerOf(journal'[i])]
           last == AnswerOf(entry)
<1>3. Answers \in Seq(S) /\ Len(Answers) = Len(journal)
  <2>1. \A i \in 1 .. Len(journal) : AnswerOf(journal[i]) \in S
      BY <1>1
  <2> QED BY <1>1, <2>1 DEF Answers
<1>4. new = Append(Answers, last)
  <2>1. last \in S
      OBVIOUS
  <2> HIDE DEF S, last
  <2>2. /\ Append(Answers, last) \in Seq(S) /\ DOMAIN Append(Answers, last) = 1 .. Len(journal) + 1
        /\ \A i \in 1 .. Len(journal) : Append(Answers, last)[i] = Answers[i]
        /\ Append(Answers, last)[Len(journal) + 1] = last
      BY <1>1, <1>3, <2>1
  <2>3. \A i \in 1 .. Len(journal) : Answers[i] = new[i]
      BY <1>1, <1>2 DEF Answers
  <2>4. new[Len(journal) + 1] = last
      BY <1>1, <1>2 DEF last
  <2>5. \A i \in 1 .. Len(journal) + 1 : i \in 1 .. Len(journal) \/ i = Len(journal) + 1
      BY <1>1
  <2> DEFINE app == Append(Answers, last)
             N   == 1 .. Len(journal) + 1
  <2>6. \A i \in N : app[i] = new[i]
      BY <2>2, <2>3, <2>4, <2>5
  <2>7. new = [i \in N |-> new[i]]
      BY <1>2
  <2>8. app = [i \in N |-> app[i]]
    <3> HIDE DEF app, N
    <3>1. app \in Seq(S) /\ DOMAIN app = N
        BY <2>2 DEF app, N
    <3>2. N = 1 .. Len(app) /\ app \in [1 .. Len(app) -> S]
        BY <3>1
    <3> QED BY <3>1, <3>2
  <2> HIDE DEF app, N, new
  <2>9. new = app
      BY <2>6, <2>7, <2>8
  <2> QED BY <2>9 DEF app
<1>5. ~Contract!Answered(b, entry.id)
    BY DEF Answered, Contract!Answered
<1> QED BY <1>4, <1>5 DEF Contract!Answer, Answers, AnswerOf

\* What a browser does with its alert and its requests.
LEMMA BrowserStepRefines ==
    ASSUME PathInv, NEW b \in Browsers, BrowserStep(b)
    PROVE  [Contract!Next]_Contract!vars
<1>1. alert \in [Browsers -> Alert!Alerts \cup {Alert!NoAlert}] /\ AlertInv
    BY DEF PathInv, AlertInv, Alert!AlertTypeOK
<1>2. ASSUME alert[b].status \in {"ARMED", "LOCKED", "FAILED"},
             alert' = [alert EXCEPT ![b] = Alert!NoAlert], UNCHANGED <<shown, journal>>
      PROVE  [Contract!Next]_Contract!vars
  <2>1. alert[b] # Alert!NoAlert
      BY <1>2 DEF Alert!NoAlert
  <2>2. Contract!Close(b)
      BY <1>1, <1>2, <2>1, Closes
  <2> QED BY <2>2 DEF Contract!Next
<1>3. ASSUME NEW status, alert' = [alert EXCEPT ![b].status = status], alert[b] \in Alert!Alerts,
             UNCHANGED <<shown, journal>>
      PROVE  [Contract!Next]_Contract!vars
  <2>1. \A c \in Browsers : alert'[c].id = alert[c].id
      BY <1>1, <1>3 DEF Alert!Alerts
  <2> QED BY <1>3, <2>1, Stutters
<1>4. CASE Alert!AlertStep(b, now)
  <2>1. CASE \/ Alert!FrameTimeout(b, now) \/ Alert!FrameClear(b, now)
             \/ Alert!BannerEnds(b) \/ Alert!Refuse(b, now)
      BY <1>2, <2>1 DEF Alert!FrameTimeout, Alert!FrameClear, Alert!BannerEnds, Alert!Refuse, Alert!Resolve
  <2>2. CASE Alert!Lock(b, now)
    <3>1. alert[b].status = "ARMED" /\ UNCHANGED <<shown, journal>> /\ alert[b] \in Alert!Alerts
        BY <1>1, <2>2, AlertType DEF AlertInv, Alert!Lock, Alert!Resolve, Alert!Acknowledge
    <3>2. \/ alert' = [alert EXCEPT ![b] = Alert!NoAlert]
          \/ alert' = [alert EXCEPT ![b].status = "LOCKED"]
        BY <2>2 DEF Alert!Lock, Alert!Resolve, Alert!Acknowledge
    <3> QED BY <1>2, <1>3, <3>1, <3>2
  <2> QED BY <1>4, <2>1, <2>2 DEF Alert!AlertStep
<1>5. ASSUME NEW p \in posts[b], Alert!Store(b, p) PROVE [Contract!Next]_Contract!vars
  <2> DEFINE entry == [id |-> p.id, by |-> b, outcome |-> p.outcome, reaction |-> p.reaction]
  <2>1. /\ UNCHANGED <<alert, shown>> /\ p.server = "pending"
        /\ journal' \in {journal, Append(journal, entry)}
      BY <1>5 DEF Alert!Store
  <2>2. CASE journal' = journal
      BY <2>1, <2>2, Stutters
  <2>3. CASE journal' = Append(journal, entry)
    <3>1. entry \in Alert!Entries /\ p.id \in Ids /\ p.outcome \in Alert!Outcomes
        BY <1>1, PostType DEF AlertInv, Alert!Entries
    <3>2. p.id \in shown[b] /\ ~Answered(b, p.id)
        BY <1>1, <2>1 DEF AlertInv, RequestsSound
    <3>3. entry.by = b /\ entry.id = p.id /\ entry.outcome = p.outcome
        OBVIOUS
    <3> HIDE DEF entry
    <3>4. Contract!Answer(b, p.id, p.outcome)
        BY <2>1, <2>3, <3>1, <3>2, <3>3, Records
    <3> QED BY <3>1, <3>4 DEF Contract!Next
  <2> QED BY <2>1, <2>2, <2>3
<1>6. ASSUME NEW p \in posts[b], Alert!PostSucceeds(b, p) \/ Alert!PostFails(b, p)
      PROVE  [Contract!Next]_Contract!vars
  <2>1. UNCHANGED <<shown, journal>>
      BY <1>6 DEF Alert!PostSucceeds, Alert!PostFails
  <2>2. CASE alert' = alert
      BY <2>1, <2>2, Stutters
  <2>3. CASE alert[b].id = p.id /\ alert' = [alert EXCEPT ![b].status = "FAILED"]
    <3>1. p.id # 0
        BY <1>1, PostType, PathAssumption DEF AlertInv, Ids
    <3>2. alert[b] \in Alert!Alerts
        BY <1>1, <2>3, <3>1, AlertType DEF AlertInv
    <3> QED BY <1>3, <2>1, <2>3, <3>2
  <2> QED BY <1>6, <2>2, <2>3 DEF Alert!PostSucceeds, Alert!PostFails
<1> QED BY <1>4, <1>5, <1>6 DEF BrowserStep, Alert!PostStep

\* A ticket that arrives is displayed, or dropped.
LEMMA DeliverRefines ==
    ASSUME PathInv, NEW b \in Browsers, Deliver(b)
    PROVE  [Contract!Next]_Contract!vars
<1>1. PICK item \in Items :
        /\ Channel!Handle(b, item)
        /\ IF item.id = 0 THEN Alert!ApplyIdentity(b, item.ts, now) ELSE Alert!Push(b, item, now)
    BY DEF Deliver
<1>2. alert \in [Browsers -> Alert!Alerts \cup {Alert!NoAlert}]
    BY DEF PathInv, AlertInv, Alert!AlertTypeOK
<1>3. CASE item.id # 0 /\ Alert!Admits(b, item, now)
  <2> DEFINE new == [id |-> item.id, ts |-> item.ts, at |-> now, status |-> "ARMED"]
  <2>1. /\ alert' = [alert EXCEPT ![b] = new] /\ shown' = [shown EXCEPT ![b] = @ \cup {item.id}]
        /\ journal' = journal /\ alert[b] = Alert!NoAlert
      BY <1>1, <1>3 DEF Alert!Push, Alert!Admits
  <2>2. item.id \in Ids /\ item.id \notin shown[b]
      BY <1>1, <1>3, HeadIsNew, PathAssumption DEF PathInv, Items, Ids
  <2>3. alert'[b].id = item.id /\ \A c \in Browsers \ {b} : alert'[c] = alert[c]
      BY <1>2, <2>1
  <2>4. Contract!Show(b, item.id)
      BY <2>1, <2>2, <2>3, Shows
  <2> QED BY <2>2, <2>4 DEF Contract!Next
<1>4. CASE item.id = 0 \/ ~Alert!Admits(b, item, now)
  <2>1. UNCHANGED <<alert, shown, journal>>
      BY <1>1, <1>4 DEF Alert!ApplyIdentity, Alert!Push
  <2> QED BY <2>1, Stutters
<1> QED BY <1>3, <1>4

\* Every step of the path is a step of the contract, or none.
LEMMA StepRefines == PathInv /\ [Next]_vars => [Contract!Next]_Contract!vars
<1> SUFFICES ASSUME PathInv, [Next]_vars PROVE [Contract!Next]_Contract!vars
    OBVIOUS
<1>1. CASE UNCHANGED alertVars
  <2>1. UNCHANGED <<alert, shown, journal>>
      BY <1>1 DEF alertVars
  <2> QED BY <2>1, Stutters
<1>2. ASSUME NEW b \in Browsers, Deliver(b) \/ BrowserStep(b) PROVE [Contract!Next]_Contract!vars
    BY <1>2, DeliverRefines, BrowserStepRefines
<1>3. ASSUME NEW b \in Browsers, Reload(b) PROVE [Contract!Next]_Contract!vars
  <2>1. /\ alert'[b] = Alert!NoAlert /\ \A c \in Browsers \ {b} : alert'[c] = alert[c]
        /\ UNCHANGED <<shown, journal>>
      BY <1>3 DEF Reload, Alert!Reload, PathInv, AlertInv, Alert!AlertTypeOK
  <2>2. CASE alert[b] = Alert!NoAlert
      BY <2>1, <2>2, Stutters
  <2>3. CASE alert[b] # Alert!NoAlert
    <3>1. Contract!Close(b)
        BY <2>1, <2>3, Closes
    <3> QED BY <3>1 DEF Contract!Next
  <2> QED BY <2>2, <2>3
<1> QED BY <1>1, <1>2, <1>3
        DEF Next, vars, PublishIdentity, ClockTick, Restart, Emit, SweepTick, Yield, Lose, Reconnect

\* In each browser a ticket is displayed once at most, none takes the place of
\* another, and a ticket has one outcome at most, given where it was displayed:
\* reconnections, hydration, reloads, restarts, late keys and failed requests
\* included.
THEOREM PathImplementsContract == Spec => ContractHolds
BY ContractInitially, StepRefines, PathInvariant, PTL DEF Spec, ContractHolds, Contract!Spec

-----------------------------------------------------------------------------
(* The state blocks: what a browser displays of the backend, and with it   *)
(* the clock offset that judges the age of a ticket, never goes back in    *)
(* time.                                                                   *)

\* No block anywhere is later than the block cached, or than now when a restart
\* has emptied the cache.
Latest == IF cache = NoItem THEN now ELSE cache.ts

\* Blocks in the order of their times, after a time and up to another.
BlocksRise(q) ==
    \A i, j \in DOMAIN q : i < j /\ q[i].id = 0 /\ q[j].id = 0 => q[i].ts <= q[j].ts
BlocksBefore(q, r) ==
    \A i \in DOMAIN q, j \in DOMAIN r : q[i].id = 0 /\ r[j].id = 0 => q[i].ts <= r[j].ts
BlocksWithin(first, q, last) ==
    \A i \in DOMAIN q : q[i].id = 0 => first <= q[i].ts /\ q[i].ts <= last

BlocksInOrder(b) ==
    /\ BlocksRise(wire[b]) /\ BlocksRise(queue[b]) /\ BlocksBefore(wire[b], queue[b])
    /\ BlocksWithin(identity[b], wire[b], Latest) /\ BlocksWithin(identity[b], queue[b], Latest)
    /\ identity[b] <= Latest

BlockInv ==
    /\ Latest <= now
    /\ \A b \in Browsers : BlocksInOrder(b)

\* The times are numbers, and the queues hold items.
LEMMA BlockTypes ==
    ASSUME PathInv
    PROVE  /\ Latest \in Int /\ now \in Int
           /\ identity \in [Browsers -> Int]
           /\ queue \in [Browsers -> Seq(Items)] /\ wire \in [Browsers -> Seq(Items)]
           /\ \A b \in Browsers : Len(queue[b]) <= QueueSize
<1>1. now \in Int /\ cache \in Items \cup {NoItem}
    BY PathType DEF PathInv, ChannelInv, Channel!ChannelTypeOK
<1>2. Latest \in Int
    BY <1>1, PathAssumption DEF Latest, Items, Times
<1>3. identity \in [Browsers -> Int]
  <2>1. Times \cup {Alert!NotYet} \subseteq Int
      BY PathAssumption DEF Times, Alert!NotYet
  <2> QED BY <2>1 DEF PathInv, AlertInv, Alert!AlertTypeOK
<1> QED BY <1>1, <1>2, <1>3 DEF PathInv, ChannelInv, Channel!ChannelTypeOK

\* The time of an item.
LEMMA TsType ==
    ASSUME NEW q \in Seq(Items), NEW i \in DOMAIN q
    PROVE  q[i].ts \in Int
<1>1. q[i] \in Items
    OBVIOUS
<1> QED BY <1>1, PathAssumption DEF Items, Times

\* Initially no block is on its way and none is displayed.
LEMMA BlocksInitially == Init => BlockInv
BY PathAssumption
   DEF Init, Channel!ChannelInit, Alert!AlertInit, Alert!NotYet, Emission!EmissionInit,
       BlockInv, BlocksInOrder, BlocksRise, BlocksBefore, BlocksWithin, Latest

\* A block is published, not older than any other; or a ticket, which is none.
LEMMA PublishOrders ==
    ASSUME PathInv, BlockInv, NEW item \in Items, Channel!ToSubscribers(item),
           Latest' \in Int, Latest <= Latest', Latest' <= now',
           item.id = 0 => Latest <= item.ts /\ item.ts <= Latest',
           UNCHANGED <<wire, identity>>
    PROVE  BlockInv'
<1>1. ASSUME NEW b \in Browsers PROVE BlocksInOrder(b)'
  <2> DEFINE q == queue[b]
             r == queue'[b]
             w == wire[b]
  <2>1. /\ q \in Seq(Items) /\ w \in Seq(Items) /\ Len(q) <= QueueSize
        /\ identity[b] \in Int /\ Latest \in Int /\ BlocksInOrder(b)
        /\ wire' = wire /\ identity' = identity
      BY BlockTypes DEF BlockInv
  <2>2. \A i \in DOMAIN w : w[i].ts \in Int
      BY <2>1, TsType
  <2>3. \A i \in DOMAIN q : q[i].ts \in Int
      BY <2>1, TsType
  <2>4. BlocksWithin(identity[b], w, Latest')
      BY <2>1, <2>2 DEF BlocksInOrder, BlocksWithin
  <2>5. identity[b] <= Latest'
      BY <2>1 DEF BlocksInOrder
  <2>6. CASE r = q
    <3>1. BlocksWithin(identity[b], q, Latest')
        BY <2>1, <2>3 DEF BlocksInOrder, BlocksWithin
    <3> QED BY <2>1, <2>4, <2>5, <2>6, <3>1 DEF BlocksInOrder, BlocksRise, BlocksBefore, BlocksWithin
  <2>7. CASE r = Channel!Enqueue(q, item)
    <3>1. PICK k \in {0, 1} : Shifted(q, k, item, r)
        BY <2>1, <2>7, EnqueueShifts
    <3>2. r \in Seq(Items) /\ DOMAIN r = 1 .. Len(r) /\ Len(r) \in Nat
        BY <2>1, <2>7, EnqueueShifts
    <3>3. \A i \in DOMAIN r :
             \/ i = Len(r) /\ r[i] = item
             \/ i \in 1 .. Len(r) - 1 /\ i + k \in DOMAIN q /\ r[i] = q[i + k]
        BY <3>1, <3>2, ShiftedItems
    <3>4. \A i \in DOMAIN q : q[i].id = 0 => identity[b] <= q[i].ts /\ q[i].ts <= Latest
        BY <2>1 DEF BlocksInOrder, BlocksWithin
    <3>5. \A i \in DOMAIN w : w[i].id = 0 => identity[b] <= w[i].ts /\ w[i].ts <= Latest
        BY <2>1 DEF BlocksInOrder, BlocksWithin
    <3>6. item.ts \in Int
        BY PathAssumption DEF Items, Times
    <3>7. BlocksRise(r)
      <4> SUFFICES ASSUME NEW i \in DOMAIN r, NEW j \in DOMAIN r, i < j, r[i].id = 0, r[j].id = 0
                   PROVE  r[i].ts <= r[j].ts
          BY DEF BlocksRise
      <4>1. i \in 1 .. Len(r) - 1 /\ i + k \in DOMAIN q /\ r[i] = q[i + k] /\ k \in {0, 1}
          BY <3>2, <3>3
      <4>2. CASE r[j] = item
          BY <2>1, <2>3, <3>4, <3>6, <4>1, <4>2
      <4>3. CASE j + k \in DOMAIN q /\ r[j] = q[j + k]
        <5>1. i + k < j + k
            BY <3>2, <4>1
        <5> QED BY <2>1, <4>1, <4>3, <5>1 DEF BlocksInOrder, BlocksRise
      <4> QED BY <3>3, <4>2, <4>3
    <3>8. BlocksBefore(w, r)
      <4> SUFFICES ASSUME NEW i \in DOMAIN w, NEW j \in DOMAIN r, w[i].id = 0, r[j].id = 0
                   PROVE  w[i].ts <= r[j].ts
          BY DEF BlocksBefore
      <4>1. CASE r[j] = item
          BY <2>1, <2>2, <3>5, <3>6, <4>1
      <4>2. CASE j + k \in DOMAIN q /\ r[j] = q[j + k]
          BY <2>1, <4>2 DEF BlocksInOrder, BlocksBefore
      <4> QED BY <3>3, <4>1, <4>2
    <3>9. BlocksWithin(identity[b], r, Latest')
      <4> SUFFICES ASSUME NEW j \in DOMAIN r, r[j].id = 0
                   PROVE  identity[b] <= r[j].ts /\ r[j].ts <= Latest'
          BY DEF BlocksWithin
      <4>1. identity[b] <= Latest
          BY <2>1 DEF BlocksInOrder
      <4>2. CASE r[j] = item
          BY <2>1, <3>6, <4>1, <4>2
      <4>3. CASE j + k \in DOMAIN q /\ r[j] = q[j + k]
          BY <2>1, <2>3, <3>4, <4>3
      <4> QED BY <3>3, <4>2, <4>3
    <3> QED BY <2>1, <2>4, <2>5, <3>7, <3>8, <3>9
            DEF BlocksInOrder, BlocksRise, BlocksBefore, BlocksWithin
  <2> QED BY <2>6, <2>7 DEF Channel!ToSubscribers
<1> QED BY <1>1 DEF BlockInv

\* The head of the queue is handed over.
LEMMA YieldOrders ==
    ASSUME PathInv, BlockInv, NEW b \in Browsers, Channel!Yield(b), UNCHANGED <<identity, now>>
    PROVE  BlockInv'
<1> DEFINE q == queue[b]
           w == wire[b]
           v == Append(w, q[1])
           r == Tail(q)
<1>1. /\ q \in Seq(Items) /\ w \in Seq(Items) /\ q # <<>> /\ Len(w) \in Nat
      /\ queue' = [queue EXCEPT ![b] = Tail(q)] /\ wire' = [wire EXCEPT ![b] = Append(w, Head(q))]
      /\ queue \in [Browsers -> Seq(Items)] /\ wire \in [Browsers -> Seq(Items)]
      /\ BlocksInOrder(b) /\ Latest' = Latest
    BY BlockTypes DEF BlockInv, Channel!Yield, Latest
<1>2. /\ 1 \in DOMAIN q /\ q[1] \in Items /\ Head(q) = q[1]
      /\ \A i \in DOMAIN r : i + 1 \in DOMAIN q /\ r[i] = q[i + 1] /\ i \in Nat /\ i + 1 > 1
    BY <1>1
<1>3. \A i \in DOMAIN v : /\ i \in 1 .. Len(w) + 1
                          /\ (i \in DOMAIN w /\ v[i] = w[i]) \/ (i = Len(w) + 1 /\ v[i] = q[1])
    BY <1>1, <1>2
<1>4. queue'[b] = r /\ wire'[b] = v
      /\ \A c \in Browsers \ {b} : queue'[c] = queue[c] /\ wire'[c] = wire[c]
    BY <1>1, <1>2
<1>5. DOMAIN w = 1 .. Len(w)
    BY <1>1
<1> HIDE DEF v, r
<1>6. BlocksRise(v)
  <2> SUFFICES ASSUME NEW i \in DOMAIN v, NEW j \in DOMAIN v, i < j, v[i].id = 0, v[j].id = 0
               PROVE  v[i].ts <= v[j].ts
      BY DEF BlocksRise
  <2>1. i \in DOMAIN w /\ v[i] = w[i]
      BY <1>1, <1>3
  <2> QED BY <1>1, <1>2, <1>3, <2>1 DEF BlocksInOrder, BlocksRise, BlocksBefore
<1>7. BlocksRise(r)
  <2> SUFFICES ASSUME NEW i \in DOMAIN r, NEW j \in DOMAIN r, i < j, r[i].id = 0, r[j].id = 0
               PROVE  r[i].ts <= r[j].ts
      BY DEF BlocksRise
  <2>1. i + 1 < j + 1
      BY <1>2
  <2> QED BY <1>1, <1>2, <2>1 DEF BlocksInOrder, BlocksRise
<1>8. BlocksBefore(v, r)
  <2> SUFFICES ASSUME NEW i \in DOMAIN v, NEW j \in DOMAIN r, v[i].id = 0, r[j].id = 0
               PROVE  v[i].ts <= r[j].ts
      BY DEF BlocksBefore
  <2> QED BY <1>1, <1>2, <1>3 DEF BlocksInOrder, BlocksRise, BlocksBefore
<1>9. BlocksWithin(identity[b], v, Latest) /\ BlocksWithin(identity[b], r, Latest)
    BY <1>1, <1>2, <1>3 DEF BlocksInOrder, BlocksWithin
<1>10. BlocksInOrder(b)'
    BY <1>1, <1>4, <1>6, <1>7, <1>8, <1>9 DEF BlocksInOrder, BlocksRise, BlocksBefore, BlocksWithin
<1>11. ASSUME NEW c \in Browsers \ {b} PROVE BlocksInOrder(c)'
    BY <1>1, <1>4 DEF BlockInv, BlocksInOrder, BlocksRise, BlocksBefore, BlocksWithin
<1> QED BY <1>1, <1>10, <1>11 DEF BlockInv

\* An item is handled; a block is displayed, and is not older than the one it
\* replaces.
LEMMA HandleOrders ==
    ASSUME PathInv, BlockInv, NEW b \in Browsers, NEW item \in Items, Channel!Handle(b, item),
           now' = now,
           identity' = IF item.id = 0 THEN [identity EXCEPT ![b] = item.ts] ELSE identity
    PROVE  BlockInv' /\ \A c \in Browsers : identity'[c] >= identity[c]
<1> DEFINE w == wire[b]
           v == Tail(w)
<1>1. /\ w \in Seq(Items) /\ w # <<>> /\ item = Head(w) /\ BlocksInOrder(b)
      /\ wire \in [Browsers -> Seq(Items)] /\ wire' = [wire EXCEPT ![b] = Tail(w)]
      /\ UNCHANGED <<cache, queue>> /\ Latest' = Latest /\ Latest \in Int
      /\ identity \in [Browsers -> Int] /\ item.ts \in Int
  <2>1. item.ts \in Int
      BY PathAssumption DEF Items, Times
  <2>2. UNCHANGED <<cache, queue>> /\ Latest' = Latest
      BY DEF Channel!Handle, Latest
  <2>3. w # <<>> /\ item = Head(w) /\ wire' = [wire EXCEPT ![b] = Tail(w)]
      BY DEF Channel!Handle
  <2> QED BY <2>1, <2>2, <2>3, BlockTypes DEF BlockInv
<1>2. /\ \A i \in DOMAIN v : i + 1 \in DOMAIN w /\ v[i] = w[i + 1] /\ i \in Nat /\ i + 1 > 1
      /\ 1 \in DOMAIN w /\ item = w[1]
    BY <1>1
<1>3. wire'[b] = v /\ \A c \in Browsers \ {b} : wire'[c] = wire[c] /\ identity'[c] = identity[c]
    BY <1>1
<1>4. identity'[b] = IF item.id = 0 THEN item.ts ELSE identity[b]
    BY <1>1
<1> HIDE DEF v
<1>5. item.id = 0 => identity[b] <= item.ts /\ item.ts <= Latest
    BY <1>1, <1>2 DEF BlocksInOrder, BlocksWithin
<1>6. BlocksRise(v)
  <2> SUFFICES ASSUME NEW i \in DOMAIN v, NEW j \in DOMAIN v, i < j, v[i].id = 0, v[j].id = 0
               PROVE  v[i].ts <= v[j].ts
      BY DEF BlocksRise
  <2>1. i + 1 < j + 1
      BY <1>2
  <2> QED BY <1>1, <1>2, <2>1 DEF BlocksInOrder, BlocksRise
<1>7. BlocksBefore(v, queue[b]) /\ BlocksWithin(identity[b], v, Latest)
    BY <1>1, <1>2 DEF BlocksInOrder, BlocksBefore, BlocksWithin
<1>8. item.id = 0 => /\ \A i \in DOMAIN v : v[i].id = 0 => item.ts <= v[i].ts
                     /\ \A i \in DOMAIN queue[b] : queue[b][i].id = 0 => item.ts <= queue[b][i].ts
    BY <1>1, <1>2 DEF BlocksInOrder, BlocksRise, BlocksBefore
<1>9. BlocksWithin(identity'[b], v, Latest) /\ BlocksWithin(identity'[b], queue[b], Latest)
  <2>1. CASE item.id = 0
      BY <1>1, <1>4, <1>7, <1>8, <2>1 DEF BlocksInOrder, BlocksWithin
  <2>2. CASE item.id # 0
      BY <1>1, <1>4, <1>7, <2>2 DEF BlocksInOrder
  <2> QED BY <2>1, <2>2
<1>10. identity'[b] <= Latest /\ identity'[b] >= identity[b]
    BY <1>1, <1>4, <1>5 DEF BlocksInOrder
<1>11. BlocksInOrder(b)'
    BY <1>1, <1>3, <1>6, <1>7, <1>9, <1>10 DEF BlocksInOrder, BlocksRise, BlocksBefore, BlocksWithin
<1>12. ASSUME NEW c \in Browsers \ {b} PROVE BlocksInOrder(c)'
    BY <1>1, <1>3 DEF BlockInv, BlocksInOrder, BlocksRise, BlocksBefore, BlocksWithin
<1>13. \A c \in Browsers : identity'[c] >= identity[c]
    BY <1>1, <1>3, <1>10
<1> QED BY <1>1, <1>11, <1>12, <1>13 DEF BlockInv

\* Items are lost, a connection begins with the block cached, a page is reloaded,
\* time passes.
LEMMA LossOrders ==
    ASSUME PathInv, BlockInv, Latest' \in Int, Latest <= Latest', Latest' <= now',
           \A b \in Browsers : identity'[b] \in Int /\ identity'[b] <= identity[b],
           \A b \in Browsers :
             \/ queue'[b] = queue[b] /\ wire'[b] = wire[b]
             \/ queue'[b] = <<>> /\ wire'[b] \in {wire[b], <<>>}
             \/ queue'[b] = <<cache>> /\ cache # NoItem /\ wire'[b] = <<>>
    PROVE  BlockInv'
<1>1. ASSUME NEW b \in Browsers PROVE BlocksInOrder(b)'
  <2> DEFINE q == queue[b]
             w == wire[b]
  <2>1. /\ q \in Seq(Items) /\ w \in Seq(Items) /\ identity[b] \in Int /\ Latest \in Int
        /\ BlocksInOrder(b) /\ identity'[b] \in Int /\ identity'[b] <= identity[b]
      BY BlockTypes DEF BlockInv
  <2>2. \A i \in DOMAIN w : w[i].ts \in Int
      BY <2>1, TsType
  <2>3. \A i \in DOMAIN q : q[i].ts \in Int
      BY <2>1, TsType
  <2>4. BlocksWithin(identity'[b], w, Latest')
      BY <2>1, <2>2 DEF BlocksInOrder, BlocksWithin
  <2>5. BlocksWithin(identity'[b], q, Latest')
      BY <2>1, <2>3 DEF BlocksInOrder, BlocksWithin
  <2>6. identity'[b] <= Latest'
      BY <2>1 DEF BlocksInOrder
  <2>7. CASE queue'[b] = queue[b] /\ wire'[b] = wire[b]
      BY <2>1, <2>4, <2>5, <2>6, <2>7 DEF BlocksInOrder, BlocksRise, BlocksBefore, BlocksWithin
  <2>8. CASE queue'[b] = <<>> /\ wire'[b] \in {wire[b], <<>>}
      BY <2>1, <2>4, <2>6, <2>8 DEF BlocksInOrder, BlocksRise, BlocksBefore, BlocksWithin
  <2>9. CASE queue'[b] = <<cache>> /\ cache # NoItem /\ wire'[b] = <<>>
    <3>1. Latest = cache.ts /\ identity[b] <= Latest
        BY <2>1, <2>9 DEF BlocksInOrder, Latest
    <3>2. BlocksWithin(identity'[b], <<cache>>, Latest')
        BY <2>1, <3>1 DEF BlocksWithin
    <3>3. BlocksRise(<<cache>>)
        BY DEF BlocksRise
    <3> QED BY <2>6, <2>9, <3>2, <3>3 DEF BlocksInOrder, BlocksRise, BlocksBefore, BlocksWithin
  <2> QED BY <2>7, <2>8, <2>9
<1> QED BY <1>1 DEF BlockInv

\* Each step keeps the order, and no step but a reload takes a browser back.
LEMMA StepOrders ==
    ASSUME PathInv, PathInv', BlockInv, [Next]_vars
    PROVE  /\ BlockInv'
           /\ \A b \in Browsers : identity'[b] >= identity[b] \/ identity'[b] = Alert!NotYet
<1>1. /\ Latest \in Int /\ now \in Int /\ identity \in [Browsers -> Int] /\ Latest <= now
      /\ \A b \in Browsers : identity[b] >= Alert!NotYet
  <2>1. \A b \in Browsers : identity[b] \in Times \cup {Alert!NotYet}
      BY DEF PathInv, AlertInv, Alert!AlertTypeOK
  <2>2. \A b \in Browsers : identity[b] >= Alert!NotYet
      BY <2>1, PathAssumption DEF Times, Alert!NotYet
  <2> QED BY <2>2, BlockTypes DEF BlockInv
<1>2. Latest' \in Int /\ now' \in Int
  <2>1. now' \in Int
      BY PathAssumption DEF PathInv, EmissionInv, Emission!EmissionTypeOK, Emission!Times
  <2>2. cache' \in Items \cup {NoItem}
      BY DEF PathInv, ChannelInv, Channel!ChannelTypeOK
  <2> QED BY <2>1, <2>2, PathAssumption DEF Latest, Items, Times
<1>3. now' >= now
  <2>1. now' = now \/ now' = now + 1
      BY DEF Next, vars, emissionVars, PublishIdentity, ClockTick, Restart, Emit, SweepTick, Yield, Deliver,
             BrowserStep, Lose, Reconnect, Reload, Emission!ClockTick, Emission!EngineRestart,
             Emission!SweepEmits, Emission!SweepSilent, Emission!SweepFails
  <2> QED BY <1>1, <2>1
<1>4. cache' = cache => Latest <= Latest' /\ Latest' <= now'
  <2> SUFFICES ASSUME cache' = cache PROVE Latest <= Latest' /\ Latest' <= now'
      OBVIOUS
  <2> QED BY <1>1, <1>2, <1>3 DEF Latest
<1>5. ASSUME identity' = identity
      PROVE  \A b \in Browsers : identity'[b] >= identity[b] /\ identity'[b] \in Int /\ identity'[b] <= identity[b]
    BY <1>1, <1>5
<1>6. CASE UNCHANGED <<cache, queue, wire, identity>>
  <2>1. BlockInv'
      BY <1>2, <1>4, <1>5, <1>6, LossOrders
  <2> QED BY <1>5, <1>6, <2>1
<1>7. CASE PublishIdentity
  <2> DEFINE item == [id |-> 0, ts |-> now]
  <2>1. Channel!ToSubscribers(item) /\ cache' = item /\ UNCHANGED <<wire, identity, now>>
      BY <1>7 DEF PublishIdentity, Channel!PublishBlock, emissionVars, alertVars
  <2>2. item \in Items /\ item.ts = now /\ item # NoItem
      BY PathType, PathAssumption DEF Items, Times, NoItem
  <2>3. Latest' = now
      BY <2>1, <2>2 DEF Latest
  <2> HIDE DEF item
  <2>4. BlockInv'
      BY <1>1, <1>2, <1>3, <2>1, <2>2, <2>3, PublishOrders
  <2> QED BY <1>5, <2>1, <2>4
<1>8. ASSUME NEW found \in Emission!Found, Emit(found)
      PROVE  BlockInv' /\ identity' = identity
  <2> DEFINE item == [id |-> Len(manifests'), ts |-> now]
  <2>1. /\ Channel!ToSubscribers(item) /\ UNCHANGED <<cache, wire, identity, now>>
        /\ Len(manifests) < MaxManifests
      BY <1>8 DEF Emit, Emission!SweepEmits, Emission!Iterates, Channel!PublishEvent, alertVars
  <2>2. Len(manifests') = Len(manifests) + 1
    <3>1. \E m : manifests' = Append(manifests, m)
        BY <1>8 DEF Emit, Emission!SweepEmits
    <3> QED BY <3>1, PathType
  <2>3. item \in Items /\ item.id # 0
      BY <2>1, <2>2, PathType, PathAssumption DEF Items
  <2> HIDE DEF item
  <2>4. BlockInv'
      BY <1>2, <1>4, <2>1, <2>3, PublishOrders
  <2> QED BY <2>1, <2>4
<1>9. ASSUME NEW b \in Browsers, Yield(b) PROVE BlockInv' /\ identity' = identity
  <2>1. Channel!Yield(b) /\ UNCHANGED <<identity, now>>
      BY <1>9 DEF Yield, emissionVars, alertVars
  <2> QED BY <2>1, YieldOrders
<1>10. ASSUME NEW b \in Browsers, Deliver(b)
       PROVE  BlockInv' /\ \A c \in Browsers : identity'[c] >= identity[c]
  <2>1. PICK item \in Items :
          /\ Channel!Handle(b, item) /\ now' = now
          /\ IF item.id = 0 THEN Alert!ApplyIdentity(b, item.ts, now) ELSE Alert!Push(b, item, now)
      BY <1>10 DEF Deliver, emissionVars
  <2>2. identity' = IF item.id = 0 THEN [identity EXCEPT ![b] = item.ts] ELSE identity
      BY <2>1 DEF Alert!ApplyIdentity, Alert!Push
  <2> QED BY <2>1, <2>2, HandleOrders
<1>11. ASSUME NEW b \in Browsers, BrowserStep(b) PROVE UNCHANGED <<cache, queue, wire, identity>>
    BY <1>11
       DEF BrowserStep, channelVars, Alert!AlertStep, Alert!PostStep, Alert!Lock, Alert!Refuse,
           Alert!FrameTimeout, Alert!FrameClear, Alert!BannerEnds, Alert!Resolve, Alert!Acknowledge,
           Alert!Store, Alert!PostSucceeds, Alert!PostFails
<1>12. ASSUME NEW b \in Browsers, Channel!Subscribe(b),
              \A c \in Browsers : identity'[c] \in Int /\ identity'[c] <= identity[c]
       PROVE  BlockInv'
  <2>1. cache' = cache
      BY <1>12 DEF Channel!Subscribe
  <2>2. \A c \in Browsers :
          \/ queue'[c] = queue[c] /\ wire'[c] = wire[c]
          \/ queue'[c] = <<>> /\ wire'[c] = <<>>
          \/ queue'[c] = <<cache>> /\ cache # NoItem /\ wire'[c] = <<>>
      BY <1>12, BlockTypes DEF Channel!Subscribe
  <2> QED BY <1>2, <1>4, <1>12, <2>1, <2>2, LossOrders
<1>13. ASSUME NEW b \in Browsers, Lose(b) \/ Reconnect(b) PROVE BlockInv' /\ identity' = identity
  <2>1. /\ Channel!Break(b) \/ Channel!Hang(b) \/ Channel!Subscribe(b)
        /\ identity' = identity
      BY <1>13 DEF Lose, Reconnect, Channel!Recycle, Channel!Retry, alertVars
  <2>2. CASE Channel!Break(b) \/ Channel!Hang(b)
    <3>1. cache' = cache
        BY <2>2 DEF Channel!Break, Channel!Hang
    <3>2. \A c \in Browsers :
            \/ queue'[c] = queue[c] /\ wire'[c] = wire[c]
            \/ queue'[c] = <<>> /\ wire'[c] \in {wire[c], <<>>}
        BY <2>2, BlockTypes DEF Channel!Break, Channel!Hang
    <3> QED BY <1>2, <1>4, <1>5, <2>1, <3>1, <3>2, LossOrders
  <2> QED BY <1>5, <1>12, <2>1, <2>2
<1>14. ASSUME NEW b \in Browsers, Reload(b)
       PROVE  BlockInv' /\ \A c \in Browsers : identity'[c] >= identity[c] \/ identity'[c] = Alert!NotYet
  <2>1. Channel!Subscribe(b) /\ identity' = [identity EXCEPT ![b] = Alert!NotYet]
      BY <1>14 DEF Reload, Channel!Reopen, Alert!Reload
  <2>2. \A c \in Browsers : /\ identity'[c] \in Int /\ identity'[c] <= identity[c]
                            /\ identity'[c] >= identity[c] \/ identity'[c] = Alert!NotYet
      BY <1>1, <2>1 DEF Alert!NotYet
  <2> QED BY <1>12, <2>1, <2>2
<1>15. CASE Restart
  <2>1. /\ cache' = NoItem /\ identity' = identity /\ now' = now
        /\ \A c \in Browsers : queue'[c] = <<>> /\ wire'[c] \in {wire[c], <<>>}
      BY <1>15 DEF Restart, Emission!EngineRestart, Channel!ChannelRestart, alertVars
  <2>2. Latest' = now
      BY <2>1 DEF Latest
  <2>3. BlockInv'
      BY <1>1, <1>2, <1>3, <1>5, <2>1, <2>2, LossOrders
  <2> QED BY <1>5, <2>1, <2>3
<1>16. CASE UNCHANGED vars \/ ClockTick \/ \E found \in Emission!Found : SweepTick(found)
  <2>1. UNCHANGED <<cache, queue, wire, identity>>
      BY <1>16 DEF vars, channelVars, alertVars, ClockTick, SweepTick
  <2> QED BY <1>6, <2>1
<1> QED BY <1>5, <1>6, <1>7, <1>8, <1>9, <1>10, <1>11, <1>13, <1>14, <1>15, <1>16 DEF Next

\* What a browser displays of the backend never goes back in time, unless the
\* page is reloaded: overflows, hydrations, reconnections and restarts included.
THEOREM BlocksStayInOrder == Spec => BlocksNeverGoBack
<1>1. PathInv /\ PathInv' /\ BlockInv /\ [Next]_vars =>
        BlockInv' /\ [\A b \in Browsers : identity'[b] >= identity[b] \/ identity'[b] = Alert!NotYet]_(Alert!alertVars)
    BY StepOrders
<1> QED BY <1>1, BlocksInitially, PathInvariant, PTL DEF Spec, BlocksNeverGoBack, Alert!BlocksNeverGoBack
=============================================================================
