------------------------------ MODULE WsClient ------------------------------
(***************************************************************************)
(* The browser's one WebSocket (frontend/src/lib/ws.ts), the ref-counted   *)
(* stores on top of it (store/liveStore.ts, store/paperStore.ts), the      *)
(* hooks that mount and unmount subscriptions (hooks/*.ts) and, as the     *)
(* other end of the wire, the hub (backend/app/api/stream.py).             *)
(*                                                                         *)
(* A topic is a subscription key (option_chain:BTC:<expiry>,               *)
(* paper_position:<id>, live_positions, live_strategy:<id>, candles:BTC);  *)
(* its payload is a version number of the data behind it.                  *)
(***************************************************************************)
EXTENDS Naturals, Sequences, FiniteSets

CONSTANTS
  Topics,       \* the subscription keys
  Kept,         \* topics of the hooks that never unsubscribe (chains, candles)
  Views,        \* component instances that use a hook
  TopicOf,      \* [Views -> Topics]
  Sampled,      \* views that show a timer-sampled copy (usePaperMtm)
  Fetched,      \* topics with a REST copy to fall back to
  Lapsing,      \* topics of which the hub sends nothing while Redis has no hash
                \* (chains, candles, paper positions)
  LastVersion,  \* [Topics -> Nat], bound on the versions of the data
  MaxUp,        \* bound on the control messages in flight
  MaxQueue,     \* bound on the frames not yet flushed
  MaxDrops,     \* bound on the lost or refused connections and on Redis errors
  None          \* no data yet

ASSUME TopicsFinite == IsFiniteSet(Topics)
ASSUME ViewsFinite == IsFiniteSet(Views)
ASSUME HooksTyped == /\ Kept \subseteq Topics
                     /\ Sampled \subseteq Views
                     /\ Fetched \subseteq Topics
                     /\ Lapsing \subseteq Topics
                     /\ TopicOf \in [Views -> Topics]
                     /\ LastVersion \in [Topics -> Nat]
ASSUME BoundsTyped == {MaxUp, MaxQueue, MaxDrops} \subseteq Nat
ASSUME NoneIsNoVersion == None \notin Nat

VARIABLES
  source,    \* the data: topic -> version
  held,      \* topics of which Redis has something for the hub to send
  sock,      \* the module's `socket`: none, or its readyState
  timer,     \* reconnectTimer is pending
  status,    \* the store's connection status, shown by ConnectionBadge
  desired,   \* desiredSubs
  refs,      \* _refs, _stratRefs, _posRefs: topic -> mounted users
  up,        \* control messages on their way to the hub
  subs,      \* the hub's subscriptions of this connection
  pushing,   \* what the hub's current push still has to send
  pusher,    \* the push task of this connection runs
  queue,     \* frames sent to the browser and not yet flushed
  store,     \* the freshest frame per topic (chains, mtm, positions, slState)
  rest,      \* the react-query copy of the same data
  mounted,   \* views on the page
  snapshot,  \* what a sampled view last copied from the store
  drops

wire == <<up, subs, pushing, pusher>>
wsVars == <<source, held, sock, timer, status, desired, refs, wire, queue, store,
            rest, mounted, snapshot, drops>>

Versions == Nat \cup {None}
Control == [on : BOOLEAN, topic : Topics]
Frame == [topic : Topics, version : Nat]

WsTypeOK ==
  /\ source \in [Topics -> Nat]
  /\ held \subseteq Topics
  /\ sock \in {"none", "connecting", "open", "closing"}
  /\ timer \in BOOLEAN
  /\ status \in {"connected", "reconnecting", "disconnected"}
  /\ desired \subseteq Topics
  /\ refs \in [Topics -> Nat]
  /\ up \in Seq(Control)
  /\ subs \subseteq Topics
  /\ pushing \subseteq Topics
  /\ pusher \in BOOLEAN
  /\ queue \in Seq(Frame)
  /\ store \in [Topics -> Versions]
  /\ rest \in [Topics -> Versions]
  /\ mounted \subseteq Views
  /\ snapshot \in [Views -> Versions]
  /\ drops \in Nat

WsInit ==
  /\ source = [t \in Topics |-> 0]
  /\ held \in SUBSET Topics /\ Topics \ Lapsing \subseteq held
  /\ sock = "none" /\ timer = FALSE /\ status = "disconnected"
  /\ desired = {} /\ refs = [t \in Topics |-> 0]
  /\ up = <<>> /\ subs = {} /\ pushing = {} /\ pusher = FALSE /\ queue = <<>>
  /\ store = [t \in Topics |-> None] /\ rest = [t \in Topics |-> None]
  /\ mounted = {} /\ snapshot = [v \in Views |-> None]
  /\ drops = 0

-----------------------------------------------------------------------------
(* ensureSocket: a new socket unless the module holds one. *)
Ensured == IF sock = "none" THEN "connecting" ELSE sock

(* send: dropped unless the socket is open. *)
Sent(wireUp, on, t) ==
  IF sock = "open" THEN Append(wireUp, [on |-> on, topic |-> t]) ELSE wireUp

(* subscribeX: remember the subscription, make sure of a socket, send. *)
Subscribe(t) ==
  /\ desired' = desired \cup {t}
  /\ sock' = Ensured
  /\ up' = Sent(up, TRUE, t)

(* unsubscribeX: forget the subscription and tell the hub. *)
Unsubscribe(t) ==
  /\ desired' = desired \ {t}
  /\ up' = Sent(up, FALSE, t)
  /\ UNCHANGED sock

(* The stores count the users of a topic. *)
Counted(t) == IF t \in Kept THEN refs ELSE [refs EXCEPT ![t] = @ + 1]

\* Mutant of Released: one user's cleanup clears the count of all.
ReleasedAll(t) == 0

(* One user fewer. *)
Released(t) == IF refs[t] <= 1 THEN 0 ELSE refs[t] - 1

(* A hook's effect runs: it counts the user, always subscribes, and a      *)
(* sampling hook seeds its snapshot.                                       *)
Mount(v) ==
  LET t == TopicOf[v] IN
  /\ v \notin mounted /\ Len(up) < MaxUp
  /\ mounted' = mounted \cup {v}
  /\ refs' = Counted(t)
  /\ Subscribe(t)
  /\ snapshot' = [snapshot EXCEPT ![v] = IF v \in Sampled THEN store[t] ELSE None]
  /\ UNCHANGED <<source, held, timer, status, subs, pushing, pusher, queue, store, rest, drops>>

(* The effect's cleanup: the last user unsubscribes.  useOptionChain and   *)
(* useSpotCandles have no cleanup.                                         *)
Unmount(v) ==
  LET t == TopicOf[v] IN
  /\ v \in mounted /\ Len(up) < MaxUp
  /\ mounted' = mounted \ {v}
  /\ IF t \in Kept
       THEN UNCHANGED <<refs, desired, sock, up>>
       ELSE /\ refs' = [refs EXCEPT ![t] = Released(t)]
            /\ IF refs[t] <= 1 THEN Unsubscribe(t)
                               ELSE UNCHANGED <<desired, sock, up>>
  /\ snapshot' = [snapshot EXCEPT ![v] = None]
  /\ UNCHANGED <<source, held, timer, status, subs, pushing, pusher, queue, store, rest, drops>>

-----------------------------------------------------------------------------
\* Mutant of Replays: nothing is replayed on a reconnect.
NoReplay == {<<>>}

(* replayAll: every desired subscription once, in the map's order. *)
Replays == {s \in [1..Cardinality(desired) -> desired] :
              \A t \in desired : \E i \in DOMAIN s : s[i] = t}

(* onopen; ws_endpoint starts a push task for the connection. *)
SocketOpens ==
  /\ sock = "connecting"
  /\ sock' = "open" /\ status' = "connected" /\ pusher' = TRUE
  /\ \E s \in Replays : up' = [i \in DOMAIN s |-> [on |-> TRUE, topic |-> s[i]]]
  /\ UNCHANGED <<source, held, timer, desired, refs, subs, pushing, queue, store,
                 rest, mounted, snapshot, drops>>

(* The connection dies: both wires and the hub's session are gone before   *)
(* the browser's close event runs; sends in between find a socket that is  *)
(* not open.                                                               *)
SocketLost ==
  /\ sock = "open" /\ drops < MaxDrops
  /\ drops' = drops + 1
  /\ sock' = "closing"
  /\ up' = <<>> /\ subs' = {} /\ pushing' = {} /\ pusher' = FALSE
  /\ UNCHANGED <<source, held, timer, status, desired, refs, queue, store, rest,
                 mounted, snapshot>>

\* Mutant of ScheduleReconnect: the module keeps the dead socket.
KeepsDeadSocket ==
  /\ sock' = sock
  /\ timer' = TRUE
  /\ status' = "reconnecting"

(* onclose -> scheduleReconnect: one timer at a time. *)
ScheduleReconnect ==
  /\ sock' = "none"
  /\ timer' = TRUE
  /\ status' = IF timer THEN "disconnected" ELSE "reconnecting"

SocketCloses ==
  /\ sock = "closing"
  /\ ScheduleReconnect
  /\ UNCHANGED <<source, held, desired, refs, wire, queue, store, rest, mounted,
                 snapshot, drops>>

(* The handshake fails. *)
ConnectFails ==
  /\ sock = "connecting" /\ drops < MaxDrops
  /\ drops' = drops + 1
  /\ ScheduleReconnect
  /\ UNCHANGED <<source, held, desired, refs, wire, queue, store, rest, mounted, snapshot>>

TimerFires ==
  /\ timer
  /\ timer' = FALSE
  /\ sock' = Ensured
  /\ UNCHANGED <<source, held, status, desired, refs, wire, queue, store, rest,
                 mounted, snapshot, drops>>

-----------------------------------------------------------------------------
(* The hub: _handle_control, in the order of the wire. *)
HubHears ==
  /\ up # <<>>
  /\ up' = Tail(up)
  /\ subs' = IF Head(up).on THEN subs \cup {Head(up).topic}
                            ELSE subs \ {Head(up).topic}
  /\ UNCHANGED <<source, held, sock, timer, status, desired, refs, pushing, pusher,
                 queue, store, rest, mounted, snapshot, drops>>

(* _push_loop: every half second, over a copy of the subscriptions. *)
HubTick ==
  /\ sock = "open" /\ pusher /\ pushing = {} /\ subs # {}
  /\ pushing' = subs
  /\ UNCHANGED <<source, held, sock, timer, status, desired, refs, up, subs, pusher,
                 queue, store, rest, mounted, snapshot, drops>>

(* _push_subscriptions: each topic is read at its own await; of a topic    *)
(* whose hash is not there nothing is sent.                                *)
HubSends(t) ==
  /\ t \in pushing
  /\ pushing' = pushing \ {t}
  /\ \/ /\ t \in held /\ Len(queue) < MaxQueue
        /\ queue' = Append(queue, [topic |-> t, version |-> source[t]])
     \/ t \notin held /\ UNCHANGED queue
  /\ UNCHANGED <<source, held, sock, timer, status, desired, refs, up, subs, pusher,
                 store, rest, mounted, snapshot, drops>>

(* Redis raises while a topic is read: the push task ends, and the         *)
(* connection stays open without it.                                       *)
PushRaises ==
  /\ pushing # {} /\ drops < MaxDrops
  /\ pushing' = {} /\ pusher' = FALSE
  /\ drops' = drops + 1
  /\ UNCHANGED <<source, held, sock, timer, status, desired, refs, up, subs, queue,
                 store, rest, mounted, snapshot>>

(* Someone writes the hash, and its TTL runs out. *)
SourceChanges(t) ==
  /\ source[t] < LastVersion[t]
  /\ source' = [source EXCEPT ![t] = @ + 1]
  /\ held' = held \cup {t}
  /\ UNCHANGED <<sock, timer, status, desired, refs, wire, queue, store, rest,
                 mounted, snapshot, drops>>

SourceLapses(t) ==
  /\ t \in held \cap Lapsing
  /\ held' = held \ {t}
  /\ UNCHANGED <<source, sock, timer, status, desired, refs, wire, queue, store, rest,
                 mounted, snapshot, drops>>

-----------------------------------------------------------------------------
\* Mutant of Applied: the store keeps the frame, not its data.
AppliedFrame(t) ==
  LET mine == {i \in DOMAIN queue : queue[i].topic = t}
  IN  IF mine = {} THEN store[t] ELSE queue[CHOOSE i \in mine : TRUE].topic

(* The frames of a batch are applied in order: the last one of a topic wins. *)
Applied(t) ==
  LET mine == {i \in DOMAIN queue : queue[i].topic = t}
  IN  IF mine = {} THEN store[t]
      ELSE queue[CHOOSE i \in mine : \A j \in mine : j <= i].version

(* The animation-frame tick: _applyBatch and the stores' listeners. *)
Flush ==
  /\ queue # <<>>
  /\ queue' = <<>>
  /\ store' = [t \in Topics |-> Applied(t)]
  /\ UNCHANGED <<source, held, sock, timer, status, desired, refs, wire, rest, mounted,
                 snapshot, drops>>

(* usePaperMtm's interval. *)
Sample(v) ==
  /\ v \in mounted \cap Sampled
  /\ snapshot' = [snapshot EXCEPT ![v] = store[TopicOf[v]]]
  /\ UNCHANGED <<source, held, sock, timer, status, desired, refs, wire, queue, store,
                 rest, mounted, drops>>

(* A query of a mounted view is (re)fetched over REST. *)
Refetch(v) ==
  /\ v \in mounted /\ TopicOf[v] \in Fetched
  /\ rest' = [rest EXCEPT ![TopicOf[v]] = source[TopicOf[v]]]
  /\ UNCHANGED <<source, held, sock, timer, status, desired, refs, wire, queue, store,
                 mounted, snapshot, drops>>

(* What the view shows: the live copy wins over the REST copy. *)
Live(v) == IF v \in Sampled THEN snapshot[v] ELSE store[TopicOf[v]]
Shown(v) == IF Live(v) # None THEN Live(v) ELSE rest[TopicOf[v]]

-----------------------------------------------------------------------------
Page == \E v \in Views : Mount(v) \/ Unmount(v) \/ Sample(v) \/ Refetch(v)
Connection == SocketOpens \/ SocketLost \/ SocketCloses \/ ConnectFails \/ TimerFires
Hub == \/ HubHears \/ HubTick \/ PushRaises
       \/ \E t \in Topics : HubSends(t) \/ SourceChanges(t) \/ SourceLapses(t)

WsNext == Page \/ Connection \/ Hub \/ Flush

WsSpec == WsInit /\ [][WsNext]_wsVars

(* Timers, animation frames and the event loop run; the hub's loop goes on *)
(* or ends with an error; a handshake ends, one way or the other, and a    *)
(* dead socket gets its close event.                                       *)
WsFairness ==
  /\ WF_wsVars(SocketOpens \/ ConnectFails \/ SocketCloses)
  /\ WF_wsVars(TimerFires)
  /\ WF_wsVars(HubHears)
  /\ WF_wsVars(HubTick \/ PushRaises \/ \E t \in Topics : HubSends(t))
  /\ WF_wsVars(Flush)
  /\ \A v \in Sampled : WF_wsVars(Sample(v))
-----------------------------------------------------------------------------
(* Once the hub has heard what is on the wire it serves t: the last        *)
(* control message about t asks for it or, with none left, it does already. *)
WillServe(t) ==
  \/ \E i \in DOMAIN up : /\ up[i] = [on |-> TRUE, topic |-> t]
                         /\ \A j \in DOMAIN up : up[j].topic = t => j <= i
  \/ t \in subs /\ \A j \in DOMAIN up : up[j].topic # t

(* On an open socket the hub has, or is about to hear of, exactly the      *)
(* desired subscriptions: those asked for while the socket was down are    *)
(* replayed, those dropped meanwhile are not.                              *)
(* ws.ts:204-205, 259-275.                                                 *)
SessionAsDesired ==
  sock = "open" => \A t \in Topics : WillServe(t) <=> t \in desired

(* Components that share a topic share one subscription, which lives       *)
(* exactly as long as one of them is mounted, whatever the order of mounts *)
(* and unmounts.  liveStore.ts:58-88, paperStore.ts:47-63.                 *)
SharedWhileMounted ==
  \A t \in Topics \ Kept :
    t \in desired <=> \E v \in mounted : TopicOf[v] = t

(* As long as something is subscribed there is a socket or a reconnect is  *)
(* scheduled: no order of subscribing, closing and timers leaves the       *)
(* client waiting for nothing.  ws.ts:263-302.                             *)
NeverStranded == desired # {} => sock # "none" \/ timer

(* The connection is open and its push task has ended: nobody will send,   *)
(* and the client has no reason to connect again.                          *)
Muted == sock = "open" /\ ~pusher

(* Again and again all the views of a topic are current at once, or Redis  *)
(* has no data of it, or the push task is gone: however mounts, lost       *)
(* connections, the hub's loop, the queue and the samplings interleave,    *)
(* nothing else leaves a view with old data for ever, a topic whose hash   *)
(* is missing holds up no other, and one that comes back is shown again.   *)
(* ws.ts:222-250, usePaperMtm.ts:27-37, stream.py:102-163.                 *)
EventuallyFresh ==
  \A t \in Topics :
    []<>( \/ Muted
          \/ t \notin held
          \/ \A v \in mounted : TopicOf[v] = t => Shown(v) = source[t] )

=============================================================================
