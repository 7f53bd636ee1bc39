-------------------------------- MODULE Feed --------------------------------
(***************************************************************************)
(* The market feed: what the lifespan of the application subscribes to     *)
(* (main.py), the one connection to the exchange (services/delta_ws.py),   *)
(* the Redis channel behind it, and the two tasks that turn its frames     *)
(* into the latest:* hashes (workers/tick_normalizer.py, spot_indexer.py). *)
(***************************************************************************)
EXTENDS Integers, FiniteSets

CONSTANTS
  Channels,       \* "v2/ticker", "spot_price" (and "candlestick_1m", handled alike)
  Ticker,         \* the first of them, which needs option symbols
  Handlers, HandlerOf,  \* the task that handles the frames of a channel
  MaxFeedFaults   \* bound on lost connections, failed calls and restarts

ASSUME FeedBounds ==
  /\ Ticker \in Channels /\ HandlerOf \in [Channels -> Handlers]
  /\ MaxFeedFaults \in Nat

VARIABLES
  wanted,      \* _subs of the client
  link,      \* where run() is
  connected, \* what /health/deep is told
  heard,     \* what the exchange sends on this connection
  silent,    \* the connection is dead and nobody has noticed
  inRedis,   \* the frames published to the dx:* channels and not handled
  handling,  \* the handler tasks that run
  latest,    \* the channels whose hashes in Redis have not expired
  feedFaults

feedVars == <<wanted, link, connected, heard, silent, inRedis, handling, latest, feedFaults>>

FeedInit ==
  /\ wanted = {} /\ link = "off" /\ connected = FALSE
  /\ heard = {} /\ silent = FALSE
  /\ inRedis = {} /\ handling = {} /\ latest = {}
  /\ feedFaults = 0

Fault == feedFaults < MaxFeedFaults /\ feedFaults' = feedFaults + 1

-----------------------------------------------------------------------------
(* lifespan: the products decide what is subscribed, before the tasks are  *)
(* started; without option symbols there is no ticker, and when the        *)
(* bootstrap fails there is nothing ("starting degraded").                 *)
Starts(asked) ==
  /\ link = "off"
  /\ wanted' = asked
  /\ link' = "connecting" /\ handling' = Handlers
  /\ UNCHANGED <<connected, heard, silent, inRedis, latest>>

BootstrapOk == \E asked \in {Channels, Channels \ {Ticker}} :
                 Starts(asked) /\ UNCHANGED feedFaults

StartsDegraded == Starts({}) /\ Fault

(* The process ends; Redis keeps the hashes. *)
ProcessStops ==
  /\ link # "off" /\ Fault
  /\ link' = "off" /\ connected' = FALSE /\ wanted' = {}
  /\ heard' = {} /\ silent' = FALSE /\ inRedis' = {} /\ handling' = {}
  /\ UNCHANGED latest

-----------------------------------------------------------------------------
Connects ==
  /\ link = "connecting"
  /\ link' = "open" /\ connected' = TRUE
  /\ heard' = {} /\ silent' = FALSE
  /\ UNCHANGED <<wanted, inRedis, handling, latest, feedFaults>>

ConnectRaises ==
  /\ link = "connecting" /\ Fault
  /\ link' = "backoff"
  /\ UNCHANGED <<wanted, connected, heard, silent, inRedis, handling, latest>>

\* Mutant of Resubscribed: the exchange is taken to remember.
ResubscribedOnce == IF feedFaults = 0 THEN wanted ELSE {}

(* The whole set, on every connection. *)
Resubscribed == wanted

Resubscribe ==
  /\ link = "open"
  /\ link' = "reading"
  /\ heard' = Resubscribed
  /\ UNCHANGED <<wanted, connected, silent, inRedis, handling, latest, feedFaults>>

(* ConnectionClosed or another exception, in the send or the read loop. *)
LinkEnds ==
  /\ link' = "backoff" /\ connected' = FALSE
  /\ heard' = {} /\ silent' = FALSE
  /\ UNCHANGED <<wanted, inRedis, handling, latest>>

ConnectionLost == link \in {"open", "reading"} /\ Fault /\ LinkEnds

(* Frames stop without a close; the pings of the library find out. *)
GoesSilent ==
  /\ link = "reading" /\ ~silent /\ Fault
  /\ silent' = TRUE
  /\ UNCHANGED <<wanted, link, connected, heard, inRedis, handling, latest>>

PingTimeout == link = "reading" /\ silent /\ LinkEnds /\ UNCHANGED feedFaults

BackoffEnds ==
  /\ link = "backoff"
  /\ link' = "connecting"
  /\ UNCHANGED <<wanted, connected, heard, silent, inRedis, handling, latest, feedFaults>>

-----------------------------------------------------------------------------
(* A frame comes and is published.  Redis keeps it for no one: a task that *)
(* has ended does not get it.                                              *)
FrameArrives(c) ==
  /\ link = "reading" /\ ~silent /\ c \in heard
  /\ inRedis' = inRedis \cup {d \in {c} : HandlerOf[d] \in handling}
  /\ UNCHANGED <<wanted, link, connected, heard, silent, handling, latest, feedFaults>>

(* publish raises: the read loop ends with it. *)
PublishRaises == link = "reading" /\ ~silent /\ heard # {} /\ Fault /\ LinkEnds

(* _process: the hash, with a new TTL (and the minute buffer, MinuteBars). *)
(* A frame that is not JSON or names no symbol changes nothing.            *)
Handle(c) ==
  /\ c \in inRedis /\ HandlerOf[c] \in handling
  /\ inRedis' = inRedis \ {c}
  /\ latest' = latest \cup {c}
  /\ UNCHANGED <<wanted, link, connected, heard, silent, handling, feedFaults>>

(* Redis raises in _process or in listen(): nothing catches it, and the    *)
(* task has ended.                                                         *)
HandlerDies(h) ==
  /\ h \in handling /\ Fault
  /\ handling' = handling \ {h}
  /\ inRedis' = {c \in inRedis : HandlerOf[c] # h}
  /\ UNCHANGED <<wanted, link, connected, heard, silent, latest>>

(* No frame of the channel for the time of the TTL. *)
Expires(c) ==
  /\ c \in latest /\ c \notin inRedis
  /\ link = "reading" /\ ~silent /\ HandlerOf[c] \in handling => c \notin heard
  /\ latest' = latest \ {c}
  /\ UNCHANGED <<wanted, link, connected, heard, silent, inRedis, handling, feedFaults>>

Link == Connects \/ Resubscribe \/ PingTimeout \/ BackoffEnds

FeedNext ==
  \/ BootstrapOk \/ StartsDegraded \/ ProcessStops
  \/ Link \/ ConnectRaises \/ ConnectionLost \/ GoesSilent \/ PublishRaises
  \/ \E c \in Channels : FrameArrives(c) \/ Handle(c) \/ Expires(c)
  \/ \E h \in Handlers : HandlerDies(h)

(* The task of the client runs on, its sleeps and pings end; the exchange  *)
(* sends what was subscribed; the handlers run.                            *)
FeedFairness ==
  /\ WF_feedVars(Link)
  /\ \A c \in Channels : WF_feedVars(FrameArrives(c)) /\ WF_feedVars(Handle(c))

FeedSpec == FeedInit /\ [][FeedNext]_feedVars /\ FeedFairness

-----------------------------------------------------------------------------
FeedTypeOK ==
  /\ wanted \subseteq Channels /\ heard \subseteq Channels
  /\ inRedis \subseteq Channels /\ latest \subseteq Channels
  /\ handling \subseteq Handlers
  /\ link \in {"off", "connecting", "open", "reading", "backoff"}
  /\ connected \in BOOLEAN /\ silent \in BOOLEAN

(* "a channel is never silently dropped": what the process subscribed to   *)
(* is in Redis again after any loss of the connection, noticed or not, any *)
(* failed attempt and any frame that could not be published, unless the    *)
(* process stops or the task that handles the channel has ended.           *)
(* delta_ws.py:76-126, tick_normalizer.py:135-161.                         *)
TicksResume ==
  \A c \in Channels :
    c \in wanted ~> (c \in latest /\ link = "reading") \/ link = "off" \/ HandlerOf[c] \notin handling

=============================================================================
