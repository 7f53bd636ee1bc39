---------------------------- MODULE MCMarketData ----------------------------
(***************************************************************************)
(* One run for the way of the market data: the feed up to the hashes of    *)
(* latest ticks, the minute bars that the normalizer's ticks go to, and    *)
(* the link on which the hub sends the hashes to the browser.  A tick of   *)
(* MinuteBars, like a change of a hash in WsClient, may come at any time,  *)
(* or never, whatever the feed does; so a behaviour chooses a part at the  *)
(* start and steps it alone.                                               *)
(***************************************************************************)
EXTENDS MCMinuteBars, Feed, WsClient

CONSTANTS chain, paper, chainTable, row, detail

VARIABLE part

TaskOf == [c \in Channels |-> IF c = Ticker THEN "normalizer" ELSE "indexer"]

(* A chain that is kept, and a position with a row and a detail panel. *)
TopicSet == {chain, paper}
ViewSet == {chainTable, row, detail}
TopicOfView == [v \in ViewSet |-> IF v = chainTable THEN chain ELSE paper]
VersionBound == [t \in TopicSet |-> IF t = paper THEN 1 ELSE 0]

MarketDataInit ==
  /\ part \in {"feed", "bars", "link"}
  /\ Init /\ FeedInit /\ WsInit
  /\ part # "link" => held = TopicSet

MarketDataNext ==
  /\ UNCHANGED part
  /\ \/ part = "feed" /\ FeedNext /\ UNCHANGED <<vars, wsVars>>
     \/ part = "bars" /\ Next /\ UNCHANGED <<feedVars, wsVars>>
     \/ part = "link" /\ WsNext /\ UNCHANGED <<vars, feedVars>>

MarketDataSpec ==
  /\ MarketDataInit /\ [][MarketDataNext]_<<part, vars, feedVars, wsVars>>
  /\ WF_vars(part = "bars" /\ Aggregate) /\ FeedFairness /\ WsFairness

(* The variables of every part have the values their modules say. *)
MarketDataTypeOK == TypeOK /\ FeedTypeOK /\ WsTypeOK
=============================================================================
