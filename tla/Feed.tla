-------------------------------- MODULE Feed --------------------------------
(***************************************************************************)
(* The way of capture events and log records to the screens: aggregator.py *)
(* and logbus.py collect them, the state pump and the log pump of          *)
(* server.py record them and send them to every viewer, and                *)
(* ConnectionProvider.tsx hands them to store.ts, the frames coalesced.    *)
(* Events and records are numbered as they are ingested.                   *)
(*                                                                         *)
(* The server is one asyncio loop, and "await ws.send" only suspends when  *)
(* the connection holds more than its write limit, whichever pump filled   *)
(* it: a step of a pump goes on until then.  Bus callbacks run in threads  *)
(* of their own, viewers in processes of their own.                        *)
(***************************************************************************)
EXTENDS Integers, FiniteSets, SequencesExt

CONSTANTS
  Viewers,     \* browsers, each with at most one connection
  Steadfast,   \* viewers that never lose their connection
  Operators,   \* viewers that start runs
  None,
  WireLimit,   \* messages a connection holds before a send suspends
  LogRows,     \* log_ring_buffer_rows of the gateway, MAX_LOG_ROWS of the viewer
  EventRows,   \* MAX_EVENTS of the viewer
  DiskMayFail, \* a write of the recorder may raise
  MaxItems     \* bound: capture events and log records together

ASSUME FeedAssumption ==
  /\ Steadfast \subseteq Viewers /\ Operators \subseteq Steadfast /\ None \notin Viewers
  /\ WireLimit \in Nat \ {0} /\ MaxItems \in Nat
  /\ LogRows \in Nat \ {0} /\ EventRows \in Nat \ {0}
  /\ DiskMayFail \in BOOLEAN /\ IsFiniteSet(Viewers)

VARIABLES
  ingested,  \* of either pump, how many items its source has seen
  cleared,   \* how many events the aggregator had seen at the last clear()
  lost,      \* history: records that fell out of the log bus
  pending,   \* _events of the aggregator, _pending of the log bus
  clients,   \* GatewayServer.clients
  pump,      \* where each pump is in _broadcast, and with what
  link,      \* of each viewer's connection: "up", "lost" (server yet to notice), "down"
  wire,      \* messages on the way to each viewer
  held,      \* pendingFrame of each steadfast viewer, by its events
  shown,     \* events and logs in the store of each steadfast viewer
  asked      \* viewers whose scenarios.run is on its way to the server

sourceVars == <<ingested, cleared, lost, pending>>
viewVars == <<link, wire, held, shown, asked>>
feedVars == <<sourceVars, clients, pump, viewVars>>

Pumps == {"state", "logs"}
Item == 1 .. MaxItems
Message == [of : Pumps, items : Seq(Item)]

\* size is what the set iterator remembers of the set, on the connection a send is
\* suspended for (None once that connection is gone).
Pump == [at : {"ready", "suspended", "crashed"}, items : Seq(Item), size : Nat,
         todo : SUBSET Viewers, sent : SUBSET Viewers, dead : SUBSET Viewers,
         on : Viewers \cup {None}]

Ready == [at |-> "ready", items |-> <<>>, size |-> 0, todo |-> {}, sent |-> {}, dead |-> {},
          on |-> None]
Crashed == [Ready EXCEPT !.at = "crashed"]

FeedTypeOK ==
  /\ ingested \in [Pumps -> 0 .. MaxItems] /\ cleared \in 0 .. ingested["state"]
  /\ lost \in SUBSET Item
  /\ pending \in [Pumps -> Seq(Item)] /\ Len(pending["logs"]) <= LogRows
  /\ clients \in SUBSET Viewers
  /\ pump \in [Pumps -> Pump]
  /\ link \in [Viewers -> {"up", "lost", "down"}]
  /\ wire \in [Viewers -> Seq(Message)]
  /\ \A v \in Viewers : Len(wire[v]) <= WireLimit + Cardinality(Pumps)
  /\ held \in [Steadfast -> Seq(Item)]
  /\ shown \in [Steadfast -> [Pumps -> Seq(Item)]]
  /\ asked \in SUBSET Viewers

FeedInit ==
  /\ ingested = [p \in Pumps |-> 0] /\ cleared = 0 /\ lost = {}
  /\ pending = [p \in Pumps |-> <<>>]
  /\ clients = Viewers
  /\ pump = [p \in Pumps |-> Ready]
  /\ link = [v \in Viewers |-> "up"]
  /\ wire = [v \in Viewers |-> <<>>]
  /\ held = [v \in Steadfast |-> <<>>]
  /\ shown = [v \in Steadfast |-> [p \in Pumps |-> <<>>]]
  /\ asked = {}

\* The last n elements.
LastOf(seq, n) == SubSeq(seq, IF Len(seq) > n THEN Len(seq) - n + 1 ELSE 1, Len(seq))

-----------------------------------------------------------------------------
(* aggregator.py and logbus.py                                             *)

Numbered(p) ==
  /\ ingested["state"] + ingested["logs"] < MaxItems
  /\ ingested' = [ingested EXCEPT ![p] = @ + 1]

IngestCapture ==
  /\ Numbered("state")
  /\ pending' = [pending EXCEPT !["state"] = Append(@, ingested'["state"])]
  /\ UNCHANGED <<cleared, lost, clients, pump, viewVars>>

\* The deque drops its oldest record; what is below min_level never gets here.
IngestLog ==
  /\ Numbered("logs")
  /\ pending' = [pending EXCEPT !["logs"] = LastOf(Append(@, ingested'["logs"]), LogRows)]
  /\ lost' = lost \cup (ToSet(pending["logs"]) \ ToSet(pending'["logs"]))
  /\ UNCHANGED <<cleared, clients, pump, viewVars>>

-----------------------------------------------------------------------------
(* server.py: the pumps                                                    *)

\* There is always a frame, but only a batch of logs where there are some.
HasMessage(p) == p = "state" \/ pending[p] # <<>>

\* The rest of a broadcast, up to its end or to the first send that suspends.  It
\* visits the clients in any order; those it has reached by then had room, or were
\* found gone.  A connection that joined meanwhile may be visited or not.
Broadcast(p, b) ==
  \E reach \in SUBSET (clients \ b.sent) :
    LET up == {v \in reach : link[v] = "up"}
        dead == b.dead \cup (reach \ up)
        Sent(to) == [v \in Viewers |-> IF v \in to
                                      THEN Append(wire[v], [of |-> p, items |-> b.items])
                                      ELSE wire[v]]
    IN /\ \A v \in up : Len(wire[v]) < WireLimit
       /\ \/ /\ b.todo \cap clients \subseteq b.sent \cup reach
             /\ wire' = Sent(up)
             /\ clients' = clients \ dead
             /\ pump' = [pump EXCEPT ![p] = Ready]
          \/ \E v \in clients \ (b.sent \cup reach) :
               /\ link[v] = "up" /\ Len(wire[v]) >= WireLimit
               /\ wire' = Sent(up \cup {v})
               /\ pump' = [pump EXCEPT ![p] = [b EXCEPT !.at = "suspended", !.on = v, !.dead = dead,
                                                       !.sent = @ \cup reach \cup {v}]]
               /\ UNCHANGED clients

Begun(p) == [Ready EXCEPT !.items = pending[p], !.size = Cardinality(clients), !.todo = clients]

\* Mutant: the message takes the items along but leaves them where they were.
SendAgain(p) ==
  /\ pump[p].at = "ready" /\ HasMessage(p)
  /\ Broadcast(p, Begun(p))
  /\ UNCHANGED <<sourceVars, link, held, shown, asked>>

\* build_snapshot and drain_batch take the items, whether or not anybody is connected.
Send(p) ==
  /\ pump[p].at = "ready" /\ HasMessage(p)
  /\ pending' = [pending EXCEPT ![p] = <<>>]
  /\ Broadcast(p, Begun(p))
  /\ UNCHANGED <<ingested, cleared, lost, link, held, shown, asked>>

\* The recorder raises before anything is sent; nobody catches it, and nobody awaits
\* the task of the pump.
WriteRaises(p) ==
  /\ DiskMayFail /\ pump[p].at = "ready" /\ HasMessage(p)
  /\ pending' = [pending EXCEPT ![p] = <<>>]
  /\ pump' = [pump EXCEPT ![p] = Crashed]
  /\ UNCHANGED <<ingested, cleared, lost, clients, viewVars>>

\* Python refuses to go on with a set whose size has changed.
IteratorValid(p) == Cardinality(clients) = pump[p].size

Drains(v) == IF v = None THEN TRUE ELSE link[v] = "up" /\ Len(wire[v]) <= WireLimit
Closed(v) == IF v = None THEN FALSE ELSE link[v] # "up"

\* The connection the pump waited for has drained, or raises ConnectionClosed.
Resume(p) ==
  /\ pump[p].at = "suspended" /\ IteratorValid(p)
  /\ LET v == pump[p].on IN
     \/ Drains(v) /\ Broadcast(p, [pump[p] EXCEPT !.on = None])
     \/ Closed(v) /\ Broadcast(p, [pump[p] EXCEPT !.on = None, !.dead = @ \cup {v}])
  /\ UNCHANGED <<sourceVars, link, held, shown, asked>>

\* RuntimeError, of which the same holds as of the recorder's.
ResumeRaises(p) ==
  /\ pump[p].at = "suspended" /\ ~IteratorValid(p)
  /\ Drains(pump[p].on) \/ Closed(pump[p].on)
  /\ pump' = [pump EXCEPT ![p] = Crashed]
  /\ UNCHANGED <<sourceVars, clients, viewVars>>

-----------------------------------------------------------------------------
(* server.py: connections, and scenarios.run                               *)

Lose(v) ==
  /\ link[v] = "up"
  /\ link' = [link EXCEPT ![v] = "lost"]
  /\ wire' = [wire EXCEPT ![v] = <<>>]
  /\ UNCHANGED <<sourceVars, clients, pump, held, shown, asked>>

\* The "finally" of _handler.
HandlerEnds(v) ==
  /\ link[v] = "lost"
  /\ clients' = clients \ {v}
  /\ link' = [link EXCEPT ![v] = "down"]
  /\ UNCHANGED <<sourceVars, pump, wire, held, shown, asked>>

\* A new connection object: what the pumps know is about the old one.
HandlerStarts(v) ==
  /\ link[v] = "down"
  /\ clients' = clients \cup {v}
  /\ link' = [link EXCEPT ![v] = "up"]
  /\ pump' = [p \in Pumps |->
                [pump[p] EXCEPT !.todo = @ \ {v}, !.sent = @ \ {v}, !.dead = @ \ {v},
                                !.on = IF @ = v THEN None ELSE @]]
  /\ UNCHANGED <<sourceVars, wire, held, shown, asked>>

\* _run_scenario clears the aggregator before it sends the goal.
ProxyRun(v) ==
  /\ v \in asked
  /\ asked' = asked \ {v}
  /\ pending' = [pending EXCEPT !["state"] = <<>>]
  /\ cleared' = ingested["state"]
  /\ UNCHANGED <<ingested, lost, clients, pump, link, wire, held, shown>>

-----------------------------------------------------------------------------
(* ConnectionProvider.tsx, store.ts, ScenarioPanel.tsx                     *)

Arrives(v, p) ==
  /\ wire[v] # <<>> /\ Head(wire[v]).of = p
  /\ wire' = [wire EXCEPT ![v] = Tail(@)]
  /\ UNCHANGED <<sourceVars, clients, pump, link, asked>>

\* Mutant: the newest frame replaces the one not yet flushed.
OnFrameLatest(v) ==
  /\ Arrives(v, "state")
  /\ held' = [held EXCEPT ![v] = Head(wire[v]).items]
  /\ UNCHANGED shown

OnFrame(v) ==
  /\ Arrives(v, "state")
  /\ held' = [held EXCEPT ![v] = @ \o Head(wire[v]).items]
  /\ UNCHANGED shown

\* Logs go straight to the store, which keeps the newest.
OnLogs(v) ==
  /\ Arrives(v, "logs")
  /\ shown' = [shown EXCEPT ![v]["logs"] = LastOf(@ \o Head(wire[v]).items, LogRows)]
  /\ UNCHANGED held

\* applyFrame: of the events, too, the store keeps the newest.
FlushFrame(v) ==
  /\ held[v] # <<>>
  /\ shown' = [shown EXCEPT ![v]["state"] = LastOf(@ \o held[v], EventRows)]
  /\ held' = [held EXCEPT ![v] = <<>>]
  /\ UNCHANGED <<sourceVars, clients, pump, link, wire, asked>>

\* Of a viewer that may go only how fast it reads is followed.
OnMessageElsewhere(v) == \E p \in Pumps : Arrives(v, p) /\ UNCHANGED <<held, shown>>

\* The Run button: resetScene, which keeps the logs, then the request.
ClickRun(v) ==
  /\ v \in Operators \ asked
  /\ shown' = [shown EXCEPT ![v]["state"] = <<>>]
  /\ asked' = asked \cup {v}
  /\ UNCHANGED <<sourceVars, clients, pump, link, wire, held>>

-----------------------------------------------------------------------------

PumpStep(p) == Send(p) \/ WriteRaises(p) \/ Resume(p) \/ ResumeRaises(p)

FeedNext ==
  \/ IngestCapture \/ IngestLog
  \/ \E p \in Pumps : PumpStep(p)
  \/ \E v \in Viewers \ Steadfast :
       Lose(v) \/ HandlerEnds(v) \/ HandlerStarts(v) \/ OnMessageElsewhere(v)
  \/ \E v \in Steadfast :
       OnFrame(v) \/ OnLogs(v) \/ FlushFrame(v) \/ ClickRun(v) \/ ProxyRun(v)

FeedSpec == FeedInit /\ [][FeedNext]_feedVars

\* The loop goes on with every task that can, and browsers read and flush what
\* reached them.
FeedFairSpec ==
  /\ FeedSpec
  /\ \A p \in Pumps : WF_feedVars(PumpStep(p))
  /\ \A v \in Viewers \ Steadfast : WF_feedVars(OnMessageElsewhere(v))
  /\ \A v \in Steadfast :
       WF_feedVars(OnFrame(v)) /\ WF_feedVars(OnLogs(v)) /\ WF_feedVars(FlushFrame(v))

-----------------------------------------------------------------------------

\* What pump p has on its way to a viewer, or in its store, in the order in which it
\* is shown.
Path(p, v) ==
  shown[v][p] \o (IF p = "state" THEN held[v] ELSE <<>>)
    \o FlattenSeq([n \in DOMAIN wire[v] |-> IF wire[v][n].of = p THEN wire[v][n].items ELSE <<>>])
    \o (IF pump[p].at = "suspended" /\ v \notin pump[p].sent THEN pump[p].items
        ELSE <<>>)
    \o pending[p]

\* What is still on its way of what is due lacks only the oldest, and those only once
\* the ring in the store is full.
LacksOldest(path, due, ring, rows) ==
  /\ path \subseteq due
  /\ \A e \in due \ path, f \in path : e < f
  /\ Len(ring) < rows => path = due

\* While the state pump lives, no event since the last clear() is dropped on its way to
\* a viewer that stays connected, however slowly the viewers read and whoever else comes
\* and goes ("throttling the render never drops them", ConnectionProvider.tsx), but that
\* the full store gives up its oldest.
EventsArrive ==
  pump["state"].at # "crashed" =>
    \A v \in Steadfast \ asked :
      LacksOldest({e \in ToSet(Path("state", v)) : e > cleared},
                  cleared + 1 .. ingested["state"], shown[v]["state"], EventRows)

\* While the log pump lives, a viewer that stays connected misses no record but those
\* that fell out of the log bus, and loses the oldest only when its own ring is full.
LogsArrive ==
  pump["logs"].at # "crashed" =>
    \A v \in Steadfast :
      LacksOldest(ToSet(Path("logs", v)), (1 .. ingested["logs"]) \ lost,
                  shown[v]["logs"], LogRows)

NothingLost == EventsArrive /\ LogsArrive

\* Such a viewer is shown each item once and in order: none is doubled or overtaken,
\* even when a pump has died.
InOrder ==
  \A p \in Pumps : \A v \in Steadfast :
    LET path == Path(p, v) IN \A i \in 2 .. Len(path) : path[i - 1] < path[i]

FeedInv == FeedTypeOK /\ InOrder

\* While the state pump lives, a screen that stays connected catches up again and again
\* with the newest EventRows of the events there were since the last run began, unless
\* it has asked for the next run.  Neither a burst of logs nor the death of the log pump
\* keeps it from that ("so a log burst can never stall the 3D scene", logbus.py).
ScreensCatchUp ==
  \A v \in Steadfast :
    []<>(\/ {e \in cleared + 1 .. ingested["state"] : e > ingested["state"] - EventRows}
              \subseteq ToSet(shown[v]["state"])
         \/ v \in asked \/ pump["state"].at = "crashed")

=============================================================================
