----------------------------- MODULE ViewerClient -----------------------------
(***************************************************************************)
(* One page of the viewer and its control channel: the GatewayClient of    *)
(* ConnectionProvider.tsx, the panels that make requests, and the handlers *)
(* of server.py that answer them.  An answer names only the action it is   *)
(* for; the client gives it to the oldest request of that action.          *)
(*                                                                         *)
(* A panel's requests are chains: each waits for the answer to the one     *)
(* before.  A message carries its place in its chain, which the code does  *)
(* not send: it says whose request it really is.  Promise callbacks run    *)
(* within the step that settles the promise.                               *)
(***************************************************************************)
EXTENDS Integers, FiniteSets, SequencesExt

CONSTANTS
  None,
  Sockets,     \* bound: WebSocket objects at a time, 1 .. n
  MaxSwitches, \* bound: starts and stops of the recorder, an even number
  MaxPending   \* bound: requests of one action that panels leave open

ASSUME ClientAssumption ==
  /\ None \notin Nat
  /\ Sockets \in Nat \ {0}
  /\ MaxSwitches \in Nat /\ MaxSwitches % 2 = 0
  /\ MaxPending \in Nat \ {0}

VARIABLES
  sock,      \* the sockets, with the messages on them in either direction
  ws,        \* GatewayClient.ws
  timers,    \* reconnect timers that run
  pending,   \* of each action, the requests that wait for an answer
  connected, \* in the store
  shown,     \* recording in the store
  busy,      \* of ScenarioPanel
  orphaned,  \* a scenarios.run was dropped with its connection
  recorder   \* how often the gateway's recorder was started and stopped

clientVars == <<sock, ws, timers, pending, connected, shown, busy, orphaned, recorder>>
pageVars == <<ws, timers, connected, shown, busy, orphaned>>

\* The recorder is started and stopped in turn.
Active(n) == n % 2 = 1

Chains == [
  refresh |-> <<"recording.status", "recordings.list", "scenarios.list">>,
  start   |-> <<"recording.start", "recording.status">>,
  stop    |-> <<"recording.stop", "recording.status", "recordings.list">>,
  poll    |-> <<"recording.status">>,
  run     |-> <<"scenarios.run">>]

Task == UNION {[chain : {c}, step : DOMAIN Chains[c]] : c \in DOMAIN Chains}
Name(task) == Chains[task.chain][task.step]
Action == {Name(task) : task \in Task}

Socket == 1 .. Sockets
Ack == [task : Task, ok : BOOLEAN, recorder : 0 .. MaxSwitches]
Unused == [phase |-> "unused", requests |-> <<>>, acks |-> <<>>]
Connecting == [Unused EXCEPT !.phase = "connecting"]

\* A socket that is closed, by whichever side, has its onclose to come; what was on
\* it is gone.
Closing == [Unused EXCEPT !.phase = "closing"]

ClientTypeOK ==
  /\ sock \in [Socket -> [phase : {"unused", "connecting", "open", "closing"},
                          requests : Seq(Task), acks : Seq(Ack)]]
  /\ \A c \in Socket : sock[c].phase # "open" => sock[c].requests = <<>> /\ sock[c].acks = <<>>
  /\ ws \in Socket
  /\ timers \in 0 .. 2
  /\ pending \in [Action -> Seq(Task)]
  /\ \A a \in Action : \A task \in ToSet(pending[a]) : Name(task) = a
  /\ connected \in BOOLEAN /\ busy \in BOOLEAN /\ orphaned \in BOOLEAN
  /\ shown \in 0 .. MaxSwitches \cup {None}
  /\ recorder \in 0 .. MaxSwitches

\* The provider is mounted, once as in a production build: connect().
ClientInit ==
  /\ sock = [c \in Socket |-> IF c = 1 THEN Connecting ELSE Unused]
  /\ ws = 1
  /\ timers = 0
  /\ pending = [a \in Action |-> <<>>]
  /\ connected = FALSE /\ shown = None /\ busy = FALSE /\ orphaned = FALSE
  /\ recorder = 0

-----------------------------------------------------------------------------
(* GatewayClient                                                           *)

CanSend(s) == s[ws].phase = "open"

\* request(): rejected at once where ws is not open.  p and s are the pending
\* requests and the sockets as they are by then.
Request(task, p, s) ==
  IF CanSend(s)
  THEN /\ pending' = [p EXCEPT ![Name(task)] = Append(@, task)]
       /\ sock' = [s EXCEPT ![ws].requests = Append(@, task)]
  ELSE pending' = p /\ sock' = s

\* Mutant: the store learns of the first connection only.
OnOpenFirst(c) ==
  /\ sock[c].phase = "connecting"
  /\ connected' = (shown = None)
  /\ Request([chain |-> "refresh", step |-> 1], pending, [sock EXCEPT ![c].phase = "open"])
  /\ UNCHANGED <<ws, timers, shown, busy, orphaned, recorder>>

\* onopen: the panels are hydrated, by way of this.ws, which another open() may
\* have replaced.
OnOpen(c) ==
  /\ sock[c].phase = "connecting"
  /\ connected' = TRUE
  /\ Request([chain |-> "refresh", step |-> 1], pending, [sock EXCEPT ![c].phase = "open"])
  /\ UNCHANGED <<ws, timers, shown, busy, orphaned, recorder>>

\* Mutant: onerror reconnects as well.
OnCloseTwice(c) ==
  /\ sock[c].phase = "closing" /\ timers = 0
  /\ sock' = [sock EXCEPT ![c] = Unused]
  /\ connected' = FALSE
  /\ orphaned' = (orphaned \/ pending["scenarios.run"] # <<>>)
  /\ pending' = [a \in Action |-> <<>>]
  /\ timers' = timers + 2
  /\ UNCHANGED <<ws, shown, busy, recorder>>

\* Mutant: the requests of the old connection keep waiting.
OnCloseKeeping(c) ==
  /\ sock[c].phase = "closing"
  /\ sock' = [sock EXCEPT ![c] = Unused]
  /\ connected' = FALSE
  /\ timers' = timers + 1
  /\ UNCHANGED <<ws, pending, shown, busy, orphaned, recorder>>

\* onclose and rejectAll: every request is forgotten, whichever socket it went out
\* on, and its promise never settles.
OnClose(c) ==
  /\ sock[c].phase = "closing"
  /\ sock' = [sock EXCEPT ![c] = Unused]
  /\ connected' = FALSE
  /\ orphaned' = (orphaned \/ pending["scenarios.run"] # <<>>)
  /\ pending' = [a \in Action |-> <<>>]
  /\ timers' = timers + 1
  /\ UNCHANGED <<ws, shown, busy, recorder>>

\* The timer of onclose: open().
Reopen ==
  /\ timers > 0 /\ timers' = timers - 1
  /\ \E c \in Socket :
       /\ sock[c].phase = "unused"
       /\ sock' = [sock EXCEPT ![c] = Connecting]
       /\ ws' = c
  /\ UNCHANGED <<pending, connected, shown, busy, orphaned, recorder>>

\* refresh() catches each error and goes on; the other chains end with the first.
GoesOn(task, ok) ==
  task.step < Len(Chains[task.chain]) /\ (ok \/ task.chain = "refresh")

\* onMessage with an answer: the oldest request of its action is settled, and the
\* panel goes on from there.
OnAck(c) ==
  /\ sock[c].acks # <<>>
  /\ LET ack == Head(sock[c].acks)
         name == Name(ack.task)
         s == [sock EXCEPT ![c].acks = Tail(@)]
         p == [pending EXCEPT ![name] = Tail(@)]
         task == Head(pending[name])
     IN IF pending[name] = <<>>
        THEN sock' = s /\ UNCHANGED <<pending, shown, busy>>
        ELSE /\ shown' = IF name = "recording.status" /\ ack.ok THEN ack.recorder ELSE shown
             /\ busy' = (busy /\ task.chain # "run")
             /\ IF GoesOn(task, ack.ok) THEN Request([task EXCEPT !.step = @ + 1], p, s)
                ELSE pending' = p /\ sock' = s
  /\ UNCHANGED <<ws, timers, connected, orphaned, recorder>>

-----------------------------------------------------------------------------
(* The panels                                                              *)

Room(name) == Len(pending[name]) < MaxPending

\* RecordingControls: the buttons are disabled by what the store says.
ClickRecord ==
  /\ connected /\ (shown = None \/ ~Active(shown)) /\ Room("recording.start")
  /\ Request([chain |-> "start", step |-> 1], pending, sock)
  /\ UNCHANGED <<pageVars, recorder>>

ClickStop ==
  /\ connected /\ shown # None /\ Active(shown) /\ Room("recording.stop")
  /\ Request([chain |-> "stop", step |-> 1], pending, sock)
  /\ UNCHANGED <<pageVars, recorder>>

\* Mutant: the status is only asked for while no recording is shown.
PollIfStopped ==
  /\ shown # None /\ ~Active(shown) /\ Room("recording.status")
  /\ Request([chain |-> "poll", step |-> 1], pending, sock)
  /\ UNCHANGED <<pageVars, recorder>>

\* While a recording is shown its status is asked for every second.
Poll ==
  /\ shown # None /\ Active(shown) /\ Room("recording.status")
  /\ Request([chain |-> "poll", step |-> 1], pending, sock)
  /\ UNCHANGED <<pageVars, recorder>>

\* ScenarioPanel: busy until the promise settles, which is at once where nothing
\* can be sent.
ClickRun ==
  /\ connected /\ ~busy
  /\ Request([chain |-> "run", step |-> 1], pending, sock)
  /\ busy' = CanSend(sock)
  /\ UNCHANGED <<ws, timers, connected, shown, orphaned, recorder>>

-----------------------------------------------------------------------------
(* server.py, and the network                                              *)

Answer(c, task, ok) ==
  sock' = [sock EXCEPT ![c].requests = Tail(@),
                       ![c].acks = Append(@, [task |-> task, ok |-> ok, recorder |-> recorder'])]

\* A second start, or a stop of nothing, changes nothing and is answered all the same.
Obey(task) ==
  recorder' = IF \/ Name(task) = "recording.start" /\ ~Active(recorder) /\ recorder < MaxSwitches
                 \/ Name(task) = "recording.stop" /\ Active(recorder)
              THEN recorder + 1 ELSE recorder

\* _on_message: one request after the other on each connection, answered with what
\* it did or with a _ControlError (disabled, not supported by the source).
Serve(c) ==
  /\ sock[c].requests # <<>>
  /\ LET task == Head(sock[c].requests) IN
     \/ Obey(task) /\ Answer(c, task, TRUE)
     \/ Name(task) # "recording.status" /\ UNCHANGED recorder /\ Answer(c, task, FALSE)
  /\ UNCHANGED <<pending, pageVars>>

\* scenario_proxy raises where there is no orchestrator: the handler ends and with it
\* the connection.
ServeRaises(c) ==
  /\ sock[c].requests # <<>> /\ Name(Head(sock[c].requests)) = "scenarios.run"
  /\ sock' = [sock EXCEPT ![c] = Closing]
  /\ UNCHANGED <<pending, pageVars, recorder>>

\* The connection is refused or breaks.
Break(c) ==
  /\ sock[c].phase \in {"connecting", "open"}
  /\ sock' = [sock EXCEPT ![c] = Closing]
  /\ UNCHANGED <<pending, pageVars, recorder>>

\* Another viewer starts or stops the recorder.
Switch ==
  /\ recorder < MaxSwitches /\ recorder' = recorder + 1
  /\ UNCHANGED <<sock, pending, pageVars>>

ClientNext ==
  \/ \E c \in Socket :
       OnOpen(c) \/ OnClose(c) \/ OnAck(c) \/ Serve(c) \/ ServeRaises(c) \/ Break(c)
  \/ Reopen \/ ClickRecord \/ ClickStop \/ Poll \/ ClickRun \/ Switch

ClientSpec == ClientInit /\ [][ClientNext]_clientVars

\* Browser and server go on, and a connection that is tried again and again opens.
ClientFairSpec ==
  /\ ClientSpec
  /\ WF_clientVars(Reopen) /\ WF_clientVars(Poll)
  /\ \A c \in Socket :
       /\ WF_clientVars(OnClose(c)) /\ WF_clientVars(OnAck(c)) /\ WF_clientVars(Serve(c))
  /\ SF_clientVars(\E c \in Socket : OnOpen(c))

-----------------------------------------------------------------------------

\* The page lives on exactly one socket or on one timer that will open one, however
\* often connections break: never on none, and never on two, which would show every
\* event twice.
OneLifeline == Cardinality({c \in Socket : sock[c].phase # "unused"}) + timers = 1

ClientInv == ClientTypeOK /\ OneLifeline

\* What is on its way to or from the page on the socket it sends on, in the order in
\* which its answers will arrive.
Road == [n \in DOMAIN sock[ws].acks |-> sock[ws].acks[n].task] \o sock[ws].requests

\* The tasks p are those of action a on road q, in their order.
Threads(p, q, a) ==
  \E place \in [DOMAIN p -> DOMAIN q] :
    /\ \A m, n \in DOMAIN p : m < n => place[m] < place[n]
    /\ \A n \in DOMAIN p : q[place[n]] = p[n]
    /\ \A k \in DOMAIN q : Name(q[k]) = a <=> \E n \in DOMAIN p : place[n] = k

\* The answers on their way meet exactly the requests that wait for them: the code
\* matches them by action and order alone, across panels and reconnects
\* ("request/response promises keyed by action name", ConnectionProvider.tsx).
AnswersMeetRequests ==
  sock[ws].phase # "closing" => \A a \in Action : Threads(pending[a], Road, a)

\* The recording indicator never goes back to a state it has left.
ShownInOrder == [][shown # None => shown' >= shown]_shown

\* A viewer that stays connected does not show for ever a recording that somebody
\* else has stopped (FR-V-42).
StopIsSeen == <>[](connected /\ ~Active(recorder)) => <>[](shown # None => ~Active(shown))

\* The recording indicator is behind the recorder, but never turns back or sticks.
IndicatorFollows == ShownInOrder /\ StopIsSeen

\* However often the connection breaks or is refused, the page is connected again
\* ("connected" in the store is what the badge shows), and the Run button comes
\* back, unless its request was forgotten with a connection.
ComesBack == []<>connected /\ []<>(~busy \/ orphaned)

=============================================================================
