------------------------------- MODULE Realtime -------------------------------
(***************************************************************************)
(* One Realtime client (pusher/client.go): the WebSocket over which the    *)
(* control plane tells the daemon that a configuration or a command waits. *)
(*                                                                         *)
(* The client's fields are guarded by c.mu, but every goroutine that works *)
(* for it does so in several critical sections with a dial, a close or an  *)
(* HTTP request between them: calls of Connect, the reconnect timer, and   *)
(* per connection the reader, the subscriber and the watchdog of the       *)
(* subscription.  Any of them may still be under way for a connection that *)
(* was replaced.  A critical section, or a request, is an action here.     *)
(*                                                                         *)
(* Time is abstract: a timer may fire whenever it is armed.  The server    *)
(* and the network may fail a step, a bounded number of times.             *)
(***************************************************************************)
EXTENDS Naturals

CONSTANTS
    Configs,      \* Realtime configurations
    NoChannel,    \* the configurations whose channel is empty
    First,        \* the configuration the client is created with
    Conns,        \* connections: 1..n, dialed in this order
    Attempts,     \* goroutines that call Connect: 1..n
    None,         \* nil
    MaxDelay,     \* doublings from the minimum to the maximum reconnect delay
    MaxTroubles,  \* bound: failures of the network or the server, and calls
                  \* of UpdateConfig, together
    MaxNews       \* bound: events that are published

ASSUME RealtimeAssumption ==
    /\ First \in Configs
    /\ NoChannel \subseteq Configs
    /\ Conns \subseteq Nat
    /\ Attempts \subseteq Nat /\ 1 \in Attempts
    /\ None \notin Configs \cup Conns \cup Nat
    /\ MaxDelay \in Nat
    /\ MaxTroubles \in Nat
    /\ MaxNews \in Nat

VARIABLES
    config,        \* c.config
    stopped,       \* c.stopChan is closed
    generation,    \* c.generation
    conn,          \* c.conn
    isConnecting, isConnected, isSubscribed,
    pinger,        \* the connection that c.pingTicker pings
    timer,         \* the generation of the armed c.reconnectTimer
    delay,         \* doublings in c.reconnectDelay
    attempt,       \* the goroutines that are to call, or are in, Connect
    socket,        \* what was ever dialed, and the goroutines it has
    unseen,        \* published, and neither loop of the daemon woken since
    troubles, news    \* how much of each bound is used

flags == <<isConnecting, isConnected, isSubscribed>>
backoff == <<timer, delay>>
bounds == <<troubles, news>>
vars == <<config, stopped, generation, conn, flags, pinger, backoff, attempt,
          socket, unseen, bounds>>

-----------------------------------------------------------------------------
(* Types *)

\* fired: a timer that is to compare its generation; connect: about to call
\* Connect; dial, dialed: in it, before and after DialContext returned;
\* schedule: Connect failed and scheduleReconnect is to be called.
Attempt ==
    [pc : {"idle", "fired", "connect", "dial", "dialed", "schedule"},
     gen : Nat, cfg : Configs \cup {None}, conn : Conns \cup {None}]

Idle == [pc |-> "idle", gen |-> 0, cfg |-> None, conn |-> None]
ToConnect == [Idle EXCEPT !.pc = "connect"]
ToSchedule == [Idle EXCEPT !.pc = "schedule"]

\* st: as the client left it.  drop: what whoever took the connection out of
\* c.conn still does about it: close it, and then nothing (end), schedule a
\* reconnect (fail) or start a goroutine that connects (replace).  reader,
\* subscriber and watch are its goroutines; peer is what the server has done,
\* and event says that it has sent an event that was not read yet.
Socket ==
    [st : {"unused", "open", "closed"},
     cfg : Configs \cup {None},
     drop : {"no", "end", "fail", "replace", "schedule", "done"},
     reader : {"off", "read", "ping", "subscribe", "done"},
     subscriber : {"off", "start", "auth", "fail", "done"},
     watch : {"off", "armed", "fail", "done"},
     peer : {"new", "greeted", "asked", "confirmed", "rejected"},
     event : BOOLEAN]

Unused == [st |-> "unused", cfg |-> None, drop |-> "no", reader |-> "off",
           subscriber |-> "off", watch |-> "off", peer |-> "new",
           event |-> FALSE]

TypeOK ==
    /\ config \in Configs \cup {None}
    /\ stopped \in BOOLEAN
    /\ generation \in Nat
    /\ conn \in Conns \cup {None}
    /\ isConnecting \in BOOLEAN
    /\ isConnected \in BOOLEAN
    /\ isSubscribed \in BOOLEAN
    /\ pinger \in Conns \cup {None}
    /\ timer \in Nat \cup {None}
    /\ delay \in 0..MaxDelay
    /\ attempt \in [Attempts -> Attempt]
    /\ socket \in [Conns -> Socket]
    /\ unseen \in BOOLEAN
    /\ troubles \in 0..MaxTroubles
    /\ news \in 0..MaxNews

-----------------------------------------------------------------------------
(* Shared steps *)

\* A failure of the network or of the server, or a new configuration.
Trouble ==
    /\ troubles < MaxTroubles
    /\ troubles' = troubles + 1

\* isConnectionActive
IsActive(c) == conn = c /\ ~stopped

\* The part of failConnection, disconnect, UpdateConfig and the reader's
\* cleanup that takes the current connection out of use.
DropConnection ==
    /\ conn' = None
    /\ isConnected' = FALSE
    /\ isSubscribed' = FALSE
    /\ pinger' = None

KeepConnection == UNCHANGED <<conn, isConnected, isSubscribed, pinger>>

\* The locked part of failConnection; sock is socket after what the caller
\* did with its own state.
FailConnection(c, sock) ==
    IF IsActive(c)
    THEN /\ DropConnection
         /\ socket' = [sock EXCEPT ![c].drop = "fail"]
    ELSE /\ KeepConnection
         /\ socket' = sock

\* Mutant: the delay is doubled without a limit.
ScheduleReconnectUncapped ==
    IF stopped \/ config = None \/ conn # None \/ isConnecting
    THEN UNCHANGED backoff
    ELSE /\ timer' = generation
         /\ delay' = delay + 1

\* scheduleReconnect: time.AfterFunc replaces an armed timer.
ScheduleReconnect ==
    IF stopped \/ config = None \/ conn # None \/ isConnecting
    THEN UNCHANGED backoff
    ELSE /\ timer' = generation
         /\ delay' = IF delay < MaxDelay THEN delay + 1 ELSE delay

\* A goroutine for a call of Connect, in the first place that is free.
Spawn(a, state) ==
    /\ attempt[a] = Idle
    /\ \A b \in Attempts : b < a => attempt[b] # Idle
    /\ attempt' = [attempt EXCEPT ![a] = state]

-----------------------------------------------------------------------------
(* Connect, and the reconnect timer that calls it *)

ConnectRefused(a) ==
    /\ attempt[a].pc = "connect"
    /\ stopped \/ config = None
    /\ attempt' = [attempt EXCEPT ![a] = ToSchedule]
    /\ UNCHANGED <<config, stopped, generation, conn, flags, pinger, backoff,
                   socket, unseen, bounds>>

ConnectNotNeeded(a) ==
    /\ attempt[a].pc = "connect"
    /\ ~stopped /\ config # None
    /\ conn # None \/ isConnecting
    /\ attempt' = [attempt EXCEPT ![a] = Idle]
    /\ UNCHANGED <<config, stopped, generation, conn, flags, pinger, backoff,
                   socket, unseen, bounds>>

ConnectDials(a) ==
    /\ attempt[a].pc = "connect"
    /\ ~stopped /\ config # None
    /\ conn = None /\ ~isConnecting
    /\ isConnecting' = TRUE
    /\ attempt' = [attempt EXCEPT ![a] =
          [pc |-> "dial", gen |-> generation, cfg |-> config, conn |-> None]]
    /\ UNCHANGED <<config, stopped, generation, conn, isConnected,
                   isSubscribed, pinger, backoff, socket, unseen, bounds>>

\* DialContext returns a connection; the mutex is still to be taken.
DialSucceeds(a, c) ==
    /\ attempt[a].pc = "dial"
    /\ socket[c].st = "unused"
    /\ \A d \in Conns : socket[d].st = "unused" => c <= d
    /\ attempt' = [attempt EXCEPT ![a].pc = "dialed", ![a].conn = c]
    /\ socket' = [socket EXCEPT ![c].st = "open", ![c].cfg = attempt[a].cfg]
    /\ UNCHANGED <<config, stopped, generation, conn, flags, pinger, backoff,
                   unseen, bounds>>

\* Only the attempt of the current generation owns isConnecting.
AttemptEnds(a) ==
    isConnecting' = (isConnecting /\ attempt[a].gen # generation)

\* An attempt of an earlier generation was cancelled; any may fail.
DialFails(a) ==
    /\ attempt[a].pc = "dial"
    /\ \/ attempt[a].gen # generation /\ UNCHANGED troubles
       \/ Trouble
    /\ AttemptEnds(a)
    /\ attempt' = [attempt EXCEPT ![a] = ToSchedule]
    /\ UNCHANGED <<config, stopped, generation, conn, isConnected,
                   isSubscribed, pinger, backoff, socket, unseen, news>>

Superseded(a) ==
    \/ attempt[a].gen # generation
    \/ stopped
    \/ attempt[a].cfg # config
    \/ conn # None

\* Mutant: a connection that was superseded is not closed.
ConnectedLeaving(a) ==
    LET c == attempt[a].conn IN
    /\ attempt[a].pc = "dialed"
    /\ AttemptEnds(a)
    /\ attempt' = [attempt EXCEPT ![a] = Idle]
    /\ IF Superseded(a)
       THEN UNCHANGED <<conn, isConnected, isSubscribed, timer, socket>>
       ELSE /\ conn' = c
            /\ isConnected' = FALSE
            /\ isSubscribed' = FALSE
            /\ timer' = None
            /\ socket' = [socket EXCEPT ![c].reader = "read"]
    /\ UNCHANGED <<config, stopped, generation, pinger, delay, unseen, bounds>>

\* The critical section after the dial: the connection becomes c.conn and
\* gets its reader, or is left for this goroutine to close.
Connected(a) ==
    LET c == attempt[a].conn IN
    /\ attempt[a].pc = "dialed"
    /\ AttemptEnds(a)
    /\ attempt' = [attempt EXCEPT ![a] = Idle]
    /\ IF Superseded(a)
       THEN /\ socket' = [socket EXCEPT ![c].drop = "end"]
            /\ UNCHANGED <<conn, isConnected, isSubscribed, timer>>
       ELSE /\ conn' = c
            /\ isConnected' = FALSE
            /\ isSubscribed' = FALSE
            /\ timer' = None
            /\ socket' = [socket EXCEPT ![c].reader = "read"]
    /\ UNCHANGED <<config, stopped, generation, pinger, delay, unseen, bounds>>

\* The callers of Connect schedule a reconnect when it returns an error.
AttemptSchedules(a) ==
    /\ attempt[a].pc = "schedule"
    /\ attempt' = [attempt EXCEPT ![a] = Idle]
    /\ ScheduleReconnect
    /\ UNCHANGED <<config, stopped, generation, conn, flags, pinger, socket,
                   unseen, bounds>>

TimerFires(a) ==
    /\ timer # None
    /\ Spawn(a, [Idle EXCEPT !.pc = "fired", !.gen = timer])
    /\ timer' = None
    /\ UNCHANGED <<config, stopped, generation, conn, flags, pinger, delay,
                   socket, unseen, bounds>>

TimerChecks(a) ==
    /\ attempt[a].pc = "fired"
    /\ attempt' = [attempt EXCEPT ![a] =
          IF stopped \/ attempt[a].gen # generation THEN Idle ELSE ToConnect]
    /\ UNCHANGED <<config, stopped, generation, conn, flags, pinger, backoff,
                   socket, unseen, bounds>>

-----------------------------------------------------------------------------
(* UpdateConfig and Disconnect: the locked part, and the close after it *)

\* Mutant: isConnecting stays with the attempt that was cancelled.
UpdateConfigWhileConnecting(cfg) ==
    /\ Trouble
    /\ ~stopped
    /\ cfg # config
    /\ config' = cfg
    /\ generation' = generation + 1
    /\ DropConnection
    /\ delay' = 0
    /\ timer' = None
    /\ IF conn = None
       THEN UNCHANGED socket /\ \E a \in Attempts : Spawn(a, ToConnect)
       ELSE /\ socket' = [socket EXCEPT ![conn].drop = "replace"]
            /\ UNCHANGED attempt
    /\ UNCHANGED <<stopped, isConnecting, unseen, news>>

\* A configuration equal to c.config changes nothing.  Without a connection
\* to close, the goroutine that connects is started at once.
UpdateConfig(cfg) ==
    /\ Trouble
    /\ ~stopped
    /\ cfg # config
    /\ config' = cfg
    /\ generation' = generation + 1
    /\ DropConnection
    /\ isConnecting' = FALSE
    /\ delay' = 0
    /\ timer' = None
    /\ IF conn = None
       THEN UNCHANGED socket /\ \E a \in Attempts : Spawn(a, ToConnect)
       ELSE /\ socket' = [socket EXCEPT ![conn].drop = "replace"]
            /\ UNCHANGED attempt
    /\ UNCHANGED <<stopped, unseen, news>>

\* Disconnect, or UpdateConfig(nil).  A second call finds nothing to close.
Disconnect ==
    /\ ~stopped
    /\ stopped' = TRUE
    /\ config' = None
    /\ generation' = generation + 1
    /\ DropConnection
    /\ isConnecting' = FALSE
    /\ timer' = None
    /\ socket' = IF conn = None THEN socket
                 ELSE [socket EXCEPT ![conn].drop = "end"]
    /\ UNCHANGED <<delay, attempt, unseen, bounds>>

\* closeWebSocket, without the mutex, by whoever dropped the connection.
CloseSocket(c) ==
    /\ socket[c].drop \in {"end", "fail", "replace"}
    /\ socket' = [socket EXCEPT ![c].st = "closed",
          ![c].drop = IF socket[c].drop = "fail" THEN "schedule" ELSE "done"]
    /\ IF socket[c].drop = "replace"
       THEN \E a \in Attempts : Spawn(a, ToConnect)
       ELSE UNCHANGED attempt
    /\ UNCHANGED <<config, stopped, generation, conn, flags, pinger, backoff,
                   unseen, bounds>>

\* failConnection and the reader's cleanup end with scheduleReconnect.
DropSchedules(c) ==
    /\ socket[c].drop = "schedule"
    /\ socket' = [socket EXCEPT ![c].drop = "done"]
    /\ ScheduleReconnect
    /\ UNCHANGED <<config, stopped, generation, conn, flags, pinger, attempt,
                   unseen, bounds>>

-----------------------------------------------------------------------------
(* The reader of a connection *)

\* The read fails, or stopChan is closed; the deferred cleanup, which does
\* what failConnection does (c.conn is nil once the client is stopped).
ReaderCleanup(c) ==
    /\ socket[c].reader = "read"
    /\ FailConnection(c, [socket EXCEPT ![c].reader = "done"])
    /\ UNCHANGED <<config, stopped, generation, isConnecting, backoff,
                   attempt, unseen, news>>

\* The client closed the connection or was stopped.
ReaderEnds(c) ==
    /\ stopped \/ socket[c].st = "closed"
    /\ ReaderCleanup(c)
    /\ UNCHANGED troubles

\* The server closes it, or is silent for longer than the read timeout.
ConnectionLost(c) ==
    /\ socket[c].st = "open"
    /\ Trouble
    /\ ReaderCleanup(c)

\* What the reader can receive: nothing once the client closed the socket.
Receives(c) == socket[c].reader = "read" /\ socket[c].st = "open"

\* pusher:connection_established, up to the first unlock.  A message for a
\* connection that is not active is read and dropped.
Established(c) ==
    LET next == IF config \in NoChannel THEN "ping" ELSE "subscribe" IN
    /\ Receives(c)
    /\ socket[c].peer = "new"
    /\ socket' = [socket EXCEPT ![c].peer = "greeted",
                                ![c].reader = IF IsActive(c) THEN next ELSE @]
    /\ isConnected' = (isConnected \/ IsActive(c))
    /\ UNCHANGED <<config, stopped, generation, conn, isConnecting,
                   isSubscribed, pinger, backoff, attempt, unseen, bounds>>

\* Mutant: the ticker is installed although the connection was replaced.
StartPingTickerAnyway(c) ==
    /\ socket[c].reader \in {"ping", "subscribe"}
    /\ pinger' = c
    /\ socket' = [socket EXCEPT ![c].reader = "read",
          ![c].subscriber = IF socket[c].reader = "ping" THEN @ ELSE "start",
          ![c].watch = IF socket[c].reader = "ping" THEN @ ELSE "armed"]
    /\ UNCHANGED <<config, stopped, generation, conn, flags, backoff, attempt,
                   unseen, bounds>>

\* startPingTicker, and the goroutines started after it, which it does not
\* keep from starting when the connection was replaced meanwhile.
StartPingTicker(c) ==
    /\ socket[c].reader \in {"ping", "subscribe"}
    /\ pinger' = IF IsActive(c) THEN c ELSE pinger
    /\ socket' = [socket EXCEPT ![c].reader = "read",
          ![c].subscriber = IF socket[c].reader = "ping" THEN @ ELSE "start",
          ![c].watch = IF socket[c].reader = "ping" THEN @ ELSE "armed"]
    /\ UNCHANGED <<config, stopped, generation, conn, flags, backoff, attempt,
                   unseen, bounds>>

\* Mutant: a subscription wakes nobody.
SubscriptionSucceededQuietly(c) ==
    /\ Receives(c)
    /\ socket[c].peer = "asked"
    /\ socket' = [socket EXCEPT ![c].peer = "confirmed"]
    /\ IF IsActive(c) /\ config # None
       THEN isSubscribed' = TRUE /\ delay' = 0
       ELSE UNCHANGED <<isSubscribed, delay>>
    /\ UNCHANGED <<config, stopped, generation, conn, isConnecting,
                   isConnected, pinger, timer, attempt, unseen, bounds>>

\* pusher_internal:subscription_succeeded.  Its handlers wake both loops, so
\* that what was published while nobody listened is fetched now.
SubscriptionSucceeded(c) ==
    /\ Receives(c)
    /\ socket[c].peer = "asked"
    /\ socket' = [socket EXCEPT ![c].peer = "confirmed"]
    /\ IF IsActive(c) /\ config # None
       THEN isSubscribed' = TRUE /\ delay' = 0 /\ unseen' = FALSE
       ELSE UNCHANGED <<isSubscribed, delay, unseen>>
    /\ UNCHANGED <<config, stopped, generation, conn, isConnecting,
                   isConnected, pinger, timer, attempt, bounds>>

\* pusher:subscription_error
SubscriptionError(c) ==
    /\ Receives(c)
    /\ socket[c].peer = "asked"
    /\ Trouble
    /\ FailConnection(c, [socket EXCEPT ![c].peer = "rejected"])
    /\ UNCHANGED <<config, stopped, generation, isConnecting, backoff,
                   attempt, unseen, news>>

\* config.updated or commands.available: its handler wakes the loop.  On a
\* connection that is not active it is read and dropped.
EventReceived(c) ==
    /\ Receives(c)
    /\ socket[c].event
    /\ socket' = [socket EXCEPT ![c].event = FALSE]
    /\ unseen' = (unseen /\ ~IsActive(c))
    /\ UNCHANGED <<config, stopped, generation, conn, flags, pinger, backoff,
                   attempt, bounds>>

-----------------------------------------------------------------------------
(* The subscriber and the watchdog of a connection *)

\* subscribeToChannel reads the fields, then asks for the authorisation.
SubscribeStarts(c) ==
    /\ socket[c].subscriber = "start"
    /\ socket' = [socket EXCEPT ![c].subscriber =
          IF IsActive(c) /\ config # None /\ config \notin NoChannel
          THEN "auth" ELSE "fail"]
    /\ UNCHANGED <<config, stopped, generation, conn, flags, pinger, backoff,
                   attempt, unseen, bounds>>

\* The authorisation was granted, and sendMessageOnConn sends pusher:subscribe
\* if the connection is still the active one.
SubscribeSends(c) ==
    /\ socket[c].subscriber = "auth"
    /\ socket' = IF IsActive(c)
                 THEN [socket EXCEPT ![c].subscriber = "done",
                                     ![c].peer = "asked"]
                 ELSE [socket EXCEPT ![c].subscriber = "fail"]
    /\ UNCHANGED <<config, stopped, generation, conn, flags, pinger, backoff,
                   attempt, unseen, bounds>>

\* The authorisation was refused, or the write failed.
SubscribeRefused(c) ==
    /\ socket[c].subscriber = "auth"
    /\ Trouble
    /\ socket' = [socket EXCEPT ![c].subscriber = "fail"]
    /\ UNCHANGED <<config, stopped, generation, conn, flags, pinger, backoff,
                   attempt, unseen, news>>

SubscribeFails(c) ==
    /\ socket[c].subscriber = "fail"
    /\ FailConnection(c, [socket EXCEPT ![c].subscriber = "done"])
    /\ UNCHANGED <<config, stopped, generation, isConnecting, backoff,
                   attempt, unseen, bounds>>

\* Mutant: a connection that was greeted counts as confirmed.
WatchdogChecksGreeting(c) ==
    /\ socket[c].watch = "armed"
    /\ IF conn = c /\ ~isConnected
       THEN Trouble /\ socket' = [socket EXCEPT ![c].watch = "fail"]
       ELSE UNCHANGED troubles /\ socket' = [socket EXCEPT ![c].watch = "done"]
    /\ UNCHANGED <<config, stopped, generation, conn, flags, pinger, backoff,
                   attempt, unseen, news>>

\* The subscription timeout has passed.  Where the subscription is pending
\* the server was too slow or does not answer at all, which is a failure.
WatchdogChecks(c) ==
    /\ socket[c].watch = "armed"
    /\ IF conn = c /\ ~isSubscribed
       THEN Trouble /\ socket' = [socket EXCEPT ![c].watch = "fail"]
       ELSE UNCHANGED troubles /\ socket' = [socket EXCEPT ![c].watch = "done"]
    /\ UNCHANGED <<config, stopped, generation, conn, flags, pinger, backoff,
                   attempt, unseen, news>>

WatchdogFails(c) ==
    /\ socket[c].watch = "fail"
    /\ FailConnection(c, [socket EXCEPT ![c].watch = "done"])
    /\ UNCHANGED <<config, stopped, generation, isConnecting, backoff,
                   attempt, unseen, bounds>>

-----------------------------------------------------------------------------
(* The specification *)

\* The control plane publishes that a configuration or a command waits, to
\* the connections that are subscribed.
Publish ==
    /\ news < MaxNews
    /\ news' = news + 1
    /\ unseen' = TRUE
    /\ socket' = [c \in Conns |->
          IF socket[c].peer = "confirmed" THEN [socket[c] EXCEPT !.event = TRUE]
          ELSE socket[c]]
    /\ UNCHANGED <<config, stopped, generation, conn, flags, pinger, backoff,
                   attempt, troubles>>

\* NewClient, and replaceRealtime's goroutine that runs Start.
Init ==
    /\ config = First
    /\ stopped = FALSE
    /\ generation = 0
    /\ conn = None
    /\ isConnecting = FALSE /\ isConnected = FALSE /\ isSubscribed = FALSE
    /\ pinger = None
    /\ timer = None
    /\ delay = 0
    /\ attempt = [a \in Attempts |-> IF a = 1 THEN ToConnect ELSE Idle]
    /\ socket = [c \in Conns |-> Unused]
    /\ unseen = FALSE
    /\ troubles = 0 /\ news = 0

AttemptStep(a) ==
    \/ ConnectRefused(a)
    \/ ConnectNotNeeded(a)
    \/ ConnectDials(a)
    \/ \E c \in Conns : DialSucceeds(a, c)
    \/ Connected(a)
    \/ AttemptSchedules(a)
    \/ TimerChecks(a)

SocketStep(c) ==
    \/ CloseSocket(c)
    \/ DropSchedules(c)
    \/ ReaderEnds(c)
    \/ Established(c)
    \/ StartPingTicker(c)
    \/ SubscriptionSucceeded(c)
    \/ EventReceived(c)
    \/ SubscribeStarts(c)
    \/ SubscribeSends(c)
    \/ SubscribeFails(c)
    \/ WatchdogFails(c)

\* Failures, which nothing makes happen.
FailureStep ==
    \/ \E a \in Attempts : DialFails(a)
    \/ \E c \in Conns : \/ ConnectionLost(c)
                        \/ SubscriptionError(c)
                        \/ SubscribeRefused(c)
                        \/ WatchdogChecks(c)

Next ==
    \/ \E a \in Attempts : AttemptStep(a)
    \/ \E a \in Attempts : TimerFires(a)
    \/ \E c \in Conns : SocketStep(c)
    \/ FailureStep
    \/ \E cfg \in Configs : UpdateConfig(cfg)
    \/ Disconnect
    \/ Publish

\* The Go runtime runs every goroutine and every timer; DialContext, the
\* close and the authorisation request end by their own timeouts.
Fairness ==
    /\ \A a \in Attempts : WF_vars(AttemptStep(a))
    /\ WF_vars(\E a \in Attempts : TimerFires(a))
    /\ \A c \in Conns : WF_vars(SocketStep(c))

Spec == Init /\ [][Next]_vars /\ Fairness

-----------------------------------------------------------------------------
(* Properties *)

\* Whoever is about to close connection c.
Closing(c) == socket[c].drop \in {"end", "fail", "replace"}

\* No connection is leaked: one that is open is c.conn, or is in the hands of
\* a Connect that has yet to look at it, or has someone who closes it.
NoLeakedSocket ==
    \A c \in Conns :
        socket[c].st = "open" =>
            \/ conn = c
            \/ Closing(c)
            \/ \E a \in Attempts : attempt[a].pc = "dialed" /\ attempt[a].conn = c

\* The connection in use was dialed with the configuration in use and nobody
\* who worked for an earlier one has closed it or is about to; the ticker
\* pings it and no other; the flags speak of it.
ConnectionIsCurrent ==
    /\ conn # None => /\ socket[conn].st = "open"
                      /\ socket[conn].drop = "no"
                      /\ socket[conn].cfg = config
                      /\ ~stopped
    /\ pinger # None => pinger = conn
    /\ isConnected => conn # None /\ socket[conn].peer # "new"
    /\ isSubscribed => conn # None /\ socket[conn].peer = "confirmed"

\* Somebody will connect, or arm the timer, without being told to.
WillConnect ==
    \/ \E a \in Attempts : attempt[a].pc \in {"connect", "schedule"}
    \/ \E a \in Attempts : /\ attempt[a].pc \in {"fired", "dial", "dialed"}
                           /\ attempt[a].gen = generation
    \/ \E c \in Conns : socket[c].drop \in {"fail", "replace", "schedule"}
    \/ timer = generation

\* A client that is not stopped is never stranded: it has a connection or
\* something under way that leads to the next attempt.  isConnecting, which
\* makes every other call of Connect return, is never left behind.
NeverStranded ==
    /\ ~stopped => conn # None \/ WillConnect
    /\ isConnecting => \E a \in Attempts : /\ attempt[a].pc \in {"dial", "dialed"}
                                           /\ attempt[a].gen = generation

\* A connection to a channel that was greeted is subscribed, or the timeout
\* that reconnects it is running or about to be: it cannot stay deaf.
NeverDeaf ==
    conn # None /\ isConnected /\ config \notin NoChannel =>
        \/ isSubscribed
        \/ socket[conn].watch \in {"armed", "fail"}
        \/ socket[conn].reader = "subscribe"

\* What is published reaches the daemon, by its event or by the wake-up of
\* the next subscription, unless the client is stopped or has no channel.
NewsArrives == unseen ~> (~unseen \/ stopped \/ config \in NoChannel)

===============================================================================
