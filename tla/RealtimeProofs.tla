---------------------------- MODULE RealtimeProofs ----------------------------
(***************************************************************************)
(* The safety of Realtime for any number of connections, calls of Connect, *)
(* configurations, failures and events: no connection is leaked, the one   *)
(* in use is the current one, the client is never stranded or deaf, and at *)
(* most one dial is under way for the generation in force.                 *)
(***************************************************************************)
EXTENDS Realtime, TLAPS

Dialing(a) == attempt[a].pc \in {"dial", "dialed"}

\* A connection that no goroutine of the client works for yet.
Fresh(c) ==
    /\ socket[c].st = "open" /\ socket[c].drop = "no"
    /\ socket[c].reader = "off" /\ socket[c].subscriber = "off"
    /\ socket[c].watch = "off"
    /\ socket[c].peer = "new"

\* What Connect dialed is fresh and in nobody else's hands until it takes the
\* mutex again.
DialedIsOwned ==
    \A a \in Attempts : attempt[a].pc = "dialed" =>
        /\ attempt[a].conn \in Conns
        /\ attempt[a].conn # conn
        /\ Fresh(attempt[a].conn)
        /\ socket[attempt[a].conn].cfg = attempt[a].cfg
        /\ \A b \in Attempts :
              attempt[b].pc = "dialed" /\ attempt[b].conn = attempt[a].conn
                 => a = b

\* The dial of the current generation owns isConnecting, is the only one, and
\* uses the configuration in force.
DialIsCurrent ==
    \A a \in Attempts :
        /\ attempt[a].gen <= generation
        /\ Dialing(a) /\ attempt[a].gen = generation =>
              /\ isConnecting
              /\ ~stopped
              /\ attempt[a].cfg = config
              /\ \A b \in Attempts :
                    Dialing(b) /\ attempt[b].gen = generation => a = b

\* How far the handshake on a connection can be, given who works for it.
InOrder(s) ==
    /\ s.st = "unused" => s = Unused
    /\ s.peer = "new" => /\ s.subscriber = "off" /\ s.watch = "off"
                         /\ s.reader \notin {"ping", "subscribe"}
    /\ s.reader \in {"ping", "subscribe"} =>
          s.subscriber = "off" /\ s.watch = "off" /\ s.peer = "greeted"
    /\ s.subscriber \in {"off", "start", "auth"} =>
          s.peer \in {"new", "greeted"}

HandshakeInOrder == \A c \in Conns : InOrder(socket[c])

StoppedForGood == stopped <=> config = None

TimerIsPast == timer # None => timer <= generation

Inv ==
    /\ TypeOK
    /\ DialedIsOwned
    /\ DialIsCurrent
    /\ HandshakeInOrder
    /\ StoppedForGood
    /\ TimerIsPast
    /\ NoLeakedSocket
    /\ ConnectionIsCurrent
    /\ NeverStranded
    /\ NeverDeaf

-----------------------------------------------------------------------------
(* The operators *)

\* The states of a goroutine that the actions give it.
LEMMA AttemptFacts ==
    /\ Idle \in Attempt /\ Idle.pc = "idle" /\ Idle.gen = 0
    /\ ToConnect \in Attempt /\ ToConnect.pc = "connect" /\ ToConnect.gen = 0
    /\ ToSchedule \in Attempt /\ ToSchedule.pc = "schedule"
    /\ ToSchedule.gen = 0
BY DEF Idle, ToConnect, ToSchedule, Attempt

\* The state of a goroutine that dials.
LEMMA DialFacts ==
    ASSUME NEW g \in Nat, NEW cfg \in Configs \cup {None}
    PROVE  [pc |-> "dial", gen |-> g, cfg |-> cfg, conn |-> None] \in Attempt
BY DEF Attempt

\* The state of a timer that has fired.
LEMMA FiredFacts ==
    ASSUME NEW g \in Nat
    PROVE  LET s == [Idle EXCEPT !.pc = "fired", !.gen = g]
           IN  s \in Attempt /\ s.pc = "fired" /\ s.gen = g
BY DEF Idle, Attempt

\* A trouble stays within the bound, and so does the delay.
LEMMA BoundFacts ==
    ASSUME TypeOK
    PROVE  /\ Trouble => troubles' \in 0..MaxTroubles
           /\ 0 \in 0..MaxDelay
           /\ ScheduleReconnect => delay' \in 0..MaxDelay
           /\ ScheduleReconnect => timer' \in {timer, generation}
BY RealtimeAssumption DEF TypeOK, Trouble, ScheduleReconnect, backoff

-----------------------------------------------------------------------------
(* Connect *)

\* A critical section of Connect before the dial changes nothing but its own
\* goroutine and, where it dials, isConnecting.
LEMMA ConnectActs ==
    ASSUME Inv, NEW a \in Attempts,
           ConnectRefused(a) \/ ConnectNotNeeded(a) \/ ConnectDials(a)
    PROVE  Inv'
<1> USE DEF Inv, ConnectRefused, ConnectNotNeeded, ConnectDials, flags,
            backoff, bounds
<1>1. TypeOK'
  BY AttemptFacts, DialFacts DEF TypeOK
<1>2. DialedIsOwned'
  BY AttemptFacts DEF TypeOK, DialedIsOwned, Fresh
<1>3. DialIsCurrent'
  BY AttemptFacts DEF TypeOK, DialIsCurrent, NeverStranded, Dialing
<1>4. NeverStranded'
  BY AttemptFacts DEF TypeOK, NeverStranded, WillConnect
<1>5. NoLeakedSocket'
  BY AttemptFacts DEF TypeOK, NoLeakedSocket, Closing
<1>6. /\ HandshakeInOrder' /\ StoppedForGood' /\ TimerIsPast'
      /\ ConnectionIsCurrent' /\ NeverDeaf'
  BY DEF HandshakeInOrder, InOrder, StoppedForGood, TimerIsPast, ConnectionIsCurrent,
         NeverDeaf
<1>7. QED
  BY <1>1, <1>2, <1>3, <1>4, <1>5, <1>6

\* The dial returns a connection that was never used before.
LEMMA DialSucceedsActs ==
    ASSUME Inv, NEW a \in Attempts, NEW c \in Conns, DialSucceeds(a, c)
    PROVE  Inv'
<1> USE DEF Inv
<1>1. /\ socket[c].st = "unused"
      /\ attempt[a].pc = "dial"
      /\ attempt' = [attempt EXCEPT ![a].pc = "dialed", ![a].conn = c]
      /\ socket' = [socket EXCEPT ![c].st = "open", ![c].cfg = attempt[a].cfg]
  BY DEF DialSucceeds
<1>2. UNCHANGED <<config, stopped, generation, conn, isConnecting,
                  isConnected, isSubscribed, pinger, timer, delay, unseen,
                  troubles, news>>
  BY DEF DialSucceeds, flags, backoff, bounds
<1>3. /\ socket[c].drop = "no" /\ socket[c].reader = "off"
      /\ socket[c].subscriber = "off" /\ socket[c].watch = "off"
      /\ socket[c].peer = "new"
  BY <1>1 DEF HandshakeInOrder, InOrder, Unused
<1>4. TypeOK'
  <2>1. attempt' \in [Attempts -> Attempt]
    BY <1>1, ZenonT(40) DEF TypeOK, Attempt
  <2>2. attempt[a].cfg \in Configs \cup {None} /\ socket[c] \in Socket
    BY DEF TypeOK, Attempt
  <2>3. [socket[c] EXCEPT !.st = "open", !.cfg = attempt[a].cfg] \in Socket
    BY <2>2 DEF Socket
  <2>4. socket' \in [Conns -> Socket]
    BY <1>1, <2>3 DEF TypeOK
  <2>5. QED
    BY <1>2, <2>1, <2>4 DEF TypeOK
<1>5. \A b \in Attempts : b # a => attempt'[b] = attempt[b]
  BY <1>1 DEF TypeOK
<1>6. /\ attempt'[a].pc = "dialed" /\ attempt'[a].conn = c
      /\ attempt'[a].gen = attempt[a].gen /\ attempt'[a].cfg = attempt[a].cfg
  BY <1>1 DEF TypeOK, Attempt
<1>7. \A d \in Conns : d # c => socket'[d] = socket[d]
  BY <1>1 DEF TypeOK
<1>8. /\ socket'[c].st = "open" /\ socket'[c].drop = "no"
      /\ socket'[c].reader = "off" /\ socket'[c].subscriber = "off"
      /\ socket'[c].watch = "off" /\ socket'[c].peer = "new"
      /\ socket'[c].cfg = attempt[a].cfg
  BY <1>1, <1>3 DEF TypeOK, Socket
<1>9. DialedIsOwned'
  <2>1. conn # c
    BY <1>1, RealtimeAssumption DEF ConnectionIsCurrent
  <2>2. \A b \in Attempts : attempt[b].pc = "dialed" => attempt[b].conn # c
    BY <1>1 DEF DialedIsOwned, Fresh
  <2>3. QED
    BY <1>2, <1>5, <1>6, <1>7, <1>8, <2>1, <2>2 DEF DialedIsOwned, Fresh
<1>10. DialIsCurrent'
  BY <1>1, <1>2, <1>5, <1>6 DEF TypeOK, DialIsCurrent, Dialing
<1>11. NeverStranded'
  <2>1. \A d \in Conns : socket'[d].drop = socket[d].drop
    BY <1>3, <1>7, <1>8
  <2>2. QED
    BY <1>1, <1>2, <1>5, <1>6, <2>1, ZenonT(40) DEF NeverStranded, WillConnect
<1>12. NoLeakedSocket'
  BY <1>1, <1>2, <1>5, <1>6, <1>7 DEF TypeOK, NoLeakedSocket, Closing
<1>13. HandshakeInOrder'
  BY <1>7, <1>8 DEF HandshakeInOrder, InOrder
<1>14. ConnectionIsCurrent' /\ NeverDeaf'
  BY <1>1, <1>2, <1>7 DEF TypeOK, ConnectionIsCurrent, NeverDeaf
<1>15. StoppedForGood' /\ TimerIsPast'
  BY <1>2 DEF StoppedForGood, TimerIsPast
<1>16. QED
  BY <1>4, <1>9, <1>10, <1>11, <1>12, <1>13, <1>14, <1>15

\* A dial that fails gives up isConnecting if it owns it.
LEMMA DialFailsActs ==
    ASSUME Inv, NEW a \in Attempts, DialFails(a)
    PROVE  Inv'
<1> USE DEF Inv, DialFails, AttemptEnds
<1>1. TypeOK'
  BY AttemptFacts, BoundFacts DEF TypeOK, backoff
<1>2. DialedIsOwned'
  BY AttemptFacts DEF TypeOK, DialedIsOwned, Fresh
<1>3. DialIsCurrent'
  BY AttemptFacts DEF TypeOK, DialIsCurrent, Dialing
<1>4. NeverStranded'
  BY AttemptFacts DEF TypeOK, NeverStranded, WillConnect, backoff
<1>5. NoLeakedSocket'
  BY AttemptFacts DEF TypeOK, NoLeakedSocket, Closing
<1>6. /\ HandshakeInOrder' /\ StoppedForGood' /\ TimerIsPast'
      /\ ConnectionIsCurrent' /\ NeverDeaf'
  BY DEF HandshakeInOrder, InOrder, StoppedForGood, TimerIsPast, ConnectionIsCurrent,
         NeverDeaf, backoff
<1>7. QED
  BY <1>1, <1>2, <1>3, <1>4, <1>5, <1>6

\* The critical section after the dial puts the connection to use, or leaves
\* it to be closed.
LEMMA ConnectedActs ==
    ASSUME Inv, NEW a \in Attempts, Connected(a)
    PROVE  Inv'
<1> DEFINE c == attempt[a].conn
<1> USE DEF Inv
<1>a. /\ attempt[a].pc = "dialed"
      /\ attempt' = [attempt EXCEPT ![a] = Idle]
      /\ isConnecting' = (isConnecting /\ attempt[a].gen # generation)
      /\ UNCHANGED <<config, stopped, generation, pinger, delay, unseen, troubles, news>>
  BY DEF Connected, AttemptEnds, bounds
<1>b. c \in Conns /\ c # conn /\ Fresh(c) /\ socket[c].cfg = attempt[a].cfg
  BY <1>a DEF DialedIsOwned
<1>c. /\ attempt' \in [Attempts -> Attempt]
      /\ attempt'[a].pc = "idle" /\ attempt'[a].gen = 0
      /\ \A b \in Attempts : b # a => attempt'[b] = attempt[b]
  BY <1>a, AttemptFacts DEF TypeOK
<1>d. DialIsCurrent' /\ StoppedForGood'
  BY <1>a, <1>c DEF TypeOK, DialIsCurrent, Dialing, StoppedForGood
<1>e. isConnecting' => \E b \in Attempts : /\ attempt'[b].pc \in {"dial", "dialed"}
                                           /\ attempt'[b].gen = generation
  BY <1>a, <1>c DEF NeverStranded
<1>1. CASE Superseded(a)
  <2>1. /\ socket' = [socket EXCEPT ![c].drop = "end"]
        /\ UNCHANGED <<conn, isConnected, isSubscribed, timer>>
    BY <1>1 DEF Connected
  <2>2. TypeOK'
    <3>1. socket' \in [Conns -> Socket]
      BY <2>1, <1>b DEF TypeOK, Socket
    <3>2. isConnecting' \in BOOLEAN
      BY <1>a
    <3>3. QED
      BY <3>1, <3>2, <2>1, <1>a, <1>c DEF TypeOK
  <2>3. /\ socket'[c] = [socket[c] EXCEPT !.drop = "end"]
        /\ \A d \in Conns : d # c => socket'[d] = socket[d]
        /\ \A d \in Conns : /\ socket'[d].st = socket[d].st
                            /\ socket'[d].peer = socket[d].peer
                            /\ socket'[d].cfg = socket[d].cfg
                            /\ socket'[d].reader = socket[d].reader
                            /\ socket'[d].subscriber = socket[d].subscriber
                            /\ socket'[d].watch = socket[d].watch
        /\ socket'[c].drop = "end"
    BY <2>1, <1>b DEF TypeOK, Socket
  <2>4. DialedIsOwned'
    BY <1>a, <1>b, <1>c, <2>1, <2>3 DEF DialedIsOwned, Fresh
  <2>5. HandshakeInOrder'
    BY <1>b, <2>3 DEF HandshakeInOrder, InOrder, Fresh
  <2>6. NoLeakedSocket'
    BY <1>c, <2>1, <2>3 DEF NoLeakedSocket, Closing
  <2>7. NeverStranded'
    BY <1>a, <1>b, <1>c, <1>e, <2>1, <2>3, <1>1
       DEF NeverStranded, WillConnect, Superseded, DialIsCurrent, Dialing, Fresh
  <2>8. ConnectionIsCurrent' /\ NeverDeaf' /\ TimerIsPast'
    BY <1>a, <1>b, <2>1, <2>3
       DEF TypeOK, ConnectionIsCurrent, NeverDeaf, TimerIsPast
  <2>9. QED
    BY <1>d, <2>2, <2>4, <2>5, <2>6, <2>7, <2>8
<1>2. CASE ~Superseded(a)
  <2>1. /\ conn' = c /\ ~isConnected' /\ ~isSubscribed' /\ timer' = None
        /\ isConnected' \in BOOLEAN /\ isSubscribed' \in BOOLEAN
        /\ socket' = [socket EXCEPT ![c].reader = "read"]
    BY <1>2 DEF Connected
  <2>2. TypeOK'
    <3>1. socket' \in [Conns -> Socket]
      BY <2>1, <1>b DEF TypeOK, Socket
    <3>2. isConnecting' \in BOOLEAN
      BY <1>a
    <3>3. QED
      BY <3>1, <3>2, <2>1, <1>a, <1>b, <1>c DEF TypeOK
  <2>3. /\ \A d \in Conns : d # c => socket'[d] = socket[d]
        /\ \A d \in Conns : /\ socket'[d].st = socket[d].st
                            /\ socket'[d].drop = socket[d].drop
                            /\ socket'[d].peer = socket[d].peer
                            /\ socket'[d].cfg = socket[d].cfg
                            /\ socket'[d].subscriber = socket[d].subscriber
                            /\ socket'[d].watch = socket[d].watch
        /\ socket'[c].reader = "read"
    BY <2>1, <1>b DEF TypeOK, Socket
  <2>4. DialedIsOwned'
    BY <1>a, <1>b, <1>c, <2>1, <2>3 DEF DialedIsOwned, Fresh
  <2>5. HandshakeInOrder'
    BY <1>b, <2>3 DEF HandshakeInOrder, InOrder, Fresh
  <2>6. NoLeakedSocket'
    BY <1>2, <1>c, <2>1, <2>3, RealtimeAssumption
       DEF NoLeakedSocket, Closing, Superseded
  <2>7. NeverStranded'
    BY <1>b, <1>e, <1>a, <2>1, RealtimeAssumption DEF NeverStranded
  <2>8. ConnectionIsCurrent' /\ NeverDeaf' /\ TimerIsPast'
    BY <1>2, <1>a, <1>b, <2>1, <2>3
       DEF ConnectionIsCurrent, NeverDeaf, Fresh, Superseded, TimerIsPast
  <2>9. QED
    BY <1>d, <2>2, <2>4, <2>5, <2>6, <2>7, <2>8
<1>3. QED
  BY <1>1, <1>2

-----------------------------------------------------------------------------
(* The timer, UpdateConfig and Disconnect *)

\* Whoever calls scheduleReconnect and ends leaves the client with a timer,
\* unless it needs none.
LEMMA ScheduleActs ==
    ASSUME Inv, ScheduleReconnect
    PROVE  \/ timer' = generation
           \/ timer' = timer /\ (stopped \/ conn # None \/ isConnecting)
BY DEF Inv, ScheduleReconnect, StoppedForGood, backoff

\* A failed Connect that schedules, and a timer that fires and compares its
\* generation.
LEMMA TimerActs ==
    ASSUME Inv, NEW a \in Attempts,
           AttemptSchedules(a) \/ TimerFires(a) \/ TimerChecks(a)
    PROVE  Inv'
<1> USE DEF Inv
<1>1. CASE AttemptSchedules(a)
  <2> USE DEF AttemptSchedules, flags, bounds
  <2>1. TypeOK'
    BY <1>1, AttemptFacts, BoundFacts DEF TypeOK
  <2>2. DialedIsOwned' /\ DialIsCurrent'
    BY <1>1, AttemptFacts
       DEF TypeOK, DialedIsOwned, Fresh, DialIsCurrent, Dialing
  <2>3. NeverStranded'
    BY <1>1, AttemptFacts, ScheduleActs DEF TypeOK, NeverStranded, WillConnect
  <2>4. NoLeakedSocket'
    BY <1>1, AttemptFacts DEF TypeOK, NoLeakedSocket, Closing
  <2>5. TimerIsPast'
    BY <1>1, ScheduleActs DEF TypeOK, TimerIsPast
  <2>6. /\ HandshakeInOrder' /\ StoppedForGood' /\ ConnectionIsCurrent'
        /\ NeverDeaf'
    BY <1>1 DEF HandshakeInOrder, InOrder, StoppedForGood, ConnectionIsCurrent, NeverDeaf
  <2>7. QED
    BY <2>1, <2>2, <2>3, <2>4, <2>5, <2>6
<1>2. CASE TimerFires(a)
  <2> DEFINE s == [Idle EXCEPT !.pc = "fired", !.gen = timer]
  <2>1. /\ timer \in Nat /\ timer # None /\ timer' = None
        /\ attempt[a] = Idle /\ attempt' = [attempt EXCEPT ![a] = s]
        /\ UNCHANGED <<config, stopped, generation, conn, isConnecting,
                       isConnected, isSubscribed, pinger, delay, socket,
                       unseen, troubles, news>>
    BY <1>2 DEF TimerFires, Spawn, flags, bounds, TypeOK
  <2>2. s \in Attempt /\ s.pc = "fired" /\ s.gen = timer
    BY <2>1, FiredFacts
  <2> HIDE DEF s
  <2>3. TypeOK'
    BY <2>1, <2>2 DEF TypeOK
  <2>4. DialedIsOwned' /\ DialIsCurrent'
    BY <2>1, <2>2
       DEF TypeOK, DialedIsOwned, Fresh, DialIsCurrent, Dialing, TimerIsPast
  <2>5. NeverStranded'
    BY <2>1, <2>2, AttemptFacts DEF TypeOK, NeverStranded, WillConnect
  <2>6. NoLeakedSocket'
    BY <2>1, <2>2, AttemptFacts DEF TypeOK, NoLeakedSocket, Closing
  <2>7. /\ HandshakeInOrder' /\ StoppedForGood' /\ ConnectionIsCurrent'
        /\ NeverDeaf' /\ TimerIsPast'
    BY <2>1 DEF HandshakeInOrder, InOrder, StoppedForGood, ConnectionIsCurrent,
                NeverDeaf, TimerIsPast
  <2>8. QED
    BY <2>3, <2>4, <2>5, <2>6, <2>7
<1>3. CASE TimerChecks(a)
  <2> USE DEF TimerChecks, flags, backoff, bounds
  <2>1. TypeOK'
    BY <1>3, AttemptFacts DEF TypeOK
  <2>2. DialedIsOwned' /\ DialIsCurrent'
    BY <1>3, AttemptFacts
       DEF TypeOK, DialedIsOwned, Fresh, DialIsCurrent, Dialing
  <2>3. NeverStranded'
    BY <1>3, AttemptFacts DEF TypeOK, NeverStranded, WillConnect
  <2>4. NoLeakedSocket'
    BY <1>3, AttemptFacts DEF TypeOK, NoLeakedSocket, Closing
  <2>5. /\ HandshakeInOrder' /\ StoppedForGood' /\ ConnectionIsCurrent'
        /\ NeverDeaf' /\ TimerIsPast'
    BY <1>3 DEF HandshakeInOrder, InOrder, StoppedForGood, ConnectionIsCurrent,
                NeverDeaf, TimerIsPast
  <2>6. QED
    BY <2>1, <2>2, <2>3, <2>4, <2>5
<1>4. QED
  BY <1>1, <1>2, <1>3

\* Taking the current connection out of use, for someone who will close it,
\* changes nothing else about the sockets.
LEMMA DropFacts ==
    ASSUME Inv, conn # None, NEW d \in {"end", "fail", "replace"},
           socket' = [socket EXCEPT ![conn].drop = d]
    PROVE  /\ conn \in Conns
           /\ socket' \in [Conns -> Socket]
           /\ \A c \in Conns : c # conn => socket'[c] = socket[c]
           /\ socket'[conn].drop = d
           /\ \A c \in Conns : /\ socket'[c].st = socket[c].st
                               /\ socket'[c].cfg = socket[c].cfg
                               /\ socket'[c].reader = socket[c].reader
                               /\ socket'[c].subscriber = socket[c].subscriber
                               /\ socket'[c].watch = socket[c].watch
                               /\ socket'[c].peer = socket[c].peer
                               /\ socket'[c].event = socket[c].event
<1>1. conn \in Conns /\ socket[conn] \in Socket
  BY DEF Inv, TypeOK
<1>2. [socket[conn] EXCEPT !.drop = d] \in Socket
  BY <1>1 DEF Socket
<1>3. socket' \in [Conns -> Socket]
  BY <1>1, <1>2 DEF Inv, TypeOK
<1>4. QED
  BY <1>1, <1>3 DEF Inv, TypeOK, Socket

\* UpdateConfig and Disconnect: the parts of the invariant that are about the
\* connection they take out of use.
LEMMA DropKeeps ==
    ASSUME Inv, DropConnection, NEW d \in {"end", "replace"},
           isConnecting' = FALSE, generation' = generation + 1, timer' = None,
           \/ UNCHANGED attempt
           \/ \E a \in Attempts : Spawn(a, ToConnect),
           socket' = IF conn = None THEN socket
                     ELSE [socket EXCEPT ![conn].drop = d]
    PROVE  /\ attempt' \in [Attempts -> Attempt]
           /\ socket' \in [Conns -> Socket]
           /\ DialedIsOwned' /\ DialIsCurrent' /\ HandshakeInOrder'
           /\ NoLeakedSocket' /\ ConnectionIsCurrent' /\ NeverDeaf'
           /\ TimerIsPast'
<1> USE DEF Inv
<1>1. PICK a \in Attempts :
         \/ UNCHANGED attempt
         \/ attempt[a] = Idle /\ attempt' = [attempt EXCEPT ![a] = ToConnect]
  BY RealtimeAssumption DEF Spawn
<1>2. /\ attempt' \in [Attempts -> Attempt]
      /\ \A b \in Attempts :
            \/ attempt'[b] = attempt[b]
            \/ /\ attempt'[b].pc = "connect" /\ attempt'[b].gen = 0
               /\ attempt[b].pc = "idle"
  BY <1>1, AttemptFacts DEF TypeOK
<1>3. conn' = None /\ ~isConnected' /\ ~isSubscribed' /\ pinger' = None
  BY DEF DropConnection
<1>4. /\ socket' \in [Conns -> Socket]
      /\ \A c \in Conns : /\ c # conn => socket'[c] = socket[c]
                          /\ socket'[c].st = socket[c].st
                          /\ socket'[c].cfg = socket[c].cfg
                          /\ socket'[c].reader = socket[c].reader
                          /\ socket'[c].subscriber = socket[c].subscriber
                          /\ socket'[c].watch = socket[c].watch
                          /\ socket'[c].peer = socket[c].peer
                          /\ c = conn => socket'[c].drop \in {"end", "replace"}
  BY DropFacts, RealtimeAssumption DEF TypeOK
<1>5. DialedIsOwned'
  <2>1. \A b \in Attempts : attempt'[b].pc = "dialed" =>
           attempt'[b] = attempt[b] /\ attempt[b].conn # conn
    BY <1>2 DEF DialedIsOwned
  <2>2. QED
    BY <1>3, <1>4, <2>1, RealtimeAssumption DEF DialedIsOwned, Fresh
<1>6. DialIsCurrent'
  <2>1. \A b \in Attempts : attempt'[b].gen \in Nat /\ attempt'[b].gen <= generation
    BY <1>2, AttemptFacts DEF TypeOK, DialIsCurrent, Attempt
  <2>2. QED
    BY <2>1 DEF TypeOK, DialIsCurrent
<1>7. HandshakeInOrder'
  BY <1>4 DEF TypeOK, HandshakeInOrder, InOrder, ConnectionIsCurrent
<1>8. NoLeakedSocket'
  <2>1. \A b \in Attempts : attempt[b].pc = "dialed" => attempt'[b] = attempt[b]
    BY <1>2
  <2>2. QED
    BY <1>4, <2>1 DEF NoLeakedSocket, Closing
<1>9. ConnectionIsCurrent' /\ NeverDeaf' /\ TimerIsPast'
  BY <1>3 DEF ConnectionIsCurrent, NeverDeaf, TimerIsPast
<1>10. QED
  BY <1>2, <1>4, <1>5, <1>6, <1>7, <1>8, <1>9

\* UpdateConfig leaves the connection to be replaced, or starts a goroutine
\* that connects.
LEMMA UpdateConfigActs ==
    ASSUME Inv, NEW cfg \in Configs, UpdateConfig(cfg)
    PROVE  Inv'
<1> USE DEF Inv
<1>1. /\ config' = cfg /\ ~stopped /\ stopped' = stopped
      /\ generation' = generation + 1 /\ DropConnection
      /\ isConnecting' = FALSE /\ delay' = 0 /\ timer' = None
      /\ Trouble /\ UNCHANGED <<unseen, news>>
  BY DEF UpdateConfig
<1>2. /\ socket' = IF conn = None THEN socket
                   ELSE [socket EXCEPT ![conn].drop = "replace"]
      /\ conn = None => \E a \in Attempts : Spawn(a, ToConnect)
      /\ conn # None => UNCHANGED attempt
  BY DEF UpdateConfig
<1>3. /\ attempt' \in [Attempts -> Attempt]
      /\ socket' \in [Conns -> Socket]
      /\ DialedIsOwned' /\ DialIsCurrent' /\ HandshakeInOrder'
      /\ NoLeakedSocket' /\ ConnectionIsCurrent' /\ NeverDeaf'
      /\ TimerIsPast'
  BY <1>1, <1>2, DropKeeps
<1>4. TypeOK'
  <2>1. /\ generation' \in Nat /\ delay' \in 0..MaxDelay
        /\ troubles' \in 0..MaxTroubles
    BY <1>1, BoundFacts DEF TypeOK
  <2>2. /\ isConnecting' \in BOOLEAN /\ isConnected' \in BOOLEAN
        /\ isSubscribed' \in BOOLEAN
    BY <1>1 DEF DropConnection
  <2>3. QED
    BY <1>1, <1>3, <2>1, <2>2 DEF TypeOK, DropConnection
<1>5. NeverStranded'
  <2>1. CASE conn = None
    BY <1>1, <1>2, <2>1, AttemptFacts
       DEF TypeOK, Spawn, NeverStranded, WillConnect
  <2>2. CASE conn # None
    BY <1>1, <1>2, <2>2, DropFacts DEF NeverStranded, WillConnect
  <2>3. QED
    BY <2>1, <2>2
<1>6. StoppedForGood'
  BY <1>1, RealtimeAssumption DEF StoppedForGood
<1>7. QED
  BY <1>3, <1>4, <1>5, <1>6

\* Disconnect leaves the connection to be closed.
LEMMA DisconnectActs ==
    ASSUME Inv, Disconnect
    PROVE  Inv'
<1> USE DEF Inv
<1>1. /\ config' = None /\ ~stopped /\ stopped' = TRUE
      /\ generation' = generation + 1 /\ DropConnection
      /\ isConnecting' = FALSE /\ timer' = None
      /\ socket' = IF conn = None THEN socket
                   ELSE [socket EXCEPT ![conn].drop = "end"]
      /\ UNCHANGED <<delay, attempt, unseen, troubles, news>>
  BY DEF Disconnect, bounds
<1>2. /\ attempt' \in [Attempts -> Attempt]
      /\ socket' \in [Conns -> Socket]
      /\ DialedIsOwned' /\ DialIsCurrent' /\ HandshakeInOrder'
      /\ NoLeakedSocket' /\ ConnectionIsCurrent' /\ NeverDeaf'
      /\ TimerIsPast'
  BY <1>1, DropKeeps
<1>3. TypeOK'
  <2>1. generation' \in Nat
    BY <1>1 DEF TypeOK
  <2>2. /\ isConnecting' \in BOOLEAN /\ isConnected' \in BOOLEAN
        /\ isSubscribed' \in BOOLEAN /\ stopped' \in BOOLEAN
    BY <1>1 DEF DropConnection
  <2>3. QED
    BY <1>1, <1>2, <2>1, <2>2 DEF TypeOK, DropConnection
<1>4. NeverStranded' /\ StoppedForGood'
  BY <1>1 DEF NeverStranded, StoppedForGood
<1>5. QED
  BY <1>2, <1>3, <1>4

-----------------------------------------------------------------------------
(* Closing a connection *)

\* A step that changes the socket of one connection changes no other.
LEMMA OneSocket ==
    ASSUME TypeOK, NEW c \in Conns, NEW s \in Socket,
           socket' = [socket EXCEPT ![c] = s]
    PROVE  /\ socket' \in [Conns -> Socket]
           /\ socket'[c] = s
           /\ \A d \in Conns : d # c => socket'[d] = socket[d]
BY DEF TypeOK

\* A connection that was dropped is not the one in use, nor one that was just
\* dialed.
LEMMA DroppedFacts ==
    ASSUME Inv, NEW c \in Conns, socket[c].drop # "no"
    PROVE  /\ c # conn
           /\ \A a \in Attempts : attempt[a].pc = "dialed" => attempt[a].conn # c
           /\ socket[c].st # "unused"
BY RealtimeAssumption
   DEF Inv, ConnectionIsCurrent, DialedIsOwned, Fresh, HandshakeInOrder, InOrder, Unused

\* The close, and the goroutine that connects after it.
LEMMA CloseSocketActs ==
    ASSUME Inv, NEW c \in Conns, CloseSocket(c)
    PROVE  Inv'
<1> DEFINE next == IF socket[c].drop = "fail" THEN "schedule" ELSE "done"
           s == [socket[c] EXCEPT !.st = "closed", !.drop = next]
<1> USE DEF Inv
<1>1. /\ socket[c].drop \in {"end", "fail", "replace"}
      /\ socket' = [socket EXCEPT ![c] = s]
      /\ UNCHANGED <<config, stopped, generation, conn, isConnecting,
                     isConnected, isSubscribed, pinger, timer, delay, unseen,
                     troubles, news>>
  BY DEF CloseSocket, flags, backoff, bounds, TypeOK
<1>2. /\ s \in Socket /\ s.st = "closed" /\ s.drop = next
      /\ s.reader = socket[c].reader /\ s.subscriber = socket[c].subscriber
      /\ s.watch = socket[c].watch /\ s.peer = socket[c].peer
  <2>1. next \in {"schedule", "done"} /\ socket[c] \in Socket
    BY DEF TypeOK
  <2> HIDE DEF next
  <2>2. QED
    BY <2>1 DEF Socket
<1> HIDE DEF s
<1>3. /\ socket' \in [Conns -> Socket]
      /\ socket'[c] = s
      /\ \A d \in Conns : d # c => socket'[d] = socket[d]
  BY <1>1, <1>2, OneSocket
<1>4. PICK a \in Attempts :
         \/ socket[c].drop # "replace" /\ UNCHANGED attempt
         \/ attempt[a] = Idle /\ attempt' = [attempt EXCEPT ![a] = ToConnect]
  BY RealtimeAssumption DEF CloseSocket, Spawn
<1>5. /\ attempt' \in [Attempts -> Attempt]
      /\ \A b \in Attempts :
            \/ attempt'[b] = attempt[b]
            \/ /\ attempt'[b].pc = "connect" /\ attempt'[b].gen = 0
               /\ attempt[b].pc = "idle"
      /\ socket[c].drop = "replace" => attempt'[a].pc = "connect"
  BY <1>4, AttemptFacts DEF TypeOK
<1>6. /\ c # conn
      /\ \A b \in Attempts : attempt[b].pc = "dialed" => attempt[b].conn # c
  BY <1>1, DroppedFacts
<1>7. TypeOK'
  BY <1>1, <1>3, <1>5 DEF TypeOK
<1>8. DialedIsOwned'
  <2>1. \A b \in Attempts : attempt'[b].pc = "dialed" => attempt'[b] = attempt[b]
    BY <1>5
  <2>2. QED
    BY <1>1, <1>3, <1>6, <2>1 DEF DialedIsOwned, Fresh
<1>9. DialIsCurrent'
  <2>1. \A b \in Attempts : /\ Dialing(b)' => attempt'[b] = attempt[b]
                            /\ attempt'[b].gen <= generation
    BY <1>5 DEF TypeOK, DialIsCurrent, Dialing
  <2>2. QED
    BY <1>1, <2>1 DEF DialIsCurrent, Dialing
<1>10. HandshakeInOrder'
  BY <1>2, <1>3 DEF HandshakeInOrder, InOrder
<1>11. NoLeakedSocket'
  <2>1. \A b \in Attempts : attempt[b].pc = "dialed" => attempt'[b] = attempt[b]
    BY <1>5
  <2>2. QED
    BY <1>1, <1>2, <1>3, <2>1 DEF NoLeakedSocket, Closing
<1>12. NeverStranded'
  <2>1. \A b \in Attempts : attempt[b].pc # "idle" => attempt'[b] = attempt[b]
    BY <1>5
  <2>2. isConnecting' => \E b \in Attempts :
           attempt'[b].pc \in {"dial", "dialed"} /\ attempt'[b].gen = generation'
    BY <1>1, <2>1 DEF NeverStranded
  <2>3. ~stopped /\ conn = None => WillConnect'
    <3>1. CASE socket[c].drop = "replace"
      BY <1>5, <3>1 DEF WillConnect
    <3>2. CASE socket[c].drop = "fail"
      BY <1>2, <1>3, <3>2 DEF WillConnect
    <3>3. CASE socket[c].drop = "end"
      BY <1>1, <1>3, <2>1, <3>3 DEF NeverStranded, WillConnect
    <3>4. QED
      BY <1>1, <3>1, <3>2, <3>3
  <2>4. QED
    BY <1>1, <2>2, <2>3 DEF NeverStranded
<1>13. ConnectionIsCurrent' /\ NeverDeaf'
  BY <1>1, <1>3, <1>6 DEF TypeOK, ConnectionIsCurrent, NeverDeaf
<1>14. StoppedForGood' /\ TimerIsPast'
  BY <1>1 DEF StoppedForGood, TimerIsPast
<1>15. QED
  BY <1>7, <1>8, <1>9, <1>10, <1>11, <1>12, <1>13, <1>14

\* The call of scheduleReconnect at the end of a drop.
LEMMA DropSchedulesActs ==
    ASSUME Inv, NEW c \in Conns, DropSchedules(c)
    PROVE  Inv'
<1> DEFINE s == [socket[c] EXCEPT !.drop = "done"]
<1> USE DEF Inv
<1>1. /\ socket[c].drop = "schedule"
      /\ socket' = [socket EXCEPT ![c] = s]
      /\ ScheduleReconnect
      /\ UNCHANGED <<config, stopped, generation, conn, isConnecting,
                     isConnected, isSubscribed, pinger, attempt, unseen,
                     troubles, news>>
  BY DEF DropSchedules, flags, bounds, TypeOK
<1>2. /\ s \in Socket /\ s.st = socket[c].st /\ s.drop = "done"
      /\ s.reader = socket[c].reader /\ s.subscriber = socket[c].subscriber
      /\ s.watch = socket[c].watch /\ s.peer = socket[c].peer
  BY DEF TypeOK, Socket
<1> HIDE DEF s
<1>3. /\ socket' \in [Conns -> Socket]
      /\ socket'[c] = s
      /\ \A d \in Conns : d # c => socket'[d] = socket[d]
  BY <1>1, <1>2, OneSocket
<1>4. /\ c # conn
      /\ \A b \in Attempts : attempt[b].pc = "dialed" => attempt[b].conn # c
      /\ socket[c].st # "unused"
  BY <1>1, DroppedFacts
<1>5. /\ timer' \in Nat \cup {None} /\ delay' \in 0..MaxDelay
      /\ TimerIsPast'
  BY <1>1, BoundFacts DEF TypeOK, TimerIsPast
<1>6. TypeOK'
  BY <1>1, <1>3, <1>5 DEF TypeOK
<1>7. DialedIsOwned' /\ DialIsCurrent'
  BY <1>1, <1>3, <1>4 DEF DialedIsOwned, Fresh, DialIsCurrent, Dialing
<1>8. HandshakeInOrder'
  BY <1>2, <1>3, <1>4 DEF HandshakeInOrder, InOrder
<1>9. NoLeakedSocket'
  BY <1>1, <1>2, <1>3 DEF NoLeakedSocket, Closing
<1>10. NeverStranded'
  BY <1>1, <1>3, ScheduleActs DEF NeverStranded, WillConnect
<1>11. ConnectionIsCurrent' /\ NeverDeaf'
  BY <1>1, <1>3, <1>4 DEF TypeOK, ConnectionIsCurrent, NeverDeaf
<1>12. StoppedForGood'
  BY <1>1 DEF StoppedForGood
<1>13. QED
  BY <1>5, <1>6, <1>7, <1>8, <1>9, <1>10, <1>11, <1>12

-----------------------------------------------------------------------------
(* The goroutines of a connection *)

\* Some goroutine of the client has worked for connection c.
Worked(c) ==
    \/ socket[c].reader # "off"
    \/ socket[c].subscriber # "off"
    \/ socket[c].watch # "off"

\* s is the socket of c after a step of one of its goroutines, which neither
\* closes nor drops it.
HandshakeStep(c, s) ==
    /\ Worked(c)
    /\ s \in Socket
    /\ s.st = socket[c].st /\ s.cfg = socket[c].cfg /\ s.drop = socket[c].drop
    /\ s.st # "unused" => InOrder(s)

\* A connection that a goroutine has worked for is used, and is not one that
\* was just dialed.
LEMMA WorkedFacts ==
    ASSUME Inv, NEW c \in Conns, Worked(c)
    PROVE  /\ socket[c].st # "unused"
           /\ \A a \in Attempts : attempt[a].pc = "dialed" => attempt[a].conn # c
<1>1. socket[c].st # "unused"
  BY DEF Inv, Worked, HandshakeInOrder, InOrder, Unused
<1>2. \A a \in Attempts : attempt[a].pc = "dialed" => attempt[a].conn # c
  BY DEF Inv, Worked, DialedIsOwned, Fresh
<1>3. QED
  BY <1>1, <1>2

\* The parts of the invariant that are not about the handshake of the
\* connection in use.
Elsewhere ==
    /\ socket \in [Conns -> Socket]
    /\ DialedIsOwned /\ DialIsCurrent /\ HandshakeInOrder
    /\ StoppedForGood /\ TimerIsPast
    /\ NoLeakedSocket
    /\ NeverStranded

\* A step of the handshake leaves everything else as it was.
LEMMA HandshakeKeeps ==
    ASSUME Inv, NEW c \in Conns, NEW s, HandshakeStep(c, s),
           socket' = [socket EXCEPT ![c] = s],
           UNCHANGED <<config, stopped, generation, conn, isConnecting, timer,
                       attempt>>
    PROVE  /\ Elsewhere'
           /\ socket'[c] = s
           /\ \A d \in Conns : d # c => socket'[d] = socket[d]
<1> USE DEF Inv
<1>1. /\ s \in Socket /\ s.st = socket[c].st /\ s.drop = socket[c].drop
      /\ s.cfg = socket[c].cfg /\ Worked(c)
  BY DEF HandshakeStep
<1>2. /\ socket[c].st # "unused"
      /\ \A a \in Attempts : attempt[a].pc = "dialed" => attempt[a].conn # c
  BY <1>1, WorkedFacts
<1>3. /\ socket' \in [Conns -> Socket]
      /\ socket'[c] = s
      /\ \A d \in Conns : d # c => socket'[d] = socket[d]
  BY <1>1, OneSocket
<1>4. \A d \in Conns : /\ socket'[d].st = socket[d].st
                       /\ socket'[d].drop = socket[d].drop
  BY <1>1, <1>3
<1>5. DialedIsOwned' /\ DialIsCurrent'
  BY <1>2, <1>3 DEF DialedIsOwned, Fresh, DialIsCurrent, Dialing
<1>6. HandshakeInOrder'
  BY <1>1, <1>2, <1>3 DEF HandshakeStep, HandshakeInOrder
<1>7. NoLeakedSocket' /\ NeverStranded'
  BY <1>4 DEF NoLeakedSocket, Closing, NeverStranded, WillConnect
<1>8. StoppedForGood' /\ TimerIsPast'
  BY DEF StoppedForGood, TimerIsPast
<1>9. QED
  BY <1>3, <1>5, <1>6, <1>7, <1>8 DEF Elsewhere

\* A goroutine of c that ends by failing the connection, if it is still the
\* one in use, leaves it to be closed; s is its socket before that.
LEMMA FailConnectionActs ==
    ASSUME Inv, NEW c \in Conns, NEW s, HandshakeStep(c, s),
           FailConnection(c, [socket EXCEPT ![c] = s]),
           UNCHANGED <<config, stopped, generation, isConnecting, timer, delay,
                       attempt, unseen, news>>,
           troubles' \in 0..MaxTroubles
    PROVE  Inv'
<1> USE DEF Inv
<1>1. CASE IsActive(c)
  <2> DEFINE t == [s EXCEPT !.drop = "fail"]
  <2>1. /\ conn = c
        /\ s \in Socket /\ s.st = socket[c].st /\ s.drop = socket[c].drop
        /\ s.cfg = socket[c].cfg /\ Worked(c)
    BY <1>1 DEF HandshakeStep, IsActive
  <2>2. /\ t \in Socket /\ t.st = s.st /\ t.drop = "fail"
        /\ t.reader = s.reader /\ t.subscriber = s.subscriber
        /\ t.watch = s.watch /\ t.peer = s.peer
    BY <2>1 DEF Socket
  <2>3. /\ DropConnection
        /\ socket' = [socket EXCEPT ![c] = t]
    BY <1>1, <2>1 DEF FailConnection, TypeOK
  <2> HIDE DEF t
  <2>4. /\ socket[c].st # "unused"
        /\ \A a \in Attempts : attempt[a].pc = "dialed" => attempt[a].conn # c
    BY <2>1, WorkedFacts
  <2>5. /\ socket' \in [Conns -> Socket]
        /\ socket'[c] = t
        /\ \A d \in Conns : d # c => socket'[d] = socket[d]
    BY <2>2, <2>3, OneSocket
  <2>6. /\ conn' = None /\ ~isConnected' /\ ~isSubscribed' /\ pinger' = None
        /\ isConnected' \in BOOLEAN /\ isSubscribed' \in BOOLEAN
    BY <2>3 DEF DropConnection
  <2>7. TypeOK'
    BY <2>5, <2>6 DEF TypeOK
  <2>8. DialedIsOwned' /\ DialIsCurrent'
    <3>1. \A a \in Attempts : attempt[a].pc = "dialed" =>
             attempt[a].conn # None /\ socket'[attempt[a].conn] = socket[attempt[a].conn]
      BY <2>4, <2>5, RealtimeAssumption DEF DialedIsOwned
    <3>2. QED
      BY <2>6, <3>1 DEF DialedIsOwned, Fresh, DialIsCurrent, Dialing
  <2>9. HandshakeInOrder'
    <3>1. InOrder(t)
      BY <2>1, <2>2, <2>4 DEF HandshakeStep, InOrder
    <3>2. QED
      BY <2>5, <3>1 DEF HandshakeInOrder
  <2>10. NoLeakedSocket'
    BY <2>1, <2>2, <2>5 DEF NoLeakedSocket, Closing
  <2>11. NeverStranded'
    BY <2>2, <2>5 DEF NeverStranded, WillConnect
  <2>12. /\ ConnectionIsCurrent' /\ NeverDeaf' /\ StoppedForGood'
         /\ TimerIsPast'
    BY <2>6 DEF ConnectionIsCurrent, NeverDeaf, StoppedForGood, TimerIsPast
  <2>13. QED
    BY <2>7, <2>8, <2>9, <2>10, <2>11, <2>12
<1>2. CASE ~IsActive(c)
  <2>1. /\ socket' = [socket EXCEPT ![c] = s]
        /\ UNCHANGED <<conn, isConnected, isSubscribed, pinger>>
    BY <1>2 DEF FailConnection, KeepConnection
  <2>2. /\ Elsewhere'
        /\ \A d \in Conns : d # c => socket'[d] = socket[d]
    BY <2>1, HandshakeKeeps
  <2>3. c # conn
    BY <1>2, RealtimeAssumption DEF IsActive, ConnectionIsCurrent
  <2>4. TypeOK'
    BY <2>1, <2>2 DEF TypeOK, Elsewhere
  <2>5. ConnectionIsCurrent' /\ NeverDeaf'
    BY <2>1, <2>2, <2>3 DEF TypeOK, ConnectionIsCurrent, NeverDeaf
  <2>6. QED
    BY <2>2, <2>4, <2>5 DEF Elsewhere
<1>3. QED
  BY <1>1, <1>2

\* The goroutines of a connection that end by failing it.
LEMMA FailingActs ==
    ASSUME Inv, NEW c \in Conns,
           \/ ReaderEnds(c) \/ ConnectionLost(c) \/ SubscriptionError(c)
           \/ SubscribeFails(c) \/ WatchdogFails(c)
    PROVE  Inv'
<1> USE DEF Inv
<1>1. socket[c] \in Socket /\ InOrder(socket[c])
  BY DEF TypeOK, HandshakeInOrder
<1>2. /\ UNCHANGED <<config, stopped, generation, isConnecting, timer, delay,
                     attempt, unseen, news>>
      /\ troubles' \in 0..MaxTroubles
  BY BoundFacts DEF ReaderEnds, ConnectionLost, ReaderCleanup,
     SubscriptionError, SubscribeFails, WatchdogFails, backoff, bounds, TypeOK
<1>3. CASE ReaderEnds(c) \/ ConnectionLost(c)
  <2> DEFINE s == [socket[c] EXCEPT !.reader = "done"]
  <2>1. /\ socket[c].reader = "read"
        /\ FailConnection(c, [socket EXCEPT ![c] = s])
    BY <1>3 DEF ReaderEnds, ConnectionLost, ReaderCleanup, TypeOK
  <2>2. HandshakeStep(c, s)
    BY <1>1, <2>1 DEF HandshakeStep, Worked, Socket, InOrder
  <2> HIDE DEF s
  <2>3. QED
    BY <1>2, <2>1, <2>2, FailConnectionActs
<1>4. CASE SubscriptionError(c)
  <2> DEFINE s == [socket[c] EXCEPT !.peer = "rejected"]
  <2>1. /\ socket[c].reader = "read" /\ socket[c].peer = "asked"
        /\ FailConnection(c, [socket EXCEPT ![c] = s])
    BY <1>4 DEF SubscriptionError, Receives, TypeOK
  <2>2. HandshakeStep(c, s)
    BY <1>1, <2>1 DEF HandshakeStep, Worked, Socket, InOrder
  <2> HIDE DEF s
  <2>3. QED
    BY <1>2, <2>1, <2>2, FailConnectionActs
<1>5. CASE SubscribeFails(c)
  <2> DEFINE s == [socket[c] EXCEPT !.subscriber = "done"]
  <2>1. /\ socket[c].subscriber = "fail"
        /\ FailConnection(c, [socket EXCEPT ![c] = s])
    BY <1>5 DEF SubscribeFails, TypeOK
  <2>2. HandshakeStep(c, s)
    BY <1>1, <2>1 DEF HandshakeStep, Worked, Socket, InOrder
  <2> HIDE DEF s
  <2>3. QED
    BY <1>2, <2>1, <2>2, FailConnectionActs
<1>6. CASE WatchdogFails(c)
  <2> DEFINE s == [socket[c] EXCEPT !.watch = "done"]
  <2>1. /\ socket[c].watch = "fail"
        /\ FailConnection(c, [socket EXCEPT ![c] = s])
    BY <1>6 DEF WatchdogFails, TypeOK
  <2>2. HandshakeStep(c, s)
    BY <1>1, <2>1 DEF HandshakeStep, Worked, Socket, InOrder
  <2> HIDE DEF s
  <2>3. QED
    BY <1>2, <2>1, <2>2, FailConnectionActs
<1>7. QED
  BY <1>3, <1>4, <1>5, <1>6

\* The greeting, after which the reader is to start the ticker and, where
\* there is a channel, the subscription.
LEMMA EstablishedActs ==
    ASSUME Inv, NEW c \in Conns, Established(c)
    PROVE  Inv'
<1> DEFINE next == IF config \in NoChannel THEN "ping" ELSE "subscribe"
           r == IF IsActive(c) THEN next ELSE socket[c].reader
           s == [socket[c] EXCEPT !.peer = "greeted", !.reader = r]
<1> USE DEF Inv
<1>1. /\ socket[c].reader = "read" /\ socket[c].peer = "new"
      /\ socket[c] \in Socket /\ InOrder(socket[c])
  BY DEF Established, Receives, TypeOK, HandshakeInOrder
<1>2. /\ socket' = [socket EXCEPT ![c] = s]
      /\ isConnected' = (isConnected \/ IsActive(c))
      /\ UNCHANGED <<config, stopped, generation, conn, isConnecting,
                     isSubscribed, pinger, timer, delay, attempt, unseen,
                     troubles, news>>
  BY DEF Established, TypeOK, backoff, bounds
<1>3. r \in {"read", "ping", "subscribe"}
  BY <1>1
<1>4. HandshakeStep(c, s) /\ s.peer = "greeted" /\ s.reader = r
  <2> HIDE DEF r
  <2>1. QED
    BY <1>1, <1>3 DEF HandshakeStep, Worked, Socket, InOrder
<1>5. s.watch = socket[c].watch /\ s.st = socket[c].st /\ s.drop = socket[c].drop
      /\ s.cfg = socket[c].cfg
  BY <1>1 DEF Socket
<1> HIDE DEF s
<1>6. /\ Elsewhere'
      /\ socket'[c] = s
      /\ \A d \in Conns : d # c => socket'[d] = socket[d]
  BY <1>2, <1>4, HandshakeKeeps
<1>7. TypeOK'
  BY <1>2, <1>6 DEF TypeOK, Elsewhere
<1>8. ConnectionIsCurrent' /\ NeverDeaf'
  <2>1. CASE conn = c
    <3>1. ~isSubscribed /\ ~stopped /\ conn # None
      BY <1>1, <2>1, RealtimeAssumption DEF ConnectionIsCurrent
    <3>2. config \notin NoChannel => socket'[c].reader = "subscribe"
      BY <1>4, <1>6, <2>1, <3>1 DEF IsActive
    <3>3. QED
      BY <1>2, <1>4, <1>5, <1>6, <2>1, <3>1, <3>2
         DEF ConnectionIsCurrent, NeverDeaf
  <2>2. CASE conn # c
    BY <1>2, <1>6, <2>2 DEF TypeOK, ConnectionIsCurrent, NeverDeaf, IsActive
  <2>3. QED
    BY <2>1, <2>2
<1>9. QED
  BY <1>6, <1>7, <1>8 DEF Elsewhere

\* The ticker, and the goroutines that are started after it.
LEMMA StartPingTickerActs ==
    ASSUME Inv, NEW c \in Conns, StartPingTicker(c)
    PROVE  Inv'
<1> DEFINE u == IF socket[c].reader = "ping" THEN socket[c].subscriber ELSE "start"
           w == IF socket[c].reader = "ping" THEN socket[c].watch ELSE "armed"
           s == [socket[c] EXCEPT !.reader = "read", !.subscriber = u, !.watch = w]
<1> USE DEF Inv
<1>1. /\ socket[c].reader \in {"ping", "subscribe"}
      /\ socket[c].peer = "greeted" /\ socket[c].subscriber = "off"
      /\ socket[c].watch = "off"
      /\ socket[c] \in Socket
  BY DEF StartPingTicker, TypeOK, HandshakeInOrder, InOrder
<1>2. /\ socket' = [socket EXCEPT ![c] = s]
      /\ pinger' = IF IsActive(c) THEN c ELSE pinger
      /\ UNCHANGED <<config, stopped, generation, conn, isConnecting,
                     isConnected, isSubscribed, timer, delay, attempt, unseen,
                     troubles, news>>
  BY DEF StartPingTicker, TypeOK, flags, backoff, bounds
<1>3. /\ u \in {"off", "start"} /\ w \in {"off", "armed"}
      /\ socket[c].reader = "subscribe" => w = "armed"
  BY <1>1
<1> HIDE DEF u, w
<1>4. HandshakeStep(c, s)
  <2>1. InOrder(socket[c]) /\ socket[c].st # "unused"
    BY <1>1, WorkedFacts DEF HandshakeInOrder, Worked
  <2>2. QED
    BY <1>1, <1>3, <2>1 DEF HandshakeStep, Worked, Socket, InOrder
<1>5. /\ s.watch = w /\ s.peer = "greeted" /\ s.st = socket[c].st
      /\ s.drop = socket[c].drop /\ s.cfg = socket[c].cfg
  BY <1>1 DEF Socket
<1> HIDE DEF s
<1>6. /\ Elsewhere'
      /\ socket'[c] = s
      /\ \A d \in Conns : d # c => socket'[d] = socket[d]
  BY <1>2, <1>4, HandshakeKeeps
<1>7. TypeOK'
  BY <1>2, <1>6 DEF TypeOK, Elsewhere
<1>8. ConnectionIsCurrent'
  BY <1>1, <1>2, <1>5, <1>6 DEF TypeOK, ConnectionIsCurrent, IsActive
<1>9. NeverDeaf'
  BY <1>1, <1>2, <1>3, <1>5, <1>6 DEF TypeOK, NeverDeaf, ConnectionIsCurrent
<1>10. QED
  BY <1>6, <1>7, <1>8, <1>9 DEF Elsewhere

\* The confirmation of the subscription.
LEMMA SubscriptionSucceededActs ==
    ASSUME Inv, NEW c \in Conns, SubscriptionSucceeded(c)
    PROVE  Inv'
<1> DEFINE s == [socket[c] EXCEPT !.peer = "confirmed"]
<1> USE DEF Inv
<1>1. /\ socket[c].reader = "read" /\ socket[c].peer = "asked"
      /\ socket[c] \in Socket /\ InOrder(socket[c])
  BY DEF SubscriptionSucceeded, Receives, TypeOK, HandshakeInOrder
<1>2. /\ socket' = [socket EXCEPT ![c] = s]
      /\ \/ /\ conn = c /\ isSubscribed' = TRUE /\ delay' = 0
            /\ unseen' = FALSE
         \/ UNCHANGED <<isSubscribed, delay, unseen>>
      /\ UNCHANGED <<config, stopped, generation, conn, isConnecting,
                     isConnected, pinger, timer, attempt, troubles, news>>
  BY DEF SubscriptionSucceeded, IsActive, TypeOK, bounds
<1>3. HandshakeStep(c, s)
  BY <1>1 DEF HandshakeStep, Worked, Socket, InOrder
<1>4. /\ s.peer = "confirmed" /\ s.watch = socket[c].watch
      /\ s.reader = socket[c].reader /\ s.st = socket[c].st
      /\ s.drop = socket[c].drop /\ s.cfg = socket[c].cfg
  BY <1>1 DEF Socket
<1> HIDE DEF s
<1>5. /\ Elsewhere'
      /\ socket'[c] = s
      /\ \A d \in Conns : d # c => socket'[d] = socket[d]
  BY <1>2, <1>3, HandshakeKeeps
<1>6. TypeOK'
  <2>1. /\ delay' \in 0..MaxDelay
        /\ isSubscribed' \in BOOLEAN /\ unseen' \in BOOLEAN
    BY <1>2, BoundFacts DEF TypeOK
  <2>2. QED
    BY <1>2, <1>5, <2>1 DEF TypeOK, Elsewhere
<1>7. ConnectionIsCurrent' /\ NeverDeaf'
  BY <1>2, <1>4, <1>5, RealtimeAssumption
     DEF TypeOK, ConnectionIsCurrent, NeverDeaf
<1>8. QED
  BY <1>5, <1>6, <1>7 DEF Elsewhere

\* The steps of the subscriber before it ends.
LEMMA SubscriberActs ==
    ASSUME Inv, NEW c \in Conns,
           SubscribeStarts(c) \/ SubscribeSends(c) \/ SubscribeRefused(c)
    PROVE  Inv'
<1> USE DEF Inv
<1>1. socket[c] \in Socket /\ InOrder(socket[c])
  BY DEF TypeOK, HandshakeInOrder
<1>2. /\ UNCHANGED <<config, stopped, generation, conn, isConnecting,
                     isConnected, isSubscribed, pinger, timer, delay, attempt,
                     unseen, news>>
      /\ troubles' \in 0..MaxTroubles
      /\ socket[c].subscriber \in {"start", "auth"}
  BY BoundFacts DEF SubscribeStarts, SubscribeSends, SubscribeRefused, flags,
                    backoff, bounds, TypeOK
<1>3. PICK u \in {"auth", "fail", "done"}, p \in {"greeted", "asked"} :
         /\ u = "auth" => p = "greeted"
         /\ socket' = [socket EXCEPT
               ![c] = [socket[c] EXCEPT !.subscriber = u, !.peer = p]]
  <2>1. socket[c].peer = "greeted"
    BY <1>1, <1>2 DEF InOrder, Socket
  <2>2. socket[c] = [socket[c] EXCEPT !.peer = "greeted"]
    BY <1>1, <2>1 DEF Socket
  <2>3. CASE SubscribeStarts(c)
    <3>1. PICK u \in {"auth", "fail"} :
             socket' = [socket EXCEPT ![c].subscriber = u]
      BY <2>3 DEF SubscribeStarts
    <3>2. socket' = [socket EXCEPT
             ![c] = [socket[c] EXCEPT !.subscriber = u, !.peer = "greeted"]]
      BY <1>1, <2>1, <3>1 DEF TypeOK, Socket
    <3>3. QED
      BY <3>2
  <2>4. CASE SubscribeSends(c) /\ IsActive(c)
    <3>1. socket' = [socket EXCEPT
             ![c] = [socket[c] EXCEPT !.subscriber = "done", !.peer = "asked"]]
      BY <2>4 DEF SubscribeSends, TypeOK
    <3>2. QED
      BY <3>1
  <2>5. CASE SubscribeRefused(c) \/ (SubscribeSends(c) /\ ~IsActive(c))
    <3>1. socket' = [socket EXCEPT ![c].subscriber = "fail"]
      BY <2>5 DEF SubscribeRefused, SubscribeSends
    <3>2. socket' = [socket EXCEPT
             ![c] = [socket[c] EXCEPT !.subscriber = "fail", !.peer = "greeted"]]
      BY <1>1, <2>1, <3>1 DEF TypeOK, Socket
    <3>3. QED
      BY <3>2
  <2>6. QED
    BY <2>3, <2>4, <2>5
<1> DEFINE s == [socket[c] EXCEPT !.subscriber = u, !.peer = p]
<1>4. HandshakeStep(c, s)
  <2>1. socket[c].st # "unused" /\ socket[c].reader \notin {"ping", "subscribe"}
    BY <1>1, <1>2, WorkedFacts DEF InOrder, Worked
  <2>2. QED
    BY <1>1, <1>2, <1>3, <2>1, ZenonT(40) DEF HandshakeStep, Worked, Socket, InOrder
<1>5. /\ s.peer # "new" /\ s.watch = socket[c].watch
      /\ s.reader = socket[c].reader /\ s.st = socket[c].st
      /\ s.drop = socket[c].drop /\ s.cfg = socket[c].cfg
  BY <1>1 DEF Socket
<1> HIDE DEF s
<1>6. /\ Elsewhere'
      /\ socket'[c] = s
      /\ \A d \in Conns : d # c => socket'[d] = socket[d]
  BY <1>2, <1>3, <1>4, HandshakeKeeps DEF s
<1>7. TypeOK'
  BY <1>2, <1>6 DEF TypeOK, Elsewhere
<1>8. conn = c => ~isSubscribed
  BY <1>1, <1>2 DEF ConnectionIsCurrent, InOrder
<1>9. ConnectionIsCurrent' /\ NeverDeaf'
  BY <1>2, <1>5, <1>6, <1>8 DEF TypeOK, ConnectionIsCurrent, NeverDeaf
<1>10. QED
  BY <1>6, <1>7, <1>9 DEF Elsewhere

\* The watchdog looks at the subscription of the connection.
LEMMA WatchdogChecksActs ==
    ASSUME Inv, NEW c \in Conns, WatchdogChecks(c)
    PROVE  Inv'
<1> USE DEF Inv
<1>1. socket[c] \in Socket /\ InOrder(socket[c]) /\ socket[c].watch = "armed"
  BY DEF WatchdogChecks, TypeOK, HandshakeInOrder
<1>2. /\ UNCHANGED <<config, stopped, generation, conn, isConnecting,
                     isConnected, isSubscribed, pinger, timer, delay, attempt,
                     unseen, news>>
      /\ troubles' \in 0..MaxTroubles
  BY BoundFacts DEF WatchdogChecks, flags, backoff, TypeOK
<1>3. PICK w \in {"fail", "done"} :
         /\ w = "done" => conn # c \/ isSubscribed
         /\ socket' = [socket EXCEPT ![c] = [socket[c] EXCEPT !.watch = w]]
  BY DEF WatchdogChecks, TypeOK
<1> DEFINE s == [socket[c] EXCEPT !.watch = w]
<1>4. HandshakeStep(c, s)
  BY <1>1 DEF HandshakeStep, Worked, Socket, InOrder
<1>5. /\ s.watch = w /\ s.peer = socket[c].peer
      /\ s.reader = socket[c].reader /\ s.st = socket[c].st
      /\ s.drop = socket[c].drop /\ s.cfg = socket[c].cfg
  BY <1>1 DEF Socket
<1> HIDE DEF s
<1>6. /\ Elsewhere'
      /\ socket'[c] = s
      /\ \A d \in Conns : d # c => socket'[d] = socket[d]
  BY <1>2, <1>3, <1>4, HandshakeKeeps DEF s
<1>7. TypeOK'
  BY <1>2, <1>6 DEF TypeOK, Elsewhere
<1>8. ConnectionIsCurrent' /\ NeverDeaf'
  BY <1>2, <1>3, <1>5, <1>6 DEF TypeOK, ConnectionIsCurrent, NeverDeaf
<1>9. QED
  BY <1>6, <1>7, <1>8 DEF Elsewhere

\* Setting the event of a socket changes nothing else of it.
LEMMA EventFacts ==
    ASSUME NEW s \in Socket, NEW b \in BOOLEAN
    PROVE  LET t == [s EXCEPT !.event = b] IN
           /\ t \in Socket
           /\ t.st = s.st /\ t.cfg = s.cfg /\ t.drop = s.drop
           /\ t.reader = s.reader /\ t.subscriber = s.subscriber
           /\ t.watch = s.watch /\ t.peer = s.peer
BY DEF Socket

\* What a step that only moves an event does to a socket.
OnlyEvent(d) ==
    /\ socket'[d].st = socket[d].st
    /\ socket'[d].cfg = socket[d].cfg
    /\ socket'[d].drop = socket[d].drop
    /\ socket'[d].reader = socket[d].reader
    /\ socket'[d].subscriber = socket[d].subscriber
    /\ socket'[d].watch = socket[d].watch
    /\ socket'[d].peer = socket[d].peer
    /\ socket[d].st = "unused" => socket'[d] = socket[d]

\* An event that is published, or read, changes nothing of the handshake.
LEMMA EventActs ==
    ASSUME Inv, Publish \/ \E c \in Conns : EventReceived(c)
    PROVE  Inv'
<1> USE DEF Inv
<1>1. /\ UNCHANGED <<config, stopped, generation, conn, isConnecting,
                     isConnected, isSubscribed, pinger, timer, delay, attempt,
                     troubles>>
      /\ news' \in 0..MaxNews
  BY RealtimeAssumption
     DEF Publish, EventReceived, flags, backoff, bounds, TypeOK
<1>2. unseen' \in BOOLEAN
  BY DEF Publish, EventReceived
<1>3. socket' \in [Conns -> Socket] /\ \A d \in Conns : OnlyEvent(d)
  <2>1. CASE Publish
    <3>1. socket' \in [Conns -> Socket]
      BY <2>1, EventFacts DEF Publish, TypeOK
    <3>2. ASSUME NEW d \in Conns PROVE OnlyEvent(d)
      <4> DEFINE t == [socket[d] EXCEPT !.event = TRUE]
      <4>1. socket[d] \in Socket /\ (socket[d].st = "unused" => socket[d].peer = "new")
        BY DEF TypeOK, HandshakeInOrder, InOrder, Unused
      <4>2. socket'[d] = IF socket[d].peer = "confirmed" THEN t ELSE socket[d]
        BY <2>1 DEF Publish
      <4>3. /\ t.st = socket[d].st /\ t.cfg = socket[d].cfg
            /\ t.drop = socket[d].drop /\ t.reader = socket[d].reader
            /\ t.subscriber = socket[d].subscriber
            /\ t.watch = socket[d].watch /\ t.peer = socket[d].peer
        BY <4>1, EventFacts
      <4> HIDE DEF t
      <4>4. QED
        BY <4>1, <4>2, <4>3 DEF OnlyEvent
    <3>3. QED
      BY <3>1, <3>2
  <2>2. ASSUME NEW c \in Conns, EventReceived(c)
        PROVE  socket' \in [Conns -> Socket] /\ \A d \in Conns : OnlyEvent(d)
    <3> DEFINE t == [socket[c] EXCEPT !.event = FALSE]
    <3>1. /\ socket[c].st = "open" /\ socket[c] \in Socket
          /\ socket' = [socket EXCEPT ![c] = t]
      BY <2>2 DEF EventReceived, Receives, TypeOK
    <3>2. /\ t \in Socket
          /\ t.st = socket[c].st /\ t.cfg = socket[c].cfg
          /\ t.drop = socket[c].drop /\ t.reader = socket[c].reader
          /\ t.subscriber = socket[c].subscriber
          /\ t.watch = socket[c].watch /\ t.peer = socket[c].peer
      BY <3>1, EventFacts
    <3> HIDE DEF t
    <3>3. /\ socket' \in [Conns -> Socket]
          /\ socket'[c] = t
          /\ \A d \in Conns : d # c => socket'[d] = socket[d]
      BY <3>1, <3>2, OneSocket
    <3>4. QED
      BY <3>1, <3>2, <3>3 DEF OnlyEvent
  <2>3. QED
    BY <2>1, <2>2
<1>4. TypeOK'
  BY <1>1, <1>2, <1>3 DEF TypeOK
<1>5. DialedIsOwned' /\ DialIsCurrent'
  BY <1>1, <1>3 DEF OnlyEvent, DialedIsOwned, Fresh, DialIsCurrent, Dialing
<1>6. HandshakeInOrder'
  BY <1>3 DEF OnlyEvent, HandshakeInOrder, InOrder
<1>7. NoLeakedSocket' /\ NeverStranded'
  BY <1>1, <1>3
     DEF OnlyEvent, NoLeakedSocket, Closing, NeverStranded, WillConnect
<1>8. ConnectionIsCurrent' /\ NeverDeaf'
  BY <1>1, <1>3 DEF OnlyEvent, TypeOK, ConnectionIsCurrent, NeverDeaf
<1>9. StoppedForGood' /\ TimerIsPast'
  BY <1>1 DEF StoppedForGood, TimerIsPast
<1>10. QED
  BY <1>4, <1>5, <1>6, <1>7, <1>8, <1>9

-----------------------------------------------------------------------------
(* The theorems *)

\* NewClient, and the goroutine that is to connect.
LEMMA InitInv == Init => Inv
<1> SUFFICES ASSUME Init PROVE Inv
  OBVIOUS
<1> USE RealtimeAssumption DEF Init
<1>1. Unused \in Socket /\ Unused.st = "unused" /\ InOrder(Unused)
  BY DEF Unused, Socket, InOrder
<1>2. TypeOK
  <2>1. attempt \in [Attempts -> Attempt]
    BY AttemptFacts
  <2>2. socket \in [Conns -> Socket]
    BY <1>1
  <2>3. /\ generation \in Nat /\ delay \in 0..MaxDelay
        /\ troubles \in 0..MaxTroubles /\ news \in 0..MaxNews
    OBVIOUS
  <2>4. QED
    BY <2>1, <2>2, <2>3 DEF TypeOK
<1>3. \A a \in Attempts : attempt[a].pc \in {"idle", "connect"} /\ attempt[a].gen = 0
  BY AttemptFacts
<1>4. DialedIsOwned /\ DialIsCurrent
  BY <1>3 DEF DialedIsOwned, DialIsCurrent, Dialing
<1>5. HandshakeInOrder /\ NoLeakedSocket
  BY <1>1 DEF HandshakeInOrder, NoLeakedSocket
<1>6. NeverStranded
  BY AttemptFacts DEF NeverStranded, WillConnect
<1>7. StoppedForGood /\ TimerIsPast /\ ConnectionIsCurrent /\ NeverDeaf
  BY DEF StoppedForGood, TimerIsPast, ConnectionIsCurrent, NeverDeaf
<1>8. QED
  BY <1>2, <1>4, <1>5, <1>6, <1>7 DEF Inv

\* Every step keeps the invariant.
LEMMA StepInv == Inv /\ [Next]_vars => Inv'
<1> SUFFICES ASSUME Inv, [Next]_vars PROVE Inv'
  OBVIOUS
<1>1. ASSUME NEW a \in Attempts, AttemptStep(a) PROVE Inv'
  BY <1>1, ConnectActs, DialSucceedsActs, ConnectedActs, TimerActs
     DEF AttemptStep
<1>2. ASSUME NEW a \in Attempts, TimerFires(a) PROVE Inv'
  BY <1>2, TimerActs
<1>3. ASSUME NEW c \in Conns, SocketStep(c) PROVE Inv'
  BY <1>3, CloseSocketActs, DropSchedulesActs, FailingActs, EstablishedActs,
     StartPingTickerActs, SubscriptionSucceededActs, EventActs, SubscriberActs
     DEF SocketStep
<1>4. CASE FailureStep
  BY <1>4, DialFailsActs, FailingActs, SubscriberActs, WatchdogChecksActs
     DEF FailureStep
<1>5. ASSUME NEW cfg \in Configs, UpdateConfig(cfg) PROVE Inv'
  BY <1>5, UpdateConfigActs
<1>6. CASE Disconnect
  BY <1>6, DisconnectActs
<1>7. CASE Publish
  BY <1>7, EventActs
<1>8. CASE UNCHANGED vars
  <2>1. /\ UNCHANGED <<config, stopped, generation, conn, pinger, attempt,
                       socket, unseen>>
        /\ UNCHANGED <<isConnecting, isConnected, isSubscribed, timer, delay,
                       troubles, news>>
    BY <1>8 DEF vars, flags, backoff, bounds
  <2>2. QED
    BY <2>1 DEF Inv, TypeOK, DialedIsOwned, Fresh, DialIsCurrent, Dialing,
       HandshakeInOrder, InOrder, StoppedForGood, TimerIsPast, NoLeakedSocket,
       Closing, ConnectionIsCurrent, NeverStranded, WillConnect, NeverDeaf
<1>9. QED
  BY <1>1, <1>2, <1>3, <1>4, <1>5, <1>6, <1>7, <1>8 DEF Next

\* The invariant holds throughout.
THEOREM RealtimeInvariant == Spec => []Inv
BY InitInv, StepInv, PTL DEF Spec

\* Every variable of the client keeps its type.
THEOREM RealtimeTypeCorrect == Spec => []TypeOK
BY RealtimeInvariant, PTL DEF Inv

\* No connection is leaked: whatever Connect, UpdateConfig, Disconnect and the
\* goroutines of a connection do to each other, a connection that is open has
\* someone who uses it, will look at it, or closes it.
THEOREM NoSocketIsLeaked == Spec => []NoLeakedSocket
BY RealtimeInvariant, PTL DEF Inv

\* The connection in use was dialed with the configuration in force and nobody
\* is closing it; the flags and the ticker speak of it.
THEOREM TheConnectionIsCurrent == Spec => []ConnectionIsCurrent
BY RealtimeInvariant, PTL DEF Inv

\* A client that is not stopped has a connection or something under way that
\* leads to one, and isConnecting belongs to a dial of this generation.
THEOREM TheClientIsNeverStranded == Spec => []NeverStranded
BY RealtimeInvariant, PTL DEF Inv

\* A connection that was greeted is subscribed or has a timeout running.
THEOREM TheConnectionIsNeverDeaf == Spec => []NeverDeaf
BY RealtimeInvariant, PTL DEF Inv

\* At most one dial is under way for the generation in force, although every
\* caller of Connect gives up the mutex to dial.
SingleDial ==
    \A a, b \in Attempts :
        /\ Dialing(a) /\ attempt[a].gen = generation
        /\ Dialing(b) /\ attempt[b].gen = generation
        => a = b

\* isConnecting and the generation together make Connect exclusive.
THEOREM OneDialAtATime == Spec => []SingleDial
<1>1. Inv => SingleDial
  BY DEF Inv, DialIsCurrent, SingleDial
<1>2. QED
  BY <1>1, RealtimeInvariant, PTL

\* A client that was stopped stays stopped and puts no connection to use, not
\* even one whose dial returns after Disconnect.
StopIsFinal == [][stopped => stopped' /\ conn' = None]_vars

\* Disconnect is final, whatever was under way when it was called.
THEOREM DisconnectIsFinal == Spec => StopIsFinal
<1>1. ASSUME Inv, Inv', [Next]_vars
      PROVE  [stopped => stopped' /\ conn' = None]_vars
  <2>1. CASE UNCHANGED vars
    BY <2>1
  <2>2. CASE Next
    <3>1. stopped => stopped'
      BY <2>2 DEF Next, AttemptStep, SocketStep, FailureStep, ConnectRefused,
         ConnectNotNeeded, ConnectDials, DialSucceeds, Connected,
         AttemptSchedules, TimerFires, TimerChecks, DialFails, UpdateConfig,
         Disconnect, CloseSocket, DropSchedules, ReaderEnds, ConnectionLost,
         ReaderCleanup, Established, StartPingTicker, SubscriptionSucceeded,
         EventReceived, SubscribeStarts, SubscribeSends, SubscribeFails,
         SubscriptionError, SubscribeRefused, WatchdogChecks, WatchdogFails,
         Publish
    <3>2. stopped' => conn' = None
      BY <1>1 DEF Inv, ConnectionIsCurrent
    <3>3. QED
      BY <3>1, <3>2
  <2>3. QED
    BY <1>1, <2>1, <2>2
<1>2. QED
  BY <1>1, RealtimeInvariant, PTL DEF Spec, StopIsFinal

===============================================================================
