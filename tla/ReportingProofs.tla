--------------------------- MODULE ReportingProofs ---------------------------
(***************************************************************************)
(* What Reporting promises, for any number of runs, events, chunks,        *)
(* enrollments, failures and restarts: what was journaled is replayed      *)
(* until the control plane has it, and no more than that is struck.        *)
(***************************************************************************)
EXTENDS Reporting, FiniteSetTheorems, WellFoundedInduction, TLAPS

-----------------------------------------------------------------------------
(* The inductive invariant: what holds however the service is started *)

\* The steps at which a reporter has a run at hand.
AtRun == Steps \ {"idle", "generation", "next", "unlink"}

Typed == TypeOK /\ \A l \in Loops : loop[l].step \in AtRun => loop[l].run \in Runs

\* The entry of a run in memory and the one on disk.
Entries(r) == {journal[r], disk[r]} \ {None}

\* A daemon that is down has nothing but its disk.
Quiet ==
    /\ ~up => /\ journal = disk /\ active = {} /\ beat = IdleBeat
              /\ \A l \in Loops : loop[l] = IdleLoop
    /\ setup \in {"stopped", "settled", "enrolling"} => ~up

\* A heartbeat that read the version in force has seen the gap.
GapTold ==
    /\ beat.step # "idle" => beat.version <= gap.memory.version
    /\ beat.step # "idle" /\ beat.version = gap.memory.version => beat.covers
    /\ beat.step = "answered" /\ beat.covers => ~untold
    /\ GapStaysMarked

\* What is in memory has been saved, and stays known once it was accepted.
Journaled ==
    \A r \in Runs :
        /\ disk[r] = None => journal[r] = None
        /\ disk[r] # None => r \in accepted

\* The files of the entries exist; what is about to be unlinked has no entry.
Files ==
    /\ \A r \in Runs : \A e \in Entries(r) : e.log => r \in logs
    /\ \A l \in Loops : \A r \in loop[l].unlink :
          disk[r] = None /\ r \in accepted

Basics == Typed /\ Quiet /\ GapTold /\ Journaled /\ Files

-----------------------------------------------------------------------------
(* The inductive invariant: what holds when a failed setup stays down *)

\* While the daemon may run, its enrollment is not a retired one.
Generations ==
    /\ up => setup = "none"
    /\ \A g \in retired : g <= generation /\ (setup = "none" => g < generation)

\* A run whose goroutine lives has an entry that says so.
Running == \A r \in active : Known(r) /\ journal[r].state = "running"

\* What is recorded of a log's upload has happened.
Uploaded(r, next, completed) ==
    /\ next <= LogChunks
    /\ \A n \in 0..LogChunks : n < next => n \in server.chunks[r]
    /\ completed => <<r, LogChunks>> \in server.complete

HasOutcome(e) == \E v \in EventSet(e) : v.kind \in Outcomes

\* Of an entry, in memory or on disk: only the current enrollment has
\* unfinished runs; a finished run has its outcome in its entry or with the
\* control plane; a result that counts as reported was.
Sound(r, e) ==
    /\ e.generation <= generation
    /\ e.state # "finished" => /\ e.generation = generation
                               /\ setup \notin {"settled", "enrolling"}
    /\ e.reported \/ e.log => e.state = "finished"
    /\ e.state = "finished" => HasOutcome(e) \/ OutcomesOf(r) # {}
    /\ Uploaded(r, e.next, e.completed)
    /\ setup = "none" /\ r \notin Scheduled /\ e.reported /\ e.generation = generation
          => r \in server.results

AllSound == \A r \in Runs : \A e \in Entries(r) : Sound(r, e)

\* All the control plane needs of a run.
AllReported(r) ==
    /\ OutcomesOf(r) # {}
    /\ disk[r].log => <<r, LogChunks>> \in server.complete
    /\ disk[r].generation = generation /\ r \notin Scheduled => r \in server.results

\* What the disk still has and memory has not was accepted, and an entry that
\* is gone from memory and not yet from disk may go.
Paired(r) ==
    /\ journal[r] # None => /\ journal[r].generation = disk[r].generation
                            /\ disk[r].log => journal[r].log
    /\ r \notin purged => \A v \in EventSet(disk[r]) : v.kind \in TerminalKinds =>
            \/ journal[r] # None /\ v \in EventSet(journal[r])
            \/ <<r, v>> \in server.events
    /\ r \notin purged /\ journal[r] = None => AllReported(r)

AllPaired == \A r \in Runs : disk[r] # None => Paired(r)

\* What the control plane has of the logs.
ServerLogs ==
    /\ \A r \in Runs : \A n \in server.chunks[r] : n < LogChunks
    /\ LogWhole

\* The runs a reporter is about to see, or sees.
RunsOf(s) == s.todo \cup ({s.run} \ {None})

\* The two reporters share no entry.
Apart(l, s) ==
    /\ RunsOf(s) \subseteq accepted
    /\ \A r \in RunsOf(s) : Known(r) =>
          IF l = "live" THEN journal[r].generation = generation
                        ELSE journal[r].generation < generation
    /\ \A g \in s.generations : g < generation

\* t goes on where s ends.
Prefixed(s, t) == Len(s) <= Len(t) /\ \A i \in 1..Len(s) : t[i] = s[i]

\* What a reporter is about to strike are still the first events of the entry.
Pending(s) ==
    s.step \in {"events", "strike"} /\ Known(s.run)
        => Prefixed(s.batch, journal[s.run].events)

\* It is accepted, or kept, or may go.
Sent(s) ==
    s.step = "strike" => \A i \in 1..Len(s.batch) :
       \/ <<s.run, s.batch[i]>> \in server.events
       \/ \E k \in 1..Len(s.kept) : s.kept[k] = s.batch[i]
       \/ s.batch[i].kind \notin RetainedKinds

\* Where a reporter is with a log and a result, and what the entry says of it.
Uploading(l, s) ==
    /\ s.step \in AtRun => Uploaded(s.run, s.next, s.completed)
    /\ s.step \in AtRun /\ l = "live" /\ Known(s.run)
          => journal[s.run].next = s.next
    /\ s.step \in {"chunk", "advance"} => s.next < LogChunks
    /\ s.step = "advance" => s.next \in server.chunks[s.run]
    /\ s.step \in {"complete", "completed"} => s.next = LogChunks
    /\ s.step = "completed" => <<s.run, LogChunks>> \in server.complete
    /\ s.step = "reported" => s.run \in server.results
    /\ s.step \in {"result", "reported"} => s.owes
    /\ s.step \in AtRun /\ s.owes /\ Known(s.run)
          => journal[s.run].state = "finished"

AtHand(l, s) == Apart(l, s) /\ Pending(s) /\ Sent(s) /\ Uploading(l, s)

Reporters == \A l \in Loops : AtHand(l, loop[l])

Inv ==
    /\ Basics /\ Generations /\ Running /\ AllSound /\ AllPaired
    /\ ServerLogs /\ Reporters

-----------------------------------------------------------------------------
(* Facts about the operators *)

\* A set of numbers that is not empty has a first one, and First finds it.
LEMMA FirstFacts ==
    ASSUME NEW S, S \subseteq Nat, S # {}
    PROVE  First(S) \in S /\ \A n \in S : First(S) <= n
<1>1. PICK m \in S : \A n \in S : ~(<<n, m>> \in OpToRel(<, Nat))
  BY NatLessThanWellFounded, WFMin
<1>2. \A n \in S : ~(n < m)
  BY <1>1 DEF OpToRel
<1>3. \A n \in S : m <= n
  BY <1>2
<1>4. QED
  BY <1>3 DEF First

\* There are finitely many places up to n.
LEMMA PlacesFinite ==
    ASSUME NEW n \in Nat, NEW places, \A x \in places : x \in 1..n
    PROVE  IsFiniteSet(places) /\ Cardinality(places) \in Nat
<1> DEFINE all == 1..n
<1>1. IsFiniteSet(all)
  BY FS_Interval
<1>2. places \in SUBSET all
  OBVIOUS
<1> HIDE DEF all
<1>3. QED
  BY <1>1, <1>2, FS_Subset, FS_CardinalityType

\* Among some places up to n, there is one up to which there are k, as long as
\* there are k.
LEMMA PlaceExists ==
    ASSUME NEW n \in Nat, NEW places, \A x \in places : x \in 1..n,
           NEW k \in 1..Cardinality(places)
    PROVE  \E i \in places : Cardinality({j \in places : j <= i}) = k
<1> DEFINE Upto(i) == {j \in places : j <= i}
           S == {i \in Nat : Cardinality(Upto(i)) >= k}
<1>1. IsFiniteSet(places) /\ Cardinality(places) \in Nat
  BY PlacesFinite
<1>2. \A i \in Nat : IsFiniteSet(Upto(i)) /\ Cardinality(Upto(i)) \in Nat
  <2> SUFFICES ASSUME NEW i \in Nat
               PROVE  IsFiniteSet(Upto(i)) /\ Cardinality(Upto(i)) \in Nat
    OBVIOUS
  <2>1. Upto(i) \in SUBSET places
    OBVIOUS
  <2>2. QED
    BY <1>1, <2>1, FS_Subset, FS_CardinalityType
<1>3. n \in S
  <2>1. Upto(n) = places
    OBVIOUS
  <2>2. QED
    BY <1>1, <2>1
<1>4. PICK m \in S : \A i \in S : m <= i
  <2> HIDE DEF S
  <2>1. S \subseteq Nat
    BY DEF S
  <2>2. QED
    BY <1>3, <2>1, FirstFacts
<1>5. m # 0
  <2>1. Upto(0) = {}
    OBVIOUS
  <2>2. Cardinality(Upto(0)) = 0
    BY <2>1, FS_EmptySet
  <2>3. QED
    BY <2>2
<1>6. m \in Nat /\ m - 1 \in Nat /\ Cardinality(Upto(m - 1)) < k
  BY <1>2, <1>4, <1>5
<1>7. m \in places /\ Upto(m) = Upto(m - 1) \cup {m}
  <2>1. CASE m \in places
    <3>1. \A x \in places : x \in Nat /\ (x <= m <=> x <= m - 1 \/ x = m)
      BY <1>6
    <3>2. m <= m
      BY <1>6
    <3>3. QED
      BY <2>1, <3>1, <3>2, Zenon
  <2>2. CASE m \notin places
    <3>1. Upto(m) = Upto(m - 1)
      BY <2>2, <1>6
    <3>2. QED
      BY <3>1, <1>6, <1>2
  <2>3. QED
    BY <2>1, <2>2
<1>8. Cardinality(Upto(m)) = Cardinality(Upto(m - 1)) + 1
  <2>1. m \notin Upto(m - 1)
    BY <1>6
  <2> HIDE DEF Upto
  <2>2. QED
    BY <2>1, <1>2, <1>6, <1>7, FS_AddElement
<1>9. Cardinality(Upto(m)) = k
  <2>1. Cardinality(Upto(m)) >= k
    BY <1>4
  <2>2. Cardinality(Upto(m)) \in Nat /\ Cardinality(Upto(m - 1)) \in Nat
    BY <1>2, <1>6
  <2>3. k \in Nat
    BY <1>1
  <2> HIDE DEF Upto
  <2>4. QED
    BY <1>6, <1>8, <2>1, <2>2, <2>3
<1>10. QED
  BY <1>7, <1>9

\* The number of places up to one.
Rank(places, i) == Cardinality({x \in places : x <= i})

\* Two of them have a different number of places up to them.
LEMMA PlaceUnique ==
    ASSUME NEW n \in Nat, NEW places, \A x \in places : x \in 1..n,
           NEW i \in places, NEW j \in places,
           Rank(places, i) = Rank(places, j)
    PROVE  i = j
<1> DEFINE Upto(m) == {x \in places : x <= m}
<1>1. IsFiniteSet(places)
  BY PlacesFinite
<1>2. \A m \in Nat : IsFiniteSet(Upto(m))
  <2> SUFFICES ASSUME NEW m \in Nat PROVE IsFiniteSet(Upto(m))
    OBVIOUS
  <2>1. Upto(m) \in SUBSET places
    OBVIOUS
  <2>2. QED
    BY <1>1, <2>1, FS_Subset
<1>3. ASSUME NEW a \in places, NEW b \in places, a < b,
             Cardinality(Upto(a)) = Cardinality(Upto(b))
      PROVE  FALSE
  <2>1. Upto(a) \in SUBSET Upto(b) /\ b \in Upto(b) /\ b \notin Upto(a)
    BY <1>3
  <2>2. IsFiniteSet(Upto(b))
    BY <1>2
  <2> HIDE DEF Upto
  <2>3. Upto(a) = Upto(b)
    BY <1>3, <2>1, <2>2, FS_Subset
  <2>4. QED
    BY <2>1, <2>3
<1>4. i \in Nat /\ j \in Nat
  OBVIOUS
<1>5. ~(i < j) /\ ~(j < i)
  BY <1>3 DEF Rank
<1>6. QED
  BY <1>4, <1>5

\* What is selected are the events to keep, and all of them.
LEMMA SelectedFacts ==
    ASSUME NEW events \in Seq(Event), NEW keep
    PROVE  LET s == Selected(events, keep)
           IN  /\ s \in Seq(Event)
               /\ \A i \in 1..Len(events) : events[i] \in keep =>
                     \E k \in 1..Len(s) : s[k] = events[i]
               /\ \A k \in 1..Len(s) : s[k] \in keep /\
                     \E i \in 1..Len(events) : s[k] = events[i]
<1> DEFINE places == {i \in 1..Len(events) : events[i] \in keep}
           Place(k) == CHOOSE i \in places : Cardinality({j \in places : j <= i}) = k
           s == Selected(events, keep)
<1>1. Len(events) \in Nat /\ \A x \in places : x \in 1..Len(events)
  OBVIOUS
<1>2. s = [k \in 1..Cardinality(places) |-> events[Place(k)]]
  BY DEF Selected
<1>3. IsFiniteSet(places) /\ Cardinality(places) \in Nat
  BY <1>1, PlacesFinite
<1>4. ASSUME NEW k \in 1..Cardinality(places)
      PROVE  /\ Place(k) \in places
             /\ Cardinality({j \in places : j <= Place(k)}) = k
  <2> HIDE DEF places
  <2>1. \E i \in places : Cardinality({j \in places : j <= i}) = k
    <3> DEFINE n == Len(events)
    <3>1. n \in Nat /\ \A x \in places : x \in 1..n
      BY <1>1
    <3> HIDE DEF n
    <3>2. QED
      BY <1>4, <3>1, PlaceExists
  <2>2. QED
    BY <2>1
<1>5. s \in Seq(Event) /\ Len(s) = Cardinality(places)
  <2>1. \A k \in 1..Cardinality(places) : events[Place(k)] \in Event
    <3> SUFFICES ASSUME NEW k \in 1..Cardinality(places)
                 PROVE  events[Place(k)] \in Event
      OBVIOUS
    <3>1. Place(k) \in 1..Len(events)
      BY <1>4
    <3> HIDE DEF Place
    <3>2. QED
      BY <3>1
  <2> HIDE DEF places, Place
  <2>2. QED
    BY <1>2, <1>3, <2>1
<1>6. ASSUME NEW k \in 1..Len(s)
      PROVE  s[k] \in keep /\ \E i \in 1..Len(events) : s[k] = events[i]
  <2>1. k \in 1..Cardinality(places) /\ s[k] = events[Place(k)]
    BY <1>2, <1>5
  <2>2. Place(k) \in places
    BY <1>4, <2>1
  <2>3. QED
    BY <2>1, <2>2
<1>7. ASSUME NEW i \in 1..Len(events), events[i] \in keep
      PROVE  \E k \in 1..Len(s) : s[k] = events[i]
  <2> DEFINE k == Cardinality({j \in places : j <= i})
  <2>1. i \in places
    BY <1>7
  <2>2. k \in 1..Cardinality(places)
    <3> DEFINE U == {j \in places : j <= i}
    <3>1. U \in SUBSET places /\ i \in U
      BY <2>1
    <3> HIDE DEF U
    <3>2. IsFiniteSet(U) /\ Cardinality(U) <= Cardinality(places)
      BY <1>3, <3>1, FS_Subset
    <3>3. Cardinality(U) \in Nat /\ Cardinality(U) # 0
      BY <3>1, <3>2, FS_CardinalityType, FS_EmptySet
    <3>4. QED
      BY <1>3, <3>2, <3>3 DEF U
  <2>3. Place(k) = i
    <3>1. Place(k) \in places /\ Cardinality({j \in places : j <= Place(k)}) = k
      BY <1>4, <2>2
    <3> DEFINE p == Place(k)
               n == Len(events)
    <3>2. /\ n \in Nat /\ \A x \in places : x \in 1..n
          /\ p \in places /\ i \in places
          /\ Rank(places, p) = Rank(places, i)
      BY <1>1, <2>1, <3>1 DEF Rank
    <3> HIDE DEF places, p, n
    <3>3. p = i
      BY <3>2, PlaceUnique
    <3>4. QED
      BY <3>3 DEF p
  <2>4. s[k] = events[i]
    BY <1>2, <2>2, <2>3
  <2> HIDE DEF k
  <2>5. QED
    BY <1>5, <2>2, <2>4
<1>8. QED
  BY <1>5, <1>6, <1>7

\* An entry that differs from e in the events behind those of e.
Extends(e, f) ==
    /\ f \in Entry
    /\ f.state = e.state /\ f.generation = e.generation
    /\ f.reported = e.reported /\ f.log = e.log /\ f.next = e.next
    /\ f.completed = e.completed /\ f.pending = e.pending
    /\ Prefixed(e.events, f.events)

\* A longer sequence has all the events of the shorter one.
LEMMA PrefixedEvents ==
    ASSUME NEW e \in Entry, NEW f \in Entry, Prefixed(e.events, f.events)
    PROVE  EventSet(e) \subseteq EventSet(f)
<1>1. Len(e.events) \in Nat /\ Len(f.events) \in Nat
  BY DEF Entry
<1>2. \A i \in 1..Len(e.events) : i \in 1..Len(f.events)
  BY <1>1 DEF Prefixed
<1>3. QED
  BY <1>2 DEF Prefixed, EventSet

\* An entry with other events.
LEMMA WithEvents ==
    ASSUME NEW e \in Entry, NEW n \in Nat, NEW events \in Seq(Event)
    PROVE  LET f == [e EXCEPT !.sequence = n, !.events = events]
           IN  /\ f \in Entry /\ f.events = events
               /\ f.state = e.state /\ f.generation = e.generation
               /\ f.reported = e.reported /\ f.log = e.log /\ f.next = e.next
               /\ f.completed = e.completed /\ f.pending = e.pending
BY DEF Entry

\* One event more, of the given kind.
LEMMA Append1Facts ==
    ASSUME NEW e \in Entry, NEW kind \in Kinds
    PROVE  /\ Extends(e, Append1(e, kind))
           /\ \E v \in EventSet(Append1(e, kind)) : v.kind = kind
<1> DEFINE v == [sequence |-> e.sequence + 1, kind |-> kind]
           f == Append1(e, kind)
           n == Len(e.events)
<1>1. e.sequence \in Nat /\ e.events \in Seq(Event) /\ n \in Nat
  BY DEF Entry
<1>2. v \in Event /\ v.kind = kind
  BY <1>1 DEF Event
<1> DEFINE events == Append(e.events, v)
<1>3. /\ events \in Seq(Event) /\ Len(events) = n + 1
      /\ \A i \in 1..n : events[i] = e.events[i]
      /\ events[n + 1] = v
  <2> HIDE DEF v
  <2>1. QED
    BY <1>1, <1>2
<1> DEFINE m == e.sequence + 1
<1>4. m \in Nat /\ f = [e EXCEPT !.sequence = m, !.events = events]
  BY <1>1 DEF Append1
<1> HIDE DEF m
<1> HIDE DEF v, events, f
<1>5. f \in Entry /\ f.events = events
  BY <1>1, <1>3, <1>4, WithEvents
<1>6. Extends(e, f)
  <2>1. /\ f.state = e.state /\ f.generation = e.generation
        /\ f.reported = e.reported /\ f.log = e.log /\ f.next = e.next
        /\ f.completed = e.completed /\ f.pending = e.pending
    BY <1>4 DEF Entry
  <2>2. Prefixed(e.events, f.events)
    BY <1>1, <1>3, <1>5 DEF Prefixed
  <2>3. QED
    BY <1>5, <2>1, <2>2, Zenon DEF Extends
<1>7. v \in EventSet(f)
  <2>1. n + 1 \in 1..Len(f.events)
    BY <1>1, <1>3, <1>5
  <2>2. QED
    BY <1>3, <1>5, <2>1 DEF EventSet
<1>8. QED
  BY <1>2, <1>6, <1>7 DEF f

\* Any number of inventory events more.
LEMMA AppendInventoryFacts ==
    ASSUME NEW e \in Entry, NEW chunks \in Nat
    PROVE  Extends(e, AppendInventory(e, chunks))
<1> DEFINE new == [i \in 1..chunks |-> [sequence |-> e.sequence + i,
                                        kind |-> "inventory"]]
           f == AppendInventory(e, chunks)
           n == Len(e.events)
<1>1. e.sequence \in Nat /\ e.events \in Seq(Event) /\ n \in Nat
  BY DEF Entry
<1>2. new \in Seq(Event)
  <2>1. \A i \in 1..chunks : [sequence |-> e.sequence + i, kind |-> "inventory"] \in Event
    BY <1>1 DEF Event, Kinds
  <2>2. QED
    BY <2>1
<1> DEFINE events == e.events \o new
<1>3. /\ events \in Seq(Event) /\ Len(events) >= n
      /\ \A i \in 1..n : events[i] = e.events[i]
  <2> HIDE DEF new
  <2>1. QED
    BY <1>1, <1>2
<1> DEFINE m == e.sequence + chunks
<1>4. m \in Nat /\ f = [e EXCEPT !.sequence = m, !.events = events]
  BY <1>1 DEF AppendInventory
<1> HIDE DEF m
<1> HIDE DEF events, f
<1>5. f \in Entry /\ f.events = events
  BY <1>1, <1>3, <1>4, WithEvents
<1>6. Extends(e, f)
  <2>1. /\ f.state = e.state /\ f.generation = e.generation
        /\ f.reported = e.reported /\ f.log = e.log /\ f.next = e.next
        /\ f.completed = e.completed /\ f.pending = e.pending
    BY <1>4 DEF Entry
  <2>2. Prefixed(e.events, f.events)
    BY <1>1, <1>3, <1>5 DEF Prefixed
  <2>3. QED
    BY <1>5, <2>1, <2>2, Zenon DEF Extends
<1>7. QED
  BY <1>6 DEF f

\* What a run or a copy may do to the entry of r.
Grows(r, e, f) ==
    /\ f \in Entry
    /\ f.generation = e.generation /\ f.next = e.next
    /\ f.completed => e.completed
    /\ Prefixed(e.events, f.events)
    /\ e.log => f.log
    /\ f.log => e.log \/ f.state = "finished"
    /\ e.state = "finished" => f.state = "finished"
    /\ f.state = "finished" => e.state = "finished" \/ HasOutcome(f)
    /\ f.reported => e.reported \/ (f.state = "finished" /\ r \in Scheduled)

\* A change of the fields followed by more events.
LEMMA ExtendsGrows ==
    ASSUME NEW r \in Runs, NEW e \in Entry, NEW g \in Entry, NEW f, Extends(g, f),
           g.events = e.events, g.generation = e.generation, g.next = e.next,
           g.completed => e.completed, e.log => g.log,
           g.log => e.log \/ g.state = "finished",
           e.state = "finished" => g.state = "finished",
           g.state = "finished" => e.state = "finished" \/ HasOutcome(f),
           g.reported => e.reported \/ (g.state = "finished" /\ r \in Scheduled)
    PROVE  Grows(r, e, f)
BY DEF Extends, Grows

LEMMA ExtendsTransitive ==
    ASSUME NEW e \in Entry, NEW f \in Entry, NEW g, Extends(e, f), Extends(f, g)
    PROVE  Extends(e, g)
<1>1. Len(e.events) \in Nat /\ Len(f.events) \in Nat
  BY DEF Entry
<1>2. Prefixed(e.events, g.events)
  <2>1. \A i \in 1..Len(e.events) : i \in 1..Len(f.events)
    BY <1>1 DEF Extends, Prefixed
  <2>2. Len(e.events) <= Len(g.events)
    BY <1>1 DEF Extends, Prefixed, Entry
  <2>3. QED
    BY <2>1, <2>2 DEF Extends, Prefixed
<1>3. QED
  BY <1>2, Zenon DEF Extends

\* An event more, and possibly inventory before it.
LEMMA WithOutcome ==
    ASSUME NEW e \in Entry, NEW chunks \in Nat, NEW kind \in Kinds
    PROVE  LET f == Append1(AppendInventory(e, chunks), kind)
           IN  /\ Extends(e, f)
               /\ kind \in Outcomes => HasOutcome(f)
<1> DEFINE g == AppendInventory(e, chunks)
           f == Append1(g, kind)
<1>1. Extends(e, g)
  BY AppendInventoryFacts
<1>2. g \in Entry
  BY <1>1 DEF Extends
<1> HIDE DEF g
<1>3. Extends(g, f) /\ \E v \in EventSet(f) : v.kind = kind
  BY <1>2, Append1Facts
<1>4. Extends(e, f)
  BY <1>1, <1>2, <1>3, ExtendsTransitive
<1>5. QED
  BY <1>3, <1>4 DEF HasOutcome, g

\* The entries the runs leave.
LEMMA StartedEntry ==
    ASSUME NEW r \in Runs, NEW e \in Entry, e.state = "received"
    PROVE  LET f == Append1([e EXCEPT !.state = "running"], "progress")
           IN  Grows(r, e, f) /\ f.state = "running" /\ f.log = e.log
<1> DEFINE g == [e EXCEPT !.state = "running"]
           f == Append1(g, "progress")
<1>1. /\ g \in Entry /\ g.state = "running" /\ g.events = e.events
      /\ g.generation = e.generation /\ g.next = e.next
      /\ g.completed = e.completed /\ g.log = e.log /\ g.reported = e.reported
  BY DEF Entry
<1> HIDE DEF g
<1>2. Extends(g, f)
  BY <1>1, Append1Facts DEF Kinds
<1>3. f.state = "running" /\ f.log = g.log
  BY <1>1, <1>2 DEF Extends
<1>4. Grows(r, e, f)
  BY <1>1, <1>2, ExtendsGrows
<1>5. QED
  BY <1>1, <1>3, <1>4 DEF g

LEMMA MoreProgress ==
    ASSUME NEW r \in Runs, NEW e \in Entry, NEW kind \in Kinds
    PROVE  LET f == Append1(e, kind)
           IN  Grows(r, e, f) /\ f.state = e.state /\ f.log = e.log
<1> DEFINE f == Append1(e, kind)
<1>1. Extends(e, f)
  BY Append1Facts
<1>2. f.state = e.state /\ f.log = e.log
  BY <1>1 DEF Extends
<1>3. Grows(r, e, f)
  BY <1>1, ExtendsGrows
<1>4. QED
  BY <1>2, <1>3

LEMMA CancelledEntry ==
    ASSUME NEW r \in Runs, NEW e \in Entry, e.state = "received"
    PROVE  LET f == Append1([e EXCEPT !.state = "finished",
                                      !.reported = r \in Scheduled], "cancelled")
           IN  Grows(r, e, f) /\ f.log = e.log
<1> DEFINE b == r \in Scheduled
           g == [e EXCEPT !.state = "finished", !.reported = b]
           f == Append1(g, "cancelled")
<1>1. /\ g \in Entry /\ g.state = "finished" /\ g.events = e.events
      /\ g.generation = e.generation /\ g.next = e.next
      /\ g.completed = e.completed /\ g.log = e.log
      /\ g.reported = b
  <2>1. b \in BOOLEAN
    OBVIOUS
  <2> HIDE DEF b
  <2>2. QED
    BY <2>1 DEF Entry
<1> HIDE DEF g
<1>2. Extends(g, f) /\ HasOutcome(f)
  BY <1>1, Append1Facts DEF Kinds, Outcomes, HasOutcome
<1>3. f.log = g.log
  BY <1>2 DEF Extends
<1>4. Grows(r, e, f)
  BY <1>1, <1>2, ExtendsGrows
<1>5. QED
  BY <1>1, <1>3, <1>4 DEF g

LEMMA ReconciledEntry ==
    ASSUME NEW r \in Runs, NEW e \in Entry, NEW chunks \in Nat,
           NEW kind \in {"complete", "unresolved"}
    PROVE  LET f == Append1(AppendInventory(
                      [e EXCEPT !.state = "finished",
                                !.reported = r \in Scheduled], chunks), kind)
           IN  Grows(r, e, f) /\ f.log = e.log
<1> DEFINE b == r \in Scheduled
           g == [e EXCEPT !.state = "finished", !.reported = b]
           f == Append1(AppendInventory(g, chunks), kind)
<1>1. /\ g \in Entry /\ g.state = "finished" /\ g.events = e.events
      /\ g.generation = e.generation /\ g.next = e.next
      /\ g.completed = e.completed /\ g.log = e.log
      /\ g.reported = b
  <2>1. b \in BOOLEAN
    OBVIOUS
  <2> HIDE DEF b
  <2>2. QED
    BY <2>1 DEF Entry
<1> HIDE DEF g
<1>2. Extends(g, f) /\ HasOutcome(f)
  BY <1>1, WithOutcome DEF Kinds, Outcomes
<1>3. f.log = g.log
  BY <1>2 DEF Extends
<1>4. Grows(r, e, f)
  BY <1>1, <1>2, ExtendsGrows
<1>5. QED
  BY <1>1, <1>3, <1>4 DEF g

LEMMA FinishedEntry ==
    ASSUME NEW r \in Runs, NEW e \in Entry, NEW logged \in BOOLEAN
    PROVE  /\ Finished(e, r, logged) \in Entry
           /\ Finished(e, r, logged).log = logged
           /\ ~e.log => Grows(r, e, Finished(e, r, logged))
<1> DEFINE b == r \in Scheduled
           p == r \in Replicated
           g == [e EXCEPT !.state = "finished", !.reported = b,
                          !.pending = p, !.log = logged]
           done == Append1(AppendInventory(g, Inventory[r]), "complete")
           f == Append1(done, "gap")
<1>1. /\ g \in Entry /\ g.state = "finished" /\ g.events = e.events
      /\ g.generation = e.generation /\ g.next = e.next
      /\ g.completed = e.completed /\ g.log = logged
      /\ g.reported = b
  <2>1. b \in BOOLEAN /\ p \in BOOLEAN
    OBVIOUS
  <2> HIDE DEF b, p
  <2>2. QED
    BY <2>1 DEF Entry
<1>2. Finished(e, r, logged) = IF logged THEN done ELSE f
  BY DEF Finished
<1> HIDE DEF g
<1>3. Extends(g, done) /\ HasOutcome(done)
  BY <1>1, WithOutcome, SizeAssumption DEF Kinds, Outcomes
<1>4. done \in Entry
  BY <1>3 DEF Extends
<1> HIDE DEF done
<1>5. Extends(done, f)
  BY <1>4, Append1Facts DEF Kinds
<1>6. f \in Entry /\ Prefixed(done.events, f.events)
  BY <1>5 DEF Extends
<1>7. Extends(g, f)
  BY <1>1, <1>3, <1>4, <1>5, ExtendsTransitive
<1>8. HasOutcome(f)
  BY <1>3, <1>4, <1>6, PrefixedEvents DEF HasOutcome
<1>9. ~e.log => Grows(r, e, done) /\ Grows(r, e, f)
  BY <1>1, <1>3, <1>7, <1>8, ExtendsGrows
<1>10. done.log = logged /\ f.log = logged
  BY <1>1, <1>3, <1>7 DEF Extends
<1>11. QED
  BY <1>2, <1>4, <1>6, <1>9, <1>10

LEMMA CopiedEntry ==
    ASSUME NEW r \in Runs, NEW e \in Entry, NEW complete \in BOOLEAN
    PROVE  LET f == Append1([e EXCEPT !.pending = ~complete], "replication")
           IN  Grows(r, e, f) /\ f.state = e.state /\ f.log = e.log
<1> DEFINE g == [e EXCEPT !.pending = ~complete]
           f == Append1(g, "replication")
<1>1. /\ g \in Entry /\ g.state = e.state /\ g.events = e.events
      /\ g.generation = e.generation /\ g.next = e.next
      /\ g.completed = e.completed /\ g.log = e.log /\ g.reported = e.reported
  BY DEF Entry
<1> HIDE DEF g
<1>2. Extends(g, f)
  BY <1>1, Append1Facts DEF Kinds
<1>3. f.state = g.state /\ f.log = g.log
  BY <1>2 DEF Extends
<1>4. Grows(r, e, f)
  BY <1>1, <1>2, ExtendsGrows
<1>5. QED
  BY <1>1, <1>3, <1>4 DEF g

-----------------------------------------------------------------------------
(* The types *)

Journals == [Runs -> Entry \cup {None}]

\* What a step that saves the journal may leave.
Saved == disk' = journal' \/ disk' = disk

LEMMA SaveTypes ==
    ASSUME TypeOK, NEW j \in Journals, NEW kind,
           SaveJournal(j) \/ SaveFails(kind, j)
    PROVE  /\ journal' = j /\ Saved
           /\ journal' \in Journals /\ disk' \in Journals /\ saveFailures' \in Nat
BY DEF TypeOK, Journals, SaveJournal, SaveFails, Saved

\* The other reporter is left alone.
LEMMA GotoFacts ==
    ASSUME TypeOK, NEW l \in Loops, NEW s \in Loop, Goto(l, s)
    PROVE  /\ loop' \in [Loops -> Loop] /\ loop'[l] = s
           /\ \A m \in Loops : m # l => loop'[m] = loop[m]
BY DEF TypeOK, Goto

\* t is s but for the step.
SameRun(s, t) ==
    /\ t \in Loop
    /\ t.generations = s.generations /\ t.todo = s.todo /\ t.run = s.run
    /\ t.batch = s.batch /\ t.log = s.log /\ t.completed = s.completed
    /\ t.next = s.next /\ t.owes = s.owes /\ t.kept = s.kept
    /\ t.unlink = s.unlink

LEMMA StepFacts ==
    ASSUME NEW s \in Loop, NEW step \in Steps
    PROVE  LET t == [s EXCEPT !.step = step]
           IN  SameRun(s, t) /\ t.step = step
BY DEF Loop, SameRun

LEMMA IdleFacts ==
    /\ IdleLoop \in Loop /\ IdleLoop.step = "idle" /\ IdleLoop.run = None
    /\ IdleLoop.todo = {} /\ IdleLoop.generations = {} /\ IdleLoop.unlink = {}
    /\ "idle" \notin AtRun /\ "next" \notin AtRun /\ "generation" \notin AtRun
    /\ "unlink" \notin AtRun
BY DEF IdleLoop, Loop, Steps, AtRun, Event

\* A reporter between two runs.
Between(l, t) ==
    /\ t \in Loop /\ t.step \in {"idle", "next"} /\ t.run = None /\ t.unlink = {}
    /\ t.todo \subseteq loop[l].todo /\ t.generations \subseteq loop[l].generations

LEMMA NextFacts ==
    ASSUME TypeOK, NEW l \in Loops
    PROVE  Between(l, AtNext(l)) /\ Between(l, AfterError(l)) /\ Between(l, IdleLoop)
<1>1. Between(l, IdleLoop)
  BY IdleFacts DEF Between
<1>2. Between(l, AtNext(l))
  <2>1. loop[l].generations \in SUBSET Nat /\ loop[l].todo \in SUBSET Runs
    BY DEF TypeOK, Loop
  <2>2. AtNext(l) = [IdleLoop EXCEPT !.step = "next", !.todo = loop[l].todo,
                                     !.generations = loop[l].generations]
    BY DEF AtNext, IdleLoop
  <2>3. QED
    BY <2>1, <2>2, IdleFacts DEF Loop, Steps, Between
<1>3. QED
  BY <1>1, <1>2 DEF AfterError

\* A reporter that has done with the events of its run.
LEMMA AfterLogFacts ==
    ASSUME NEW s \in Loop
    PROVE  /\ SameRun(s, AfterLog(s)) /\ AfterLog(s).step \in {"result", "remove"}
           /\ AfterLog(s).step = "result" => s.owes
<1> DEFINE step == IF s.owes THEN "result" ELSE "remove"
<1>1. step \in Steps /\ step \in {"result", "remove"} /\ (step = "result" => s.owes)
  BY DEF Steps
<1>2. AfterLog(s) = [s EXCEPT !.step = step]
  BY DEF AfterLog
<1> HIDE DEF step
<1>3. QED
  BY <1>1, <1>2, StepFacts

LEMMA AfterEventsFacts ==
    ASSUME TypeOK, NEW l \in Loops, NEW s \in Loop
    PROVE  LET t == AfterEvents(l, s)
           IN  \/ Between(l, t)
               \/ /\ SameRun(s, t)
                  /\ t.step \in {"result", "remove", "chunk", "complete"}
                  /\ t.step = "chunk" => s.next < LogChunks
                  /\ t.step = "complete" => ~(s.next < LogChunks)
                  /\ t.step = "result" => s.owes
<1>1. CASE ~s.log \/ s.completed
  BY <1>1, AfterLogFacts DEF AfterEvents
<1>2. CASE ~(~s.log \/ s.completed) /\ s.run \notin logs
  BY <1>2, NextFacts DEF AfterEvents
<1>3. CASE ~(~s.log \/ s.completed) /\ s.run \in logs
  <2> DEFINE step == IF s.next < LogChunks THEN "chunk" ELSE "complete"
  <2>1. /\ step \in Steps /\ step \in {"chunk", "complete"}
        /\ step = "chunk" <=> s.next < LogChunks
    BY DEF Steps
  <2>2. AfterEvents(l, s) = [s EXCEPT !.step = step]
    BY <1>3 DEF AfterEvents
  <2> HIDE DEF step
  <2>3. QED
    BY <2>1, <2>2, StepFacts
<1>4. QED
  BY <1>1, <1>2, <1>3

LEMMA CopiedFacts ==
    ASSUME TypeOK, NEW l \in Loops, NEW r \in Runs, Known(r)
    PROVE  LET t == Copied(l, r)
               e == journal[r]
           IN  /\ e \in Entry
               /\ t \in Loop /\ t.step = "events" /\ t.run = r
               /\ t.generations = loop[l].generations
               /\ t.todo = loop[l].todo \ {r} /\ t.unlink = {}
               /\ Prefixed(t.batch, e.events)
               /\ t.log = e.log /\ t.completed = e.completed /\ t.next = e.next
               /\ t.owes => e.state = "finished"
<1> DEFINE e == journal[r]
           size == IF Len(e.events) < BatchSize THEN Len(e.events) ELSE BatchSize
           batch == SubSeq(e.events, 1, size)
<1>1. e \in Entry /\ e.events \in Seq(Event) /\ Len(e.events) \in Nat
  BY DEF TypeOK, Known, Entry
<1>2. size \in Nat /\ size <= Len(e.events)
  BY <1>1, SizeAssumption
<1>3. batch \in Seq(Event) /\ Prefixed(batch, e.events)
  <2> HIDE DEF size
  <2>1. QED
    BY <1>1, <1>2 DEF Prefixed
<1> DEFINE more == Len(e.events) > size
           owes == l = "live" /\ e.state = "finished" /\ ~e.reported
<1>4. more \in BOOLEAN /\ owes \in BOOLEAN /\ (owes => e.state = "finished")
  OBVIOUS
<1>5. Copied(l, r) = [IdleLoop EXCEPT !.step = "events",
            !.generations = loop[l].generations, !.todo = loop[l].todo \ {r},
            !.run = r, !.batch = batch, !.more = more, !.log = e.log,
            !.completed = e.completed, !.next = e.next, !.owes = owes]
  BY DEF Copied
<1>6. /\ loop[l].generations \in SUBSET Nat /\ loop[l].todo \in SUBSET Runs
      /\ e.log \in BOOLEAN /\ e.completed \in BOOLEAN /\ e.next \in Nat
  BY <1>1 DEF TypeOK, Loop, Entry
<1> HIDE DEF e, size, batch, more, owes
<1> DEFINE t == Copied(l, r)
<1>7. /\ t \in Loop /\ t.step = "events" /\ t.run = r
      /\ t.generations = loop[l].generations
      /\ t.todo = loop[l].todo \ {r} /\ t.unlink = {} /\ t.batch = batch
      /\ t.log = e.log /\ t.completed = e.completed /\ t.next = e.next /\ t.owes = owes
  <2> DEFINE g == loop[l].generations
             todo == loop[l].todo \ {r}
             log == e.log
             completed == e.completed
             next == e.next
  <2>1. /\ g \in SUBSET Nat /\ todo \in SUBSET Runs
        /\ log \in BOOLEAN /\ completed \in BOOLEAN /\ next \in Nat
    BY <1>6
  <2>2. t = [IdleLoop EXCEPT !.step = "events", !.generations = g, !.todo = todo,
               !.run = r, !.batch = batch, !.more = more, !.log = log,
               !.completed = completed, !.next = next, !.owes = owes]
    BY <1>5
  <2> HIDE DEF t, g, todo, log, completed, next
  <2>3. /\ t.step = "events" /\ t.run = r
        /\ t.generations = g /\ t.todo = todo /\ t.unlink = {}
        /\ t.batch = batch /\ t.log = log /\ t.completed = completed
        /\ t.next = next /\ t.owes = owes
    BY <2>2 DEF IdleLoop
  <2>4. t \in Loop
    <3> DEFINE u == [IdleLoop EXCEPT !.step = "events", !.generations = g,
                        !.todo = todo, !.run = r, !.batch = batch]
    <3>1. u \in Loop
      BY <1>3, <2>1, IdleFacts DEF Loop, Steps
    <3> DEFINE w == [u EXCEPT !.more = more, !.log = log]
    <3>2. t = [w EXCEPT !.completed = completed, !.next = next, !.owes = owes]
      BY <2>2 DEF IdleLoop
    <3> HIDE DEF u
    <3>3. w \in Loop
      BY <1>4, <2>1, <3>1 DEF Loop
    <3> HIDE DEF w
    <3>4. QED
      BY <1>4, <2>1, <3>2, <3>3 DEF Loop
  <2>5. QED
    BY <2>3, <2>4 DEF g, todo, log, completed, next
<1>8. QED
  BY <1>1, <1>3, <1>4, <1>7 DEF e

-----------------------------------------------------------------------------
(* What the steps change: the basics *)

\* A gap may be marked in any step.
GapMoves == UNCHANGED gapVars \/ MarkGap \/ MarkGapInMemory

LEMMA GapKept ==
    ASSUME TypeOK, GapTold, GapMoves
    PROVE  /\ GapTold'
           /\ gap' \in [memory : Gap, disk : Gap] /\ beat' \in Beat
           /\ untold' \in BOOLEAN
<1>1. CASE UNCHANGED gapVars
  BY <1>1 DEF gapVars, GapTold, GapStaysMarked, TypeOK
<1>2. ASSUME gap'.memory = Marked, gap' \in [memory : Gap, disk : Gap],
             untold' = TRUE, beat' = [beat EXCEPT !.covers = FALSE]
      PROVE  GapTold' /\ beat' \in Beat
  <2>1. beat' \in Beat /\ beat'.covers = FALSE /\ beat'.step = beat.step
        /\ beat'.version = beat.version
    BY <1>2 DEF TypeOK, Beat
  <2>2. /\ gap.memory.version \in Nat /\ gap'.memory.detected = TRUE
        /\ gap'.memory.version = gap.memory.version + 1
    BY <1>2 DEF TypeOK, Gap, Marked
  <2>3. beat.step # "idle" => beat.version <= gap.memory.version
    BY DEF GapTold
  <2>4. QED
    BY <1>2, <2>1, <2>2, <2>3 DEF GapTold, GapStaysMarked, TypeOK, Beat
<1>3. Marked \in Gap
  BY DEF Marked, TypeOK, Gap
<1>4. CASE MarkGap
  BY <1>2, <1>3, <1>4 DEF MarkGap
<1>5. CASE MarkGapInMemory
  BY <1>2, <1>3, <1>5 DEF MarkGapInMemory, TypeOK
<1>6. QED
  BY <1>1, <1>4, <1>5 DEF GapMoves

\* What a step of the run r changes.
RunChanges(r) ==
    /\ up /\ UNCHANGED <<setupVars, loop, server, purged, crashes, rejections>>
    /\ saveFailures' \in Nat
    /\ accepted \subseteq accepted' /\ accepted' \subseteq Runs
    /\ active' \subseteq Runs
    /\ logs \subseteq logs' /\ logs' \subseteq Runs
    /\ GapMoves /\ Saved
    /\ \/ journal' = journal
       \/ /\ Known(r) \/ (disk' = journal' /\ r \notin accepted)
          /\ r \in accepted'
          /\ journal' = [journal EXCEPT ![r] = journal'[r]]
          /\ journal'[r] \in Entry
          /\ journal'[r].log => r \in logs'

\* A change of the entry of a known run.
LEMMA ChangesEntry ==
    ASSUME Typed, Journaled, Files, NEW r \in Runs, Known(r),
           NEW f \in Entry, NEW kind, f.log => r \in logs',
           \/ SaveJournal([journal EXCEPT ![r] = f])
           \/ SaveFails(kind, [journal EXCEPT ![r] = f])
    PROVE  /\ saveFailures' \in Nat /\ Saved /\ r \in accepted
           /\ journal' = [journal EXCEPT ![r] = journal'[r]]
           /\ journal'[r] = f /\ journal'[r] \in Entry
           /\ journal'[r].log => r \in logs'
<1>1. journal \in Journals
  BY DEF Typed, TypeOK, Journals
<1> DEFINE j == [journal EXCEPT ![r] = f]
<1>2. j \in Journals /\ j[r] = f
  BY <1>1 DEF Journals
<1>3. journal' = j /\ Saved /\ saveFailures' \in Nat
  <2> HIDE DEF j
  <2>1. SaveJournal(j) \/ SaveFails(kind, j)
    BY DEF j
  <2>2. QED
    BY <1>2, <2>1, SaveTypes DEF Typed
<1>4. r \in accepted
  BY DEF Journaled, Known
<1>5. QED
  BY <1>2, <1>3, <1>4

LEMMA AcceptChanges ==
    ASSUME Basics, NEW r \in Runs, Accept(r)
    PROVE  /\ RunChanges(r) /\ r \notin accepted /\ r \in accepted'
           /\ disk' = journal' /\ active' = active
           /\ journal'[r] = [state |-> "received", generation |-> generation,
                sequence |-> 0, events |-> <<>>, reported |-> FALSE,
                log |-> FALSE, next |-> 0, completed |-> FALSE, pending |-> FALSE]
<1> DEFINE f == [state |-> "received", generation |-> generation,
             sequence |-> 0, events |-> <<>>, reported |-> FALSE,
             log |-> FALSE, next |-> 0, completed |-> FALSE, pending |-> FALSE]
<1>1. f \in Entry /\ ~f.log
  BY DEF Basics, Typed, TypeOK, Entry
<1>2. journal' = [journal EXCEPT ![r] = f] /\ disk' = journal'
  BY DEF Accept, SaveJournal
<1> HIDE DEF f
<1>3. journal'[r] = f /\ journal' = [journal EXCEPT ![r] = journal'[r]]
  BY <1>2 DEF Basics, Typed, TypeOK
<1>4. RunChanges(r)
  BY <1>1, <1>2, <1>3
  DEF Accept, RunChanges, Saved, GapMoves, SaveJournal, Basics, Typed, TypeOK, gapVars, setupVars
<1>5. QED
  BY <1>2, <1>3, <1>4 DEF f, Accept

\* The entries of known runs.
LEMMA KnownFacts ==
    ASSUME Basics, NEW r \in Runs, Known(r)
    PROVE  /\ journal[r] \in Entry /\ disk[r] # None /\ disk[r] \in Entry
           /\ journal[r].log => r \in logs
           /\ journal[r] \in Entries(r) /\ disk[r] \in Entries(r)
<1>1. journal[r] \in Entry /\ disk[r] # None /\ disk[r] \in Entry
  BY DEF Basics, Typed, TypeOK, Known, Journaled
<1>2. journal[r] \in Entries(r) /\ disk[r] \in Entries(r)
  BY <1>1 DEF Entries, Known
<1>3. QED
  BY <1>1, <1>2 DEF Basics, Files

LEMMA StartChanges ==
    ASSUME Basics, NEW r \in Runs, Start(r)
    PROVE  /\ RunChanges(r) /\ Known(r) /\ Grows(r, journal[r], journal'[r])
           /\ accepted' = accepted /\ active' = active \cup {r}
           /\ journal'[r].state = "running" /\ (journal'[r].log => journal[r].log)
<1> DEFINE f == Append1([journal[r] EXCEPT !.state = "running"], "progress")
<1>1. journal[r] \in Entry /\ (journal[r].log => r \in logs)
  BY KnownFacts DEF Start
<1>2. /\ Grows(r, journal[r], f) /\ f.state = "running" /\ f.log = journal[r].log
  BY <1>1, StartedEntry DEF Start
<1>3. f \in Entry
  BY <1>2 DEF Grows
<1>4. /\ SaveJournal([journal EXCEPT ![r] = f]) /\ Known(r) /\ logs' = logs
  BY DEF Start
<1> HIDE DEF f
<1>5. /\ saveFailures' \in Nat /\ Saved /\ r \in accepted
      /\ journal' = [journal EXCEPT ![r] = journal'[r]]
      /\ journal'[r] = f /\ journal'[r] \in Entry
      /\ journal'[r].log => r \in logs'
  BY <1>1, <1>2, <1>3, <1>4, ChangesEntry DEF Basics
<1>6. RunChanges(r)
  BY <1>4, <1>5 DEF Start, RunChanges, GapMoves, Basics, Typed, TypeOK, gapVars, setupVars
<1>7. QED
  BY <1>2, <1>4, <1>5, <1>6 DEF Start

LEMMA CancelChanges ==
    ASSUME Basics, NEW r \in Runs, FinishWithoutExecution(r)
    PROVE  /\ RunChanges(r) /\ Known(r) /\ Grows(r, journal[r], journal'[r])
           /\ accepted' = accepted /\ active' = active /\ journal[r].state = "received"
           /\ (journal'[r].log => journal[r].log)
<1> DEFINE f == Append1([journal[r] EXCEPT !.state = "finished",
                                        !.reported = r \in Scheduled], "cancelled")
<1>1. journal[r] \in Entry /\ (journal[r].log => r \in logs)
  BY KnownFacts DEF FinishWithoutExecution
<1>2. /\ Grows(r, journal[r], f) /\ f.log = journal[r].log
  BY <1>1, CancelledEntry DEF FinishWithoutExecution
<1>3. f \in Entry
  BY <1>2 DEF Grows
<1>4. /\ Known(r) /\ logs' = logs
      /\ \/ SaveJournal([journal EXCEPT ![r] = f])
         \/ SaveFails("finish", [journal EXCEPT ![r] = f])
  BY DEF FinishWithoutExecution, SaveOutcome
<1> HIDE DEF f
<1>5. /\ saveFailures' \in Nat /\ Saved /\ r \in accepted
      /\ journal' = [journal EXCEPT ![r] = journal'[r]]
      /\ journal'[r] = f /\ journal'[r] \in Entry
      /\ journal'[r].log => r \in logs'
  BY <1>1, <1>2, <1>3, <1>4, ChangesEntry DEF Basics
<1>6. RunChanges(r)
  BY <1>4, <1>5 DEF FinishWithoutExecution, RunChanges, GapMoves, Basics, Typed, TypeOK, gapVars, setupVars
<1>7. QED
  BY <1>2, <1>4, <1>5, <1>6 DEF FinishWithoutExecution

LEMMA ProgressChanges ==
    ASSUME Basics, NEW r \in Runs, Progress(r)
    PROVE  /\ RunChanges(r) /\ Known(r) /\ Grows(r, journal[r], journal'[r])
           /\ accepted' = accepted /\ active' = active /\ journal[r].state = "running"
           /\ (journal'[r].log => journal[r].log)
           /\ journal'[r].state = journal[r].state
<1> DEFINE f == Append1(journal[r], "progress")
<1>1. journal[r] \in Entry /\ (journal[r].log => r \in logs)
  BY KnownFacts DEF Progress
<1>2. /\ Grows(r, journal[r], f) /\ f.log = journal[r].log
      /\ f.state = journal[r].state
  BY <1>1, MoreProgress DEF Progress, Kinds
<1>3. f \in Entry
  BY <1>2 DEF Grows
<1>4. /\ Known(r) /\ logs' = logs
      /\ \/ SaveJournal([journal EXCEPT ![r] = f])
         \/ SaveFails("finish", [journal EXCEPT ![r] = f])
  BY DEF Progress, SaveOutcome
<1> HIDE DEF f
<1>5. /\ saveFailures' \in Nat /\ Saved /\ r \in accepted
      /\ journal' = [journal EXCEPT ![r] = journal'[r]]
      /\ journal'[r] = f /\ journal'[r] \in Entry
      /\ journal'[r].log => r \in logs'
  BY <1>1, <1>2, <1>3, <1>4, ChangesEntry DEF Basics
<1>6. RunChanges(r)
  BY <1>4, <1>5 DEF Progress, RunChanges, GapMoves, Basics, Typed, TypeOK, gapVars, setupVars
<1>7. QED
  BY <1>2, <1>4, <1>5, <1>6 DEF Progress

LEMMA ReconcileChanges ==
    ASSUME Basics, NEW r \in Runs, ReconcileOne(r)
    PROVE  /\ RunChanges(r) /\ Known(r) /\ Grows(r, journal[r], journal'[r])
           /\ accepted' = accepted /\ active' = active /\ r \notin active
           /\ (journal'[r].log => journal[r].log)
<1>0. PICK kind \in {"complete", "unresolved"}, chunks \in {0, Inventory[r]} :
        SaveOutcome([journal EXCEPT ![r] =
           Append1(AppendInventory(
              [@ EXCEPT !.state = "finished",
                        !.reported = r \in Scheduled], chunks), kind)])
  BY DEF ReconcileOne
<1> DEFINE f == Append1(AppendInventory([journal[r] EXCEPT !.state = "finished",
                        !.reported = r \in Scheduled], chunks), kind)
<1>1. journal[r] \in Entry /\ (journal[r].log => r \in logs)
  BY KnownFacts DEF ReconcileOne
<1>2. /\ Grows(r, journal[r], f) /\ f.log = journal[r].log
  <2>1. chunks \in Nat
    BY SizeAssumption
  <2>2. QED
    BY <1>1, <2>1, ReconciledEntry
<1>3. f \in Entry
  BY <1>2 DEF Grows
<1>4. /\ Known(r) /\ logs' = logs
      /\ \/ SaveJournal([journal EXCEPT ![r] = f])
         \/ SaveFails("finish", [journal EXCEPT ![r] = f])
  BY <1>0 DEF ReconcileOne, SaveOutcome
<1> HIDE DEF f
<1>5. /\ saveFailures' \in Nat /\ Saved /\ r \in accepted
      /\ journal' = [journal EXCEPT ![r] = journal'[r]]
      /\ journal'[r] = f /\ journal'[r] \in Entry
      /\ journal'[r].log => r \in logs'
  BY <1>1, <1>2, <1>3, <1>4, ChangesEntry DEF Basics
<1>6. RunChanges(r)
  BY <1>4, <1>5 DEF ReconcileOne, RunChanges, GapMoves, Basics, Typed, TypeOK, gapVars, setupVars
<1>7. QED
  BY <1>2, <1>4, <1>5, <1>6 DEF ReconcileOne

LEMMA CopyChanges ==
    ASSUME Basics, NEW r \in Runs, FinishReplication(r)
    PROVE  /\ RunChanges(r) /\ Known(r) /\ Grows(r, journal[r], journal'[r])
           /\ accepted' = accepted /\ active' = active /\ up
           /\ (journal'[r].log => journal[r].log)
           /\ journal'[r].state = journal[r].state
<1>0. PICK complete \in BOOLEAN :
        SaveOutcome([journal EXCEPT ![r] =
           Append1([@ EXCEPT !.pending = ~complete], "replication")])
  BY DEF FinishReplication
<1> DEFINE f == Append1([journal[r] EXCEPT !.pending = ~complete], "replication")
<1>1. journal[r] \in Entry /\ (journal[r].log => r \in logs)
  BY KnownFacts DEF FinishReplication
<1>2. /\ Grows(r, journal[r], f) /\ f.log = journal[r].log
      /\ f.state = journal[r].state
  BY <1>1, CopiedEntry DEF FinishReplication
<1>3. f \in Entry
  BY <1>2 DEF Grows
<1>4. /\ Known(r) /\ logs' = logs
      /\ \/ SaveJournal([journal EXCEPT ![r] = f])
         \/ SaveFails("finish", [journal EXCEPT ![r] = f])
  BY <1>0 DEF FinishReplication, SaveOutcome
<1> HIDE DEF f
<1>5. /\ saveFailures' \in Nat /\ Saved /\ r \in accepted
      /\ journal' = [journal EXCEPT ![r] = journal'[r]]
      /\ journal'[r] = f /\ journal'[r] \in Entry
      /\ journal'[r].log => r \in logs'
  BY <1>1, <1>2, <1>3, <1>4, ChangesEntry DEF Basics
<1>6. RunChanges(r)
  BY <1>4, <1>5 DEF FinishReplication, RunChanges, GapMoves, Basics, Typed, TypeOK, gapVars, setupVars
<1>7. QED
  BY <1>2, <1>4, <1>5, <1>6 DEF FinishReplication

LEMMA FinishChanges ==
    ASSUME Basics, NEW r \in Runs, FinishOperation(r)
    PROVE  /\ RunChanges(r) /\ accepted' = accepted /\ active' = active \ {r}
           /\ r \in active
           /\ \/ journal' = journal /\ disk' = disk
              \/ /\ Known(r)
                 /\ ~journal[r].log => Grows(r, journal[r], journal'[r])
<1>1. CASE ~Known(r)
  BY <1>1 DEF FinishOperation, RunChanges, LogWritten, GapMoves, Saved, gapVars,
              Basics, Typed, TypeOK, setupVars
<1>2. CASE Known(r)
  <2>1. PICK logged \in BOOLEAN :
           /\ IF logged THEN LogWritten(r) ELSE LogUnavailable
           /\ SaveOutcome([journal EXCEPT ![r] = Finished(@, r, logged)])
    BY <1>2 DEF FinishOperation
  <2> DEFINE f == Finished(journal[r], r, logged)
  <2>2. journal[r] \in Entry /\ (journal[r].log => r \in logs)
    BY <1>2, KnownFacts
  <2>3. f \in Entry /\ f.log = logged /\ (~journal[r].log => Grows(r, journal[r], f))
    BY <2>2, FinishedEntry
  <2>4. \/ SaveJournal([journal EXCEPT ![r] = f])
        \/ SaveFails("finish", [journal EXCEPT ![r] = f])
    BY <2>1 DEF SaveOutcome
  <2>5. GapMoves /\ logs \subseteq logs' /\ logs' \subseteq Runs /\ (logged => r \in logs')
    BY <2>1 DEF LogWritten, LogUnavailable, GapMoves, Basics, Typed, TypeOK
  <2> HIDE DEF f
  <2>6. /\ saveFailures' \in Nat /\ Saved /\ r \in accepted
        /\ journal' = [journal EXCEPT ![r] = journal'[r]]
        /\ journal'[r] = f /\ journal'[r] \in Entry
        /\ journal'[r].log => r \in logs'
    BY <1>2, <2>3, <2>4, <2>5, ChangesEntry DEF Basics
  <2>7. RunChanges(r)
    BY <1>2, <2>5, <2>6 DEF FinishOperation, RunChanges, Basics, Typed, TypeOK, setupVars
  <2>8. QED
    BY <1>2, <2>3, <2>6, <2>7 DEF FinishOperation
<1>3. QED
  BY <1>1, <1>2

\* The entries after a step that saves: the old ones and the one in memory.
LEMMA SavedEntries ==
    ASSUME Saved, NEW r
    PROVE  \A e \in Entries(r)' : e \in Entries(r) \/ (e = journal'[r] /\ journal'[r] # None)
BY DEF Saved, Entries

LEMMA RunBasics ==
    ASSUME Basics, NEW r \in Runs, RunChanges(r)
    PROVE  Basics'
<1>1. journal \in Journals /\ disk \in Journals
  BY DEF Basics, Typed, TypeOK, Journals
<1>2. journal' \in Journals /\ disk' \in Journals
  BY <1>1 DEF RunChanges, Journals, Saved
<1>3. GapTold' /\ gap' \in [memory : Gap, disk : Gap] /\ beat' \in Beat /\ untold' \in BOOLEAN
  BY GapKept DEF Basics, Typed, RunChanges
<1>4. Typed'
  BY <1>2, <1>3 DEF RunChanges, Basics, Typed, TypeOK, Journals, setupVars
<1>5. Quiet'
  BY DEF RunChanges, Basics, Quiet, setupVars
<1>6. ASSUME NEW q \in Runs
      PROVE  /\ disk'[q] = None => journal'[q] = None
             /\ disk'[q] # None => q \in accepted'
  <2>1. disk[q] = None => journal[q] = None
    BY DEF Basics, Journaled
  <2>2. disk[q] # None => q \in accepted'
    BY DEF Basics, Journaled, RunChanges
  <2>3. CASE journal' = journal
    BY <2>1, <2>2, <2>3 DEF RunChanges, Saved
  <2>4. CASE q # r \/ journal' # journal
    <3>1. CASE q # r
      <4>1. journal'[q] = journal[q]
        BY <3>1, <1>1 DEF RunChanges, Journals
      <4>2. QED
        BY <4>1, <2>1, <2>2 DEF RunChanges, Saved
    <3>2. CASE q = r /\ journal' # journal
      BY <3>2, <2>1, <2>2 DEF RunChanges, Saved, Known
    <3>3. QED
      BY <2>4, <3>1, <3>2
  <2>5. QED
    BY <2>3, <2>4
<1>7. Journaled'
  BY <1>6 DEF Journaled
<1>8. ASSUME NEW q \in Runs, NEW e \in Entries(q)', e.log
      PROVE  q \in logs'
  <2>1. e \in Entries(q) => q \in logs'
    BY <1>8 DEF Basics, Files, RunChanges
  <2>2. CASE e = journal'[q] /\ journal'[q] # None /\ (q # r \/ journal' = journal)
    <3>1. journal'[q] = journal[q]
      BY <2>2, <1>1 DEF RunChanges, Journals
    <3>2. QED
      BY <2>1, <2>2, <3>1 DEF Entries
  <2>3. CASE e = journal'[q] /\ q = r /\ journal' # journal
    BY <1>8, <2>3 DEF RunChanges
  <2>4. QED
    BY <2>1, <2>2, <2>3, SavedEntries DEF RunChanges
<1>9. ASSUME NEW l \in Loops, NEW q \in loop'[l].unlink
      PROVE  disk'[q] = None /\ q \in accepted'
  <2>1. q \in Runs /\ q \in accepted /\ disk[q] = None /\ journal[q] = None
    BY DEF RunChanges, Basics, Files, Typed, TypeOK, Loop, Journaled
  <2>2. q # r \/ journal' = journal
    BY <2>1 DEF RunChanges, Known
  <2>3. journal'[q] = None
    BY <1>1, <2>1, <2>2 DEF RunChanges, Journals
  <2>4. QED
    BY <2>1, <2>3 DEF RunChanges, Saved
<1>10. Files'
  BY <1>8, <1>9 DEF Files
<1>11. QED
  BY <1>3, <1>4, <1>5, <1>7, <1>10 DEF Basics

\* What a step of the reporter l changes.
ReporterChanges(l) ==
    /\ up /\ UNCHANGED <<generation, setup, up, active, accepted, crashes>>
    /\ retired' \subseteq Nat /\ saveFailures' \in Nat /\ rejections' \in Nat
    /\ logs' \subseteq Runs /\ purged' \subseteq Runs /\ server' \in Server
    /\ GapMoves /\ Saved
    /\ loop' = [loop EXCEPT ![l] = loop'[l]]
    /\ loop'[l] \in Loop /\ (loop'[l].step \in AtRun => loop'[l].run \in Runs)
    /\ journal' \in Journals
    /\ \A r \in Runs : journal'[r] # None => Known(r) /\ (journal'[r].log => journal[r].log)
    /\ \A r \in logs : r \in logs' \/ r \in loop[l].unlink
    /\ \A r \in loop'[l].unlink :
          r \in loop[l].unlink \/ (disk'[r] = None /\ r \in accepted)

LEMMA ReporterBasics ==
    ASSUME Basics, NEW l \in Loops, ReporterChanges(l)
    PROVE  Basics'
<1>1. journal \in Journals /\ disk \in Journals
  BY DEF Basics, Typed, TypeOK, Journals
<1>2. journal' \in Journals /\ disk' \in Journals
  BY <1>1 DEF ReporterChanges, Saved
<1>3. GapTold' /\ gap' \in [memory : Gap, disk : Gap] /\ beat' \in Beat /\ untold' \in BOOLEAN
  BY GapKept DEF Basics, Typed, ReporterChanges
<1>4. loop' \in [Loops -> Loop] /\ \A m \in Loops : m # l => loop'[m] = loop[m]
  BY DEF Basics, Typed, TypeOK, ReporterChanges
<1>5. \A m \in Loops : loop'[m].step \in AtRun => loop'[m].run \in Runs
  BY <1>4 DEF Basics, Typed, ReporterChanges
<1>6. Typed'
  BY <1>2, <1>3, <1>4, <1>5 DEF ReporterChanges, Basics, Typed, TypeOK, Journals
<1>7. Quiet'
  BY DEF ReporterChanges, Basics, Quiet
<1>8. Journaled'
  BY DEF ReporterChanges, Basics, Journaled, Saved, Known
<1>9. ASSUME NEW q \in Runs, NEW e \in Entries(q)', e.log
      PROVE  q \in logs'
  <2>1. q \in logs /\ disk[q] # None
    <3>1. CASE e \in Entries(q)
      BY <1>9, <3>1 DEF Basics, Files, Journaled, Entries
    <3>2. CASE e = journal'[q] /\ journal'[q] # None
      <4>1. Known(q) /\ journal[q].log
        BY <1>9, <3>2 DEF ReporterChanges
      <4>2. QED
        BY <4>1, KnownFacts
    <3>3. QED
      BY <3>1, <3>2, SavedEntries DEF ReporterChanges
  <2>2. QED
    BY <2>1 DEF ReporterChanges, Basics, Files
<1>10. ASSUME NEW m \in Loops, NEW q \in loop'[m].unlink
       PROVE  disk'[q] = None /\ q \in accepted'
  <2>1. q \in Runs
    BY <1>4 DEF Loop
  <2>2. q \in loop[m].unlink => disk[q] = None /\ journal[q] = None /\ q \in accepted
    BY <2>1 DEF Basics, Files, Journaled
  <2>3. q \in loop[m].unlink => disk'[q] = None
    BY <2>1, <2>2 DEF ReporterChanges, Saved, Known
  <2>4. QED
    BY <1>4, <2>2, <2>3 DEF ReporterChanges
<1>11. Files'
  BY <1>9, <1>10 DEF Files
<1>12. QED
  BY <1>3, <1>6, <1>7, <1>8, <1>11 DEF Basics

\* A reporter that has no run at hand any more, and nothing new to do.
Rests(l, t) ==
    /\ t \in Loop /\ t.step \notin AtRun
    /\ RunsOf(t) \subseteq RunsOf(loop[l])
    /\ t.generations \subseteq loop[l].generations
    /\ t.unlink \subseteq loop[l].unlink

LEMMA BetweenRests ==
    ASSUME NEW l \in Loops, NEW t, Between(l, t)
    PROVE  Rests(l, t)
BY DEF Between, Rests, RunsOf, AtRun

\* A reporter that took a run: what it copied.
Holds(l, t) ==
    /\ t \in Loop /\ t.run \in Runs /\ Known(t.run)
    /\ RunsOf(t) \subseteq RunsOf(loop[l])
    /\ t.generations \subseteq loop[l].generations /\ t.unlink = {}
    /\ t.step \in {"events", "result", "remove", "chunk", "complete"}
    /\ Prefixed(t.batch, journal[t.run].events)
    /\ t.completed = journal[t.run].completed /\ t.next = journal[t.run].next
    /\ t.step = "chunk" => t.next < LogChunks
    /\ t.step = "complete" => ~(t.next < LogChunks)
    /\ t.step = "result" => t.owes
    /\ t.owes => journal[t.run].state = "finished"

\* A step of a reporter that leaves the entries as they are.
Moves(l) ==
    /\ ReporterChanges(l)
    /\ journal' = journal /\ purged' = purged /\ retired' \subseteq retired

LEMMA GotoMoves ==
    ASSUME Basics, NEW l \in Loops, NEW t \in Loop, up, Goto(l, t),
           t.step \in AtRun => t.run \in Runs, t.unlink \subseteq loop[l].unlink,
           UNCHANGED <<setupVars, runVars, gapVars, accepted, purged, crashes, saveFailures>>,
           server' \in Server, rejections' \in Nat
    PROVE  Moves(l) /\ loop'[l] = t /\ disk' = disk
<1>1. loop' = [loop EXCEPT ![l] = t] /\ loop'[l] = t
  BY DEF Goto, Basics, Typed, TypeOK
<1>2. journal' = journal /\ disk' = disk /\ logs' = logs /\ purged' = purged /\ retired' = retired
  BY DEF runVars, setupVars
<1>3. ReporterChanges(l)
  BY <1>1, <1>2 DEF ReporterChanges, GapMoves, Saved, Basics, Typed, TypeOK, Journals, Known,
     setupVars, runVars
<1>4. QED
  BY <1>1, <1>2, <1>3 DEF Moves

LEMMA RestMoves ==
    ASSUME Basics, NEW l \in Loops, NEW t, Rests(l, t), up, Goto(l, t),
           UNCHANGED <<setupVars, runVars, gapVars, accepted, purged, crashes, saveFailures>>,
           server' \in Server, rejections' \in Nat
    PROVE  Moves(l) /\ disk' = disk /\ Rests(l, loop'[l])
BY GotoMoves DEF Rests

LEMMA EndOfPassMoves ==
    ASSUME Basics, NEW l \in Loops, EndOfPass(l)
    PROVE  Moves(l) /\ server' = server /\ Rests(l, loop'[l])
<1> DEFINE g == loop[l].generations \ {First(loop[l].generations)}
           u == [IdleLoop EXCEPT !.step = "generation", !.generations = g]
           t == IF l = "live" THEN IdleLoop ELSE u
<1>1. g \in SUBSET Nat /\ g \subseteq loop[l].generations
  BY DEF Basics, Typed, TypeOK, Loop
<1>2. Goto(l, t)
  BY DEF EndOfPass
<1> HIDE DEF g
<1>3. u \in Loop /\ u.step = "generation" /\ u.generations = g /\ u.run = None
      /\ u.todo = {} /\ u.unlink = {}
  BY <1>1, IdleFacts DEF Loop, Steps
<1> HIDE DEF u
<1>4. Rests(l, u) /\ Rests(l, IdleLoop)
  BY <1>1, <1>3, IdleFacts DEF Rests, RunsOf
<1>5. Rests(l, t)
  BY <1>4
<1> HIDE DEF t
<1>6. QED
  BY <1>2, <1>5, RestMoves DEF EndOfPass, bounds, Basics, Typed, TypeOK

LEMMA RequestFailsMoves ==
    ASSUME Basics, NEW l \in Loops, RequestFails(l)
    PROVE  Moves(l) /\ server' = server /\ Rests(l, loop'[l])
<1>1. Rests(l, AfterError(l))
  BY NextFacts, BetweenRests DEF Basics, Typed
<1>2. QED
  BY <1>1, RestMoves DEF RequestFails, bounds, Basics, Typed, TypeOK

LEMMA TakeMoves ==
    ASSUME Basics, NEW l \in Loops, Take(l)
    PROVE  Moves(l) /\ server' = server /\ (Rests(l, loop'[l]) \/ Holds(l, loop'[l]))
<1> DEFINE r == First(loop[l].todo)
           a == [AtNext(l) EXCEPT !.todo = @ \ {r}]
           c == Copied(l, r)
           t == IF ~Known(r) THEN a
                ELSE IF journal[r].events # <<>> THEN c ELSE AfterEvents(l, c)
<1>1. r \in loop[l].todo /\ r \in Runs
  <2>1. loop[l].todo \subseteq Nat /\ loop[l].todo \subseteq Runs /\ loop[l].todo # {}
    BY RunAssumption DEF Take, Basics, Typed, TypeOK, Loop
  <2>2. QED
    BY <2>1, FirstFacts
<1>2. Goto(l, t)
  BY DEF Take
<1> HIDE DEF r
<1>3. Rests(l, a)
  <2>1. Between(l, AtNext(l))
    BY NextFacts DEF Basics, Typed
  <2> DEFINE n == AtNext(l)
  <2> HIDE DEF n
  <2>2. /\ n \in Loop /\ n.todo \subseteq loop[l].todo /\ n.run = None /\ n.unlink = {}
        /\ n.generations \subseteq loop[l].generations /\ n.step \in {"idle", "next"}
    BY <2>1 DEF Between, n
  <2>3. a = [n EXCEPT !.todo = @ \ {r}]
    BY DEF n
  <2> HIDE DEF a
  <2>4. /\ a \in Loop /\ a.todo \subseteq n.todo /\ a.run = n.run /\ a.unlink = n.unlink
        /\ a.generations = n.generations /\ a.step = n.step
    BY <2>2, <2>3 DEF Loop
  <2>5. QED
    BY <2>2, <2>4 DEF Rests, RunsOf, AtRun
<1>4. ASSUME Known(r) PROVE Holds(l, c) /\ c \in Loop /\ c.step = "events"
  <2>1. /\ journal[r] \in Entry
        /\ c \in Loop /\ c.step = "events" /\ c.run = r
        /\ c.generations = loop[l].generations
        /\ c.todo = loop[l].todo \ {r} /\ c.unlink = {}
        /\ Prefixed(c.batch, journal[r].events)
        /\ c.completed = journal[r].completed /\ c.next = journal[r].next
        /\ c.owes => journal[r].state = "finished"
    BY <1>1, <1>4, CopiedFacts DEF Basics, Typed
  <2> HIDE DEF c
  <2>2. RunsOf(c) \subseteq RunsOf(loop[l])
    BY <1>1, <2>1, RunAssumption DEF RunsOf
  <2>3. QED
    BY <1>1, <1>4, <2>1, <2>2 DEF Holds
<1>5. ASSUME Known(r)
      PROVE  Rests(l, AfterEvents(l, c)) \/ Holds(l, AfterEvents(l, c))
  <2> DEFINE u == AfterEvents(l, c)
  <2>1. Holds(l, c) /\ c \in Loop
    BY <1>4, <1>5
  <2> HIDE DEF c
  <2>2. \/ Between(l, u)
        \/ /\ SameRun(c, u)
           /\ u.step \in {"result", "remove", "chunk", "complete"}
           /\ u.step = "chunk" => c.next < LogChunks
           /\ u.step = "complete" => ~(c.next < LogChunks)
           /\ u.step = "result" => c.owes
    BY <2>1, AfterEventsFacts DEF Basics, Typed
  <2> HIDE DEF u
  <2>3. CASE Between(l, u)
    BY <2>3, BetweenRests DEF u
  <2>4. CASE ~Between(l, u)
    <3>1. RunsOf(u) = RunsOf(c)
      BY <2>2, <2>4 DEF SameRun, RunsOf
    <3>2. Holds(l, u)
      BY <2>1, <2>2, <2>4, <3>1 DEF Holds, SameRun
    <3>3. QED
      BY <3>2 DEF u
  <2>5. QED
    BY <2>3, <2>4
<1>6. Rests(l, t) \/ Holds(l, t)
  BY <1>3, <1>4, <1>5
<1> HIDE DEF t
<1>7. t \in Loop /\ (t.step \in AtRun => t.run \in Runs) /\ t.unlink \subseteq loop[l].unlink
  BY <1>6 DEF Rests, Holds
<1>8. Moves(l) /\ loop'[l] = t
  BY <1>2, <1>7, GotoMoves DEF Take, bounds, Basics, Typed, TypeOK
<1>9. QED
  BY <1>6, <1>8 DEF Take

\* A reporter that has no run at hand and may begin with new ones.
Begins(l, t) ==
    /\ t \in Loop /\ t.step \notin AtRun
    /\ \A r \in RunsOf(t) :
          \/ r \in RunsOf(loop[l])
          \/ /\ r \in Runs /\ Known(r)
             /\ IF l = "live" THEN journal[r].generation = generation
                              ELSE journal[r].generation \in loop[l].generations
    /\ \A g \in t.generations : g \in loop[l].generations \/ g \in retired
    /\ t.unlink \subseteq loop[l].unlink

LEMMA RestsBegins ==
    ASSUME NEW l \in Loops, NEW t, Rests(l, t)
    PROVE  Begins(l, t)
BY DEF Rests, Begins

LEMMA LoadMoves ==
    ASSUME Basics, LoadRetired
    PROVE  Moves("retired") /\ server' = server /\ Begins("retired", loop'["retired"])
<1> DEFINE t == [IdleLoop EXCEPT !.step = "generation", !.generations = retired]
<1>1. "retired" \in Loops /\ retired \in SUBSET Nat
  BY DEF Loops, Basics, Typed, TypeOK
<1>2. /\ t \in Loop /\ t.step = "generation" /\ t.generations = retired /\ t.run = None
      /\ t.todo = {} /\ t.unlink = {}
  BY <1>1, IdleFacts DEF Loop, Steps
<1>3. Goto("retired", t)
  BY DEF LoadRetired
<1> HIDE DEF t
<1>4. Begins("retired", t)
  BY <1>2, IdleFacts DEF Begins, RunsOf
<1>5. QED
  BY <1>1, <1>2, <1>3, <1>4, GotoMoves, IdleFacts DEF LoadRetired, bounds, Basics, Typed, TypeOK

LEMMA CollectMoves ==
    ASSUME Basics, CollectRetired
    PROVE  Moves("retired") /\ server' = server /\ Begins("retired", loop'["retired"])
<1> DEFINE s == loop["retired"]
           g == First(s.generations)
           todo == {r \in Runs : Known(r) /\ journal[r].generation = g}
           t == [s EXCEPT !.step = "next", !.todo = todo]
<1>1. "retired" \in Loops /\ s \in Loop /\ todo \in SUBSET Runs
  BY DEF Loops, Basics, Typed, TypeOK
<1>2. g \in s.generations
  <2>1. s.generations \subseteq Nat /\ s.generations # {}
    BY <1>1 DEF CollectRetired, Loop
  <2>2. QED
    BY <2>1, FirstFacts
<1>3. Goto("retired", t)
  BY DEF CollectRetired
<1>4. \A r \in todo : r \in Runs /\ Known(r) /\ journal[r].generation \in s.generations
  BY <1>2
<1> HIDE DEF todo, s
<1>5. /\ t \in Loop /\ t.step = "next" /\ t.generations = s.generations
      /\ t.run = s.run /\ t.todo = todo /\ t.unlink = s.unlink
  BY <1>1 DEF Loop, Steps
<1> HIDE DEF t
<1>6. Begins("retired", t)
  BY <1>4, <1>5, IdleFacts DEF Begins, RunsOf, s
<1>7. QED
  BY <1>1, <1>3, <1>5, <1>6, GotoMoves, IdleFacts
  DEF CollectRetired, bounds, Basics, Typed, TypeOK, s

LEMMA ForgetMoves ==
    ASSUME Basics, ForgetRetired
    PROVE  Moves("retired") /\ server' = server /\ Rests("retired", loop'["retired"])
<1>1. "retired" \in Loops
  BY DEF Loops
<1>2. Rests("retired", IdleLoop)
  BY <1>1, NextFacts, BetweenRests DEF Basics, Typed
<1>3. loop' = [loop EXCEPT !["retired"] = IdleLoop] /\ loop'["retired"] = IdleLoop
  BY <1>1 DEF Goto, ForgetRetired, Basics, Typed, TypeOK
<1>4. ReporterChanges("retired")
  BY <1>3, IdleFacts DEF ForgetRetired, ReporterChanges, GapMoves, Saved, Basics, Typed, TypeOK,
     Journals, Known, runVars, bounds
<1>5. QED
  BY <1>2, <1>3, <1>4 DEF ForgetRetired, Moves, runVars

LEMMA UnlinkMoves ==
    ASSUME Basics, NEW l \in Loops, Unlink(l)
    PROVE  Moves(l) /\ server' = server /\ Rests(l, loop'[l])
<1> DEFINE s == loop[l]
           u == [s EXCEPT !.step = "generation", !.unlink = {}]
           t == IF s.run = None THEN u ELSE AtNext(l)
<1>1. Goto(l, t) /\ s \in Loop
  BY DEF Unlink, Basics, Typed, TypeOK
<1>2. Rests(l, t)
  <2>1. /\ u \in Loop /\ u.step = "generation" /\ u.generations = s.generations
        /\ u.run = s.run /\ u.todo = s.todo /\ u.unlink = {}
    BY <1>1 DEF Loop, Steps
  <2> HIDE DEF u
  <2>2. Rests(l, u)
    BY <2>1, IdleFacts DEF Rests, RunsOf
  <2>3. Rests(l, AtNext(l))
    BY NextFacts, BetweenRests DEF Basics, Typed
  <2>4. QED
    BY <2>2, <2>3
<1> HIDE DEF t
<1>3. loop' = [loop EXCEPT ![l] = t] /\ loop'[l] = t
  BY <1>1 DEF Goto, Basics, Typed, TypeOK
<1>4. ReporterChanges(l)
  BY <1>2, <1>3 DEF Unlink, ReporterChanges, Rests, GapMoves, Saved, Basics, Typed, TypeOK,
     Journals, Known, Waiting, setupVars, bounds
<1>5. QED
  BY <1>2, <1>3, <1>4 DEF Unlink, Moves, setupVars

LEMMA FlushMoves ==
    ASSUME Basics, FlushJournal
    PROVE  Moves("live") /\ server' = server /\ Begins("live", loop'["live"])
<1> DEFINE s == loop["live"]
           todo == {r \in Runs : Known(r) /\ journal[r].generation = generation}
           t == [IdleLoop EXCEPT !.step = "next", !.todo = todo]
<1>1. "live" \in Loops /\ s \in Loop /\ todo \in SUBSET Runs
  BY DEF Loops, Basics, Typed, TypeOK
<1>2. \A r \in todo : r \in Runs /\ Known(r) /\ journal[r].generation = generation
  OBVIOUS
<1>3. journal \in Journals /\ TypeOK
  BY DEF Basics, Typed, TypeOK, Journals
<1>4. journal' = journal /\ Saved /\ saveFailures' \in Nat
  BY <1>3, SaveTypes DEF FlushJournal
<1>5. Goto("live", t) \/ loop' = loop
  BY DEF FlushJournal
<1> HIDE DEF todo
<1>6. /\ t \in Loop /\ t.step = "next" /\ t.generations = {}
      /\ t.run = None /\ t.todo = todo /\ t.unlink = {}
  BY <1>1, IdleFacts DEF Loop, Steps
<1> HIDE DEF t
<1>7. Begins("live", t)
  BY <1>2, <1>6, IdleFacts DEF Begins, RunsOf
<1>8. Begins("live", s)
  <2>1. s.step = "idle"
    BY DEF FlushJournal
  <2>2. QED
    BY <1>1, <2>1, IdleFacts DEF Begins
<1>9. /\ loop' = [loop EXCEPT !["live"] = loop'["live"]]
      /\ loop'["live"] = t \/ loop'["live"] = s
  BY <1>1, <1>5 DEF Goto, Basics, Typed, TypeOK
<1> HIDE DEF s
<1>10. Begins("live", loop'["live"])
  BY <1>7, <1>8, <1>9
<1>11. ReporterChanges("live")
  BY <1>4, <1>9, <1>10
  DEF FlushJournal, ReporterChanges, Begins, GapMoves, Basics, Typed, TypeOK, Journals, Known, setupVars
<1>12. QED
  BY <1>4, <1>10, <1>11 DEF FlushJournal, Moves, setupVars

\* The control plane loses nothing.
ServerGrows ==
    /\ server' \in Server
    /\ server.events \subseteq server'.events
    /\ \A r \in Runs : server.chunks[r] \subseteq server'.chunks[r]
    /\ server.complete \subseteq server'.complete
    /\ server.results \subseteq server'.results

\* What a request adds to the logs.
LogsAdded(l, s) ==
    /\ \A r \in Runs : \A n \in server'.chunks[r] :
          n \in server.chunks[r] \/ (s.step = "chunk" /\ n = s.next)
    /\ \A x \in server'.complete :
          \/ x \in server.complete
          \/ s.step = "complete" /\ x = <<s.run, ChunkCount(l, s.run)>>

\* What the control plane has after it accepted all of a request.
AllAccepted(l, s) ==
    /\ s.step = "events" => \A i \in 1..Len(s.batch) : <<s.run, s.batch[i]>> \in server'.events
    /\ s.step = "chunk" => s.next \in server'.chunks[s.run]
    /\ s.step = "complete" => <<s.run, ChunkCount(l, s.run)>> \in server'.complete
    /\ s.step = "result" => s.run \in server'.results

LEMMA RequestedFacts ==
    ASSUME Basics, NEW l \in Loops, server' = Requested(l),
           loop[l].step \in {"events", "chunk", "complete", "result"}
    PROVE  ServerGrows /\ LogsAdded(l, loop[l]) /\ AllAccepted(l, loop[l])
<1> DEFINE s == loop[l]
           r == s.run
<1>1. s \in Loop /\ server \in Server /\ r \in Runs
  BY DEF Basics, Typed, TypeOK, AtRun, Steps
<1>2. s.next \in Nat /\ s.batch \in Seq(Event)
  BY <1>1 DEF Loop
<1>3. ChunkCount(l, r) \in Nat
  BY <1>1, KnownFacts, SizeAssumption DEF ChunkCount, Entry
<1>4. CASE s.step = "events"
  <2> DEFINE new == {<<r, s.batch[i]>> : i \in 1..Len(s.batch)}
  <2>1. new \subseteq Runs \X Event
    BY <1>1, <1>2
  <2>2. server' = [server EXCEPT !.events = @ \cup new]
    BY <1>4 DEF Requested
  <2>3. \A i \in 1..Len(s.batch) : <<r, s.batch[i]>> \in new
    OBVIOUS
  <2> HIDE DEF new
  <2>4. /\ server' \in Server /\ server'.events = server.events \cup new
        /\ server'.chunks = server.chunks /\ server'.complete = server.complete
        /\ server'.results = server.results
    BY <1>1, <2>1, <2>2 DEF Server
  <2>5. QED
    BY <1>4, <2>3, <2>4 DEF ServerGrows, LogsAdded, AllAccepted
<1>5. CASE s.step = "chunk"
  <2> DEFINE new == server.chunks[r] \cup {s.next}
             c == [server.chunks EXCEPT ![r] = new]
  <2>1. server' = [server EXCEPT !.chunks[r] = new]
    BY <1>5 DEF Requested
  <2>2. server' = [server EXCEPT !.chunks = c]
    BY <2>1
  <2>3. server.chunks \in [Runs -> SUBSET Nat] /\ new \in SUBSET Nat
    BY <1>1, <1>2 DEF Server
  <2>4. /\ c \in [Runs -> SUBSET Nat] /\ c[r] = new
        /\ \A q \in Runs : q # r => c[q] = server.chunks[q]
    BY <1>1, <2>3
  <2> HIDE DEF c
  <2>5. /\ server' \in Server /\ server'.events = server.events
        /\ server'.chunks = c /\ server'.complete = server.complete
        /\ server'.results = server.results
    BY <1>1, <2>2, <2>4 DEF Server
  <2>6. QED
    BY <1>1, <1>5, <2>4, <2>5 DEF ServerGrows, LogsAdded, AllAccepted
<1>6. CASE s.step = "complete"
  <2> DEFINE x == <<r, ChunkCount(l, r)>>
  <2>1. server' = [server EXCEPT !.complete = @ \cup {x}]
    BY <1>6 DEF Requested
  <2>2. x \in Runs \X Nat
    BY <1>1, <1>3
  <2> HIDE DEF x
  <2>3. /\ server' \in Server /\ server'.events = server.events
        /\ server'.chunks = server.chunks /\ server'.complete = server.complete \cup {x}
        /\ server'.results = server.results
    BY <1>1, <2>1, <2>2 DEF Server
  <2>4. QED
    BY <1>6, <2>3 DEF ServerGrows, LogsAdded, AllAccepted, x
<1>7. CASE s.step = "result"
  <2>1. server' = [server EXCEPT !.results = @ \cup {r}]
    BY <1>7 DEF Requested
  <2>2. /\ server' \in Server /\ server'.events = server.events
        /\ server'.chunks = server.chunks /\ server'.complete = server.complete
        /\ server'.results = server.results \cup {r}
    BY <1>1, <2>1 DEF Server
  <2>3. QED
    BY <1>7, <2>2 DEF ServerGrows, LogsAdded, AllAccepted
<1>8. QED
  BY <1>4, <1>5, <1>6, <1>7

LEMMA LostMoves ==
    ASSUME Basics, NEW l \in Loops, AnswerLost(l)
    PROVE  /\ Moves(l) /\ Rests(l, loop'[l])
           /\ ServerGrows /\ LogsAdded(l, loop[l])
<1>1. ServerGrows /\ LogsAdded(l, loop[l])
  BY RequestedFacts DEF AnswerLost
<1>2. Rests(l, AfterError(l))
  BY NextFacts, BetweenRests DEF Basics, Typed
<1>3. QED
  BY <1>1, <1>2, RestMoves DEF AnswerLost, ServerGrows, bounds, Basics, Typed, TypeOK

LEMMA AnsweredMoves ==
    ASSUME Basics, NEW l \in Loops, Answered(l)
    PROVE  /\ Moves(l) /\ SameRun(loop[l], loop'[l])
           /\ loop[l].step \in {"events", "chunk", "complete", "result"}
           /\ loop'[l].step = Answer(loop[l].step)
           /\ ServerGrows /\ LogsAdded(l, loop[l]) /\ AllAccepted(l, loop[l])
<1> DEFINE s == loop[l]
           step == Answer(s.step)
           t == [s EXCEPT !.step = step]
<1>1. ServerGrows /\ LogsAdded(l, loop[l]) /\ AllAccepted(l, loop[l])
  BY RequestedFacts DEF Answered
<1>2. /\ s \in Loop /\ Goto(l, t) /\ s.run \in Runs
      /\ s.step \in {"events", "chunk", "complete", "result"}
  BY DEF Answered, Basics, Typed, TypeOK, AtRun, Steps
<1>3. step \in Steps
  BY <1>2 DEF Answer, Steps
<1> HIDE DEF step
<1>4. SameRun(s, t) /\ t.step = step
  BY <1>2, <1>3, StepFacts
<1> HIDE DEF t
<1>5. t \in Loop /\ t.run \in Runs /\ t.unlink \subseteq s.unlink
  BY <1>2, <1>4 DEF SameRun
<1>6. Moves(l) /\ loop'[l] = t
  BY <1>1, <1>2, <1>5, GotoMoves DEF Answered, ServerGrows, bounds, Basics, Typed, TypeOK
<1>7. QED
  BY <1>1, <1>2, <1>4, <1>6 DEF step

\* t has the run of s at hand, and what was copied of its entry.
SameHand(s, t) ==
    /\ t \in Loop
    /\ t.generations = s.generations /\ t.todo = s.todo /\ t.run = s.run
    /\ t.batch = s.batch /\ t.completed = s.completed /\ t.next = s.next
    /\ t.owes = s.owes /\ t.unlink = s.unlink

LEMMA RejectedMoves ==
    ASSUME Basics, NEW l \in Loops, Rejected(l)
    PROVE  /\ Moves(l) /\ ServerGrows /\ LogsAdded(l, loop[l]) /\ loop[l].step = "events"
           /\ \/ Rests(l, loop'[l])
              \/ /\ SameHand(loop[l], loop'[l]) /\ loop'[l].step = "strike"
                 /\ Sent(loop[l])'
<1> DEFINE s == loop[l]
           sent == {<<s.run, s.batch[i]>> : i \in 1..Len(s.batch)}
<1>1. s \in Loop /\ server \in Server /\ s.run \in Runs /\ s.batch \in Seq(Event) /\ s.step = "events"
  BY DEF Rejected, Waiting, Basics, Typed, TypeOK, AtRun, Steps, Loop
<1>2. PICK bad \in SUBSET (sent \ server.events) \ {{}} :
          LET retained == {x \in bad : x[2].kind \in RetainedKinds}
          IN  /\ server' = [server EXCEPT !.events = @ \cup (sent \ bad)]
              /\ Goto(l, IF l = "retired" THEN IdleLoop
                         ELSE [s EXCEPT !.step = "strike",
                                 !.rejected = TRUE,
                                 !.kept = Selected(s.batch, {x[2] : x \in retained}),
                                 !.dropped = bad # retained])
  BY DEF Rejected
<1> DEFINE retained == {x \in bad : x[2].kind \in RetainedKinds}
           keep == {x[2] : x \in retained}
           kept == Selected(s.batch, keep)
           dropped == bad # retained
           u == [s EXCEPT !.step = "strike", !.rejected = TRUE,
                          !.kept = kept, !.dropped = dropped]
           t == IF l = "retired" THEN IdleLoop ELSE u
           ok == sent \ bad
<1>3. server' = [server EXCEPT !.events = @ \cup ok] /\ Goto(l, t)
  BY <1>2
<1>4. \A i \in 1..Len(s.batch) : <<s.run, s.batch[i]>> \in ok \/ <<s.run, s.batch[i]>> \in bad
  OBVIOUS
<1>5. \A i \in 1..Len(s.batch) :
        <<s.run, s.batch[i]>> \in bad => s.batch[i] \in keep \/ s.batch[i].kind \notin RetainedKinds
  <2> SUFFICES ASSUME NEW i \in 1..Len(s.batch), <<s.run, s.batch[i]>> \in bad,
                      s.batch[i].kind \in RetainedKinds
               PROVE  s.batch[i] \in keep
    OBVIOUS
  <2>1. <<s.run, s.batch[i]>> \in retained
    OBVIOUS
  <2> HIDE DEF retained
  <2>2. QED
    BY <2>1
<1>6. ok \subseteq Runs \X Event
  BY <1>1
<1>7. dropped \in BOOLEAN
  OBVIOUS
<1> HIDE DEF ok, keep, dropped
<1>8. /\ kept \in Seq(Event)
      /\ \A i \in 1..Len(s.batch) : s.batch[i] \in keep =>
            \E k \in 1..Len(kept) : kept[k] = s.batch[i]
  BY <1>1, SelectedFacts
<1> HIDE DEF kept
<1>9. /\ server' \in Server /\ server'.events = server.events \cup ok
      /\ server'.chunks = server.chunks /\ server'.complete = server.complete
      /\ server'.results = server.results
  BY <1>1, <1>3, <1>6 DEF Server
<1>10. ServerGrows /\ LogsAdded(l, s)
  BY <1>9 DEF ServerGrows, LogsAdded
<1>11. /\ SameHand(s, u) /\ u.step = "strike" /\ u.kept = kept
  BY <1>1, <1>7, <1>8 DEF Loop, SameHand, Steps
<1> HIDE DEF u
<1>12. t \in Loop /\ (t.step \in AtRun => t.run \in Runs) /\ t.unlink \subseteq s.unlink
  BY <1>1, <1>11, IdleFacts DEF SameHand
<1>13. CASE l = "retired"
  <2>1. t = IdleLoop
    BY <1>13
  <2>2. Rests(l, IdleLoop)
    BY NextFacts, BetweenRests DEF Basics, Typed
  <2>3. Moves(l) /\ loop'[l] = t
    BY <1>3, <1>9, <1>12, GotoMoves DEF Rejected, Waiting, bounds, Basics, Typed, TypeOK
  <2>4. QED
    BY <1>1, <1>10, <2>1, <2>2, <2>3
<1>14. CASE l # "retired"
  <2>1. t = u
    BY <1>14
  <2> HIDE DEF t
  <2>2. Moves(l) /\ loop'[l] = t
    BY <1>3, <1>9, <1>12, GotoMoves DEF Rejected, Waiting, bounds, Basics, Typed, TypeOK
  <2>3. \A i \in 1..Len(s.batch) :
           \/ <<s.run, s.batch[i]>> \in server'.events
           \/ \E k \in 1..Len(kept) : kept[k] = s.batch[i]
           \/ s.batch[i].kind \notin RetainedKinds
    BY <1>4, <1>5, <1>8, <1>9
  <2>4. loop'[l].run = s.run /\ loop'[l].batch = s.batch /\ loop'[l].kept = kept
    BY <1>11, <2>1, <2>2 DEF SameHand
  <2>5. Sent(loop[l])'
    BY <2>3, <2>4 DEF Sent
  <2>6. QED
    BY <1>1, <1>10, <1>11, <2>1, <2>2, <2>5
<1>15. QED
  BY <1>13, <1>14

\* A critical section of the reporter l, which makes f of its entry and goes on
\* as t.
Edits(l, f, t) ==
    LET r == loop[l].run
    IN  \/ ~Known(r) /\ UNCHANGED <<journal, disk, saveFailures>> /\ Goto(l, t)
        \/ Known(r) /\ SaveJournal([journal EXCEPT ![r] = f]) /\ Goto(l, t)
        \/ Known(r) /\ SaveFails("report", [journal EXCEPT ![r] = f]) /\ Goto(l, AfterError(l))

\* What it leaves.
Edited(l, f, t) ==
    LET r == loop[l].run
    IN  /\ ReporterChanges(l)
        /\ retired' = retired /\ server' = server /\ purged' = purged
        /\ \/ ~Known(r) /\ journal' = journal /\ disk' = disk /\ loop'[l] = t
           \/ /\ Known(r) /\ journal'[r] = f
              /\ \A q \in Runs : q # r => journal'[q] = journal[q]
              /\ (disk' = journal' /\ loop'[l] = t) \/ loop'[l] = AfterError(l)

LEMMA EditFacts ==
    ASSUME Basics, NEW l \in Loops, up, loop[l].step \in AtRun, NEW f, NEW t \in Loop,
           t.step \in AtRun => t.run \in Runs,
           Known(loop[l].run) => f = None \/ (f \in Entry /\ (f.log => journal[loop[l].run].log)),
           \A q \in t.unlink : q \in loop[l].unlink
                                \/ (q = loop[l].run /\ Known(q) /\ f = None),
           Edits(l, f, t), GapMoves,
           UNCHANGED <<setupVars, active, logs, server, accepted, purged, crashes, rejections>>
    PROVE  Edited(l, f, t)
<1> DEFINE r == loop[l].run
           e == AfterError(l)
<1>1. r \in Runs /\ journal \in Journals /\ TypeOK
  BY DEF Basics, Typed, TypeOK, Journals
<1>2. e \in Loop /\ e.step \notin AtRun /\ e.unlink = {}
  BY <1>1, NextFacts DEF Between, AtRun
<1> HIDE DEF e
<1>3. CASE ~Known(r)
  <2>1. Goto(l, t) /\ UNCHANGED <<journal, disk, saveFailures>>
    BY <1>3 DEF Edits
  <2>2. loop' = [loop EXCEPT ![l] = t] /\ loop'[l] = t
    BY <2>1, <1>1 DEF Goto, TypeOK
  <2>3. ReporterChanges(l)
    BY <1>1, <1>3, <2>1, <2>2 DEF ReporterChanges, Saved, TypeOK, Journals, Known, setupVars
  <2>4. QED
    BY <1>3, <2>1, <2>2, <2>3 DEF Edited, setupVars
<1>4. CASE Known(r)
  <2> DEFINE j == [journal EXCEPT ![r] = f]
  <2>1. j \in Journals /\ j[r] = f /\ \A q \in Runs : q # r => j[q] = journal[q]
    BY <1>1, <1>4 DEF Journals
  <2>2. \/ SaveJournal(j) /\ Goto(l, t)
        \/ SaveFails("report", j) /\ Goto(l, e)
    BY <1>4 DEF Edits, e
  <2> HIDE DEF j
  <2>3. journal' = j /\ Saved /\ saveFailures' \in Nat
    BY <1>1, <2>1, <2>2, SaveTypes
  <2>4. /\ loop' = [loop EXCEPT ![l] = loop'[l]]
        /\ \/ loop'[l] = t /\ disk' = journal'
           \/ loop'[l] = e
    BY <2>2, <1>1 DEF Goto, TypeOK, SaveJournal
  <2>5. \A q \in Runs : journal'[q] # None => Known(q) /\ (journal'[q].log => journal[q].log)
    BY <1>4, <2>1, <2>3 DEF Known
  <2>6. r \in accepted
    BY <1>1, <1>4 DEF Basics, Journaled, Known
  <2>7. \A q \in loop'[l].unlink :
           q \in loop[l].unlink \/ (disk'[q] = None /\ q \in accepted)
    BY <1>2, <2>1, <2>3, <2>4, <2>6
  <2>8. loop'[l] \in Loop /\ (loop'[l].step \in AtRun => loop'[l].run \in Runs)
    BY <1>2, <2>4
  <2>9. ReporterChanges(l)
    BY <1>1, <2>1, <2>3, <2>4, <2>5, <2>7, <2>8 DEF ReporterChanges, TypeOK, setupVars
  <2>10. QED
    BY <1>4, <2>1, <2>3, <2>4, <2>9 DEF Edited, setupVars, e
<1>5. QED
  BY <1>3, <1>4

\* f is e but for the events.
SameButEvents(e, f) ==
    /\ f \in Entry
    /\ f.state = e.state /\ f.generation = e.generation
    /\ f.reported = e.reported /\ f.log = e.log /\ f.next = e.next
    /\ f.completed = e.completed /\ f.pending = e.pending

\* What is left of a sequence behind its first b events.
LEMMA RestFacts ==
    ASSUME NEW q \in Seq(Event), NEW b \in Nat
    PROVE  LET n == Len(q)
               rest == SubSeq(q, b + 1, n)
           IN  /\ rest \in Seq(Event)
               /\ b <= n => /\ Len(rest) = n - b
                            /\ \A i \in 1..(n - b) : rest[i] = q[b + i]
<1> DEFINE n == Len(q)
           a == b + 1
           rest == SubSeq(q, a, n)
<1>1. n \in Nat /\ a \in Nat /\ a >= 1
  OBVIOUS
<1>2. CASE b <= n
  <2>1. n - a + 1 = n - b /\ n - b \in Nat
    BY <1>1, <1>2
  <2>2. \A i \in 1..(n - b) : a + i - 1 = b + i /\ b + i \in 1..n
    BY <1>1, <1>2
  <2> HIDE DEF a, n
  <2>3. rest = [i \in 1..(n - a + 1) |-> q[a + i - 1]]
    BY <1>1
  <2> HIDE DEF rest
  <2>4. \A i \in 1..(n - b) : q[b + i] \in Event
    BY <2>2 DEF n
  <2>5. rest = [i \in 1..(n - b) |-> q[b + i]]
    BY <2>1, <2>2, <2>3
  <2>6. /\ rest \in Seq(Event) /\ Len(rest) = n - b
        /\ \A i \in 1..(n - b) : rest[i] = q[b + i]
    BY <2>1, <2>4, <2>5
  <2>7. QED
    BY <2>6 DEF rest, n, a
<1>3. CASE ~(b <= n)
  <2> HIDE DEF n
  <2>1. rest = <<>>
    BY <1>1, <1>3
  <2>2. QED
    BY <1>3, <2>1 DEF n
<1>4. QED
  BY <1>2, <1>3

\* Striking a batch that is still at the front loses no other event.
LEMMA StruckFacts ==
    ASSUME NEW e \in Entry, NEW s \in Loop
    PROVE  /\ SameButEvents(e, Struck(e, s))
           /\ \A k \in 1..Len(s.kept) : s.kept[k] \in EventSet(Struck(e, s))
           /\ Prefixed(s.batch, e.events) =>
                \A v \in EventSet(e) :
                   v \in EventSet(Struck(e, s)) \/ \E i \in 1..Len(s.batch) : v = s.batch[i]
<1> DEFINE b == Len(s.batch)
           n == Len(e.events)
           m == Len(s.kept)
           rest == SubSeq(e.events, b + 1, n)
           events == s.kept \o rest
           f == Struck(e, s)
<1>1. /\ s.kept \in Seq(Event) /\ s.batch \in Seq(Event) /\ e.events \in Seq(Event)
      /\ b \in Nat /\ n \in Nat /\ m \in Nat
  BY DEF Loop, Entry
<1>2. rest \in Seq(Event) /\ (b <= n => Len(rest) = n - b /\ \A i \in 1..(n - b) : rest[i] = e.events[b + i])
  <2> DEFINE q == e.events
  <2>1. q \in Seq(Event) /\ b \in Nat
    BY <1>1
  <2> HIDE DEF q, b
  <2>2. QED
    BY <2>1, RestFacts DEF q
<1> HIDE DEF rest
<1>3. /\ events \in Seq(Event) /\ Len(events) = m + Len(rest)
      /\ \A k \in 1..m : events[k] = s.kept[k]
      /\ \A i \in 1..Len(rest) : events[m + i] = rest[i]
  <2> DEFINE q == s.kept
  <2>1. q \in Seq(Event) /\ rest \in Seq(Event)
    BY <1>1, <1>2
  <2> HIDE DEF q
  <2>2. QED
    BY <2>1 DEF q
<1>4. f = [e EXCEPT !.events = events]
  BY DEF Struck, rest
<1> HIDE DEF events, f
<1>5. SameButEvents(e, f) /\ f.events = events
  BY <1>3, <1>4 DEF Entry, SameButEvents
<1>6. ASSUME NEW k \in 1..m PROVE s.kept[k] \in EventSet(f)
  <2>1. k \in 1..Len(f.events)
    BY <1>1, <1>2, <1>3, <1>5
  <2>2. QED
    BY <1>3, <1>5, <2>1 DEF EventSet
<1>7. ASSUME Prefixed(s.batch, e.events), NEW v \in EventSet(e)
      PROVE  v \in EventSet(f) \/ \E i \in 1..b : v = s.batch[i]
  <2>1. PICK i \in 1..n : v = e.events[i]
    BY DEF EventSet
  <2>2. CASE i <= b
    <3>1. i \in 1..b /\ e.events[i] = s.batch[i]
      BY <1>1, <1>7, <2>2 DEF Prefixed
    <3>2. QED
      BY <2>1, <3>1
  <2>3. CASE ~(i <= b)
    <3> DEFINE k == i - b
    <3>1. b <= n /\ k \in 1..(n - b) /\ b + k = i
      BY <1>1, <1>7, <2>3 DEF Prefixed
    <3>2. k \in 1..Len(rest) /\ rest[k] = v
      BY <1>2, <2>1, <3>1
    <3> HIDE DEF k, b, m
    <3>3. m + k \in 1..Len(events) /\ events[m + k] = v
      BY <1>1, <1>2, <1>3, <3>2
    <3>4. QED
      BY <1>5, <3>3 DEF EventSet
  <2>4. QED
    BY <2>2, <2>3
<1>8. QED
  BY <1>5, <1>6, <1>7 DEF f

LEMMA StrikeEdits ==
    ASSUME Basics, NEW l \in Loops, Strike(l)
    PROVE  /\ loop[l].step = "strike" /\ loop[l].run \in Runs
           /\ \E t : /\ Edited(l, Struck(journal[loop[l].run], loop[l]), t)
                     /\ \/ Rests(l, t)
                        \/ /\ t \in Loop /\ t.run = loop[l].run /\ t.todo = loop[l].todo
                           /\ t.generations = loop[l].generations
                           /\ t.next = loop[l].next /\ t.completed = loop[l].completed
                           /\ t.owes = loop[l].owes /\ (t.step = "result" => t.owes)
                           /\ t.step \in {"result", "remove", "chunk", "complete"}
                           /\ t.step = "chunk" => t.next < LogChunks
                           /\ t.step = "complete" => ~(t.next < LogChunks)
<1> DEFINE s == loop[l]
           r == s.run
           sent == [s EXCEPT !.batch = <<>>, !.kept = <<>>]
           f == Struck(journal[r], s)
           a == AfterEvents(l, sent)
           t == IF s.rejected \/ s.more THEN AtNext(l) ELSE a
<1>1. s \in Loop /\ s.step = "strike" /\ r \in Runs /\ TypeOK /\ up /\ s.step \in AtRun
  BY DEF Strike, Waiting, Basics, Typed, TypeOK, AtRun, Steps
<1>2. /\ sent \in Loop /\ sent.run = r /\ sent.todo = s.todo /\ sent.next = s.next
      /\ sent.generations = s.generations /\ sent.completed = s.completed
      /\ sent.unlink = s.unlink /\ sent.owes = s.owes
  <2>1. <<>> \in Seq(Event)
    OBVIOUS
  <2> DEFINE empty == <<>>
  <2> HIDE DEF empty, s
  <2>2. sent = [s EXCEPT !.batch = empty, !.kept = empty]
    BY DEF empty
  <2>3. QED
    BY <1>1, <2>1, <2>2 DEF Loop, empty
<1>3. /\ Edits(l, f, t)
      /\ GapMoves
  <2>1. Update(l, [journal EXCEPT ![r] = IF Known(r) THEN f ELSE journal[r]], t)
    BY DEF Strike
  <2>2. CASE ~Known(r)
    BY <2>1, <2>2 DEF Update, Edits, GapMoves, Strike
  <2>3. CASE Known(r)
    <3>1. Edits(l, f, t)
      BY <2>1, <2>3 DEF Update, Edits
    <3>2. GapMoves
      BY <2>3 DEF GapMoves, Strike
    <3>3. QED
      BY <3>1, <3>2
  <2>4. QED
    BY <2>2, <2>3
<1>4. Known(r) => f \in Entry /\ (f.log => journal[r].log)
  <2>1. ASSUME Known(r) PROVE f \in Entry /\ (f.log => journal[r].log)
    <3>1. journal[r] \in Entry
      BY <1>1, <2>1, KnownFacts
    <3>2. SameButEvents(journal[r], f)
      BY <1>1, <3>1, StruckFacts
    <3>3. QED
      BY <3>2 DEF SameButEvents
  <2>2. QED
    BY <2>1
<1> HIDE DEF f, sent
<1>5. \/ Rests(l, a) /\ a.unlink \subseteq s.unlink
      \/ /\ SameRun(sent, a)
         /\ a.step \in {"result", "remove", "chunk", "complete"}
         /\ a.step = "chunk" => sent.next < LogChunks
         /\ a.step = "complete" => ~(sent.next < LogChunks)
         /\ a.step = "result" => sent.owes
  BY <1>1, <1>2, AfterEventsFacts, BetweenRests DEF Rests
<1>6. Rests(l, AtNext(l))
  BY <1>1, NextFacts, BetweenRests
<1> HIDE DEF a
<1>7. \/ Rests(l, t)
      \/ /\ t \in Loop /\ t.run = r /\ t.todo = s.todo /\ t.unlink = s.unlink
         /\ t.generations = s.generations
         /\ t.next = s.next /\ t.completed = s.completed
         /\ t.owes = s.owes /\ (t.step = "result" => t.owes)
         /\ t.step \in {"result", "remove", "chunk", "complete"}
         /\ t.step = "chunk" => t.next < LogChunks
         /\ t.step = "complete" => ~(t.next < LogChunks)
  BY <1>2, <1>5, <1>6 DEF SameRun
<1> HIDE DEF t
<1>8. t \in Loop /\ (t.step \in AtRun => t.run \in Runs) /\ t.unlink \subseteq s.unlink
  BY <1>1, <1>7 DEF Rests
<1>9. Edited(l, f, t)
  BY <1>1, <1>3, <1>4, <1>8, EditFacts DEF Strike
<1>10. QED
  BY <1>1, <1>7, <1>9 DEF f

LEMMA AdvanceEdits ==
    ASSUME Basics, NEW l \in Loops, Advance(l)
    PROVE  /\ loop[l].step = "advance" /\ loop[l].run \in Runs
           /\ \E f, t : /\ Edited(l, f, t)
                        /\ Known(loop[l].run) =>
                              f = [journal[loop[l].run] EXCEPT !.next = loop[l].next + 1]
                        /\ t = [loop[l] EXCEPT !.next = loop[l].next + 1,
                                  !.step = IF loop[l].next + 1 < LogChunks
                                           THEN "chunk" ELSE "complete"]
<1> DEFINE s == loop[l]
           r == s.run
           e == journal[r]
           n == s.next + 1
           f == [e EXCEPT !.next = n]
           step == IF n < LogChunks THEN "chunk" ELSE "complete"
           t == [s EXCEPT !.next = n, !.step = step]
<1>1. s \in Loop /\ s.step = "advance" /\ r \in Runs /\ TypeOK /\ up /\ s.step \in AtRun
  BY DEF Advance, Waiting, Basics, Typed, TypeOK, AtRun, Steps
<1>2. n \in Nat /\ step \in Steps
  BY <1>1 DEF Loop, Steps
<1>3. Edits(l, f, t)
  <2>1. Update(l, [journal EXCEPT ![r] = IF Known(r) THEN f ELSE journal[r]], t)
    BY DEF Advance
  <2>2. CASE ~Known(r)
    BY <2>1, <2>2 DEF Update, Edits
  <2>3. CASE Known(r)
    BY <2>1, <2>3 DEF Update, Edits
  <2>4. QED
    BY <2>2, <2>3
<1>4. Known(r) => f \in Entry /\ (f.log => journal[r].log)
  <2>1. ASSUME Known(r) PROVE f \in Entry /\ (f.log => journal[r].log)
    <3>1. e \in Entry
      BY <1>1, <2>1, KnownFacts
    <3> HIDE DEF e, n
    <3>2. f \in Entry /\ f.log = e.log
      BY <1>2, <3>1 DEF Entry
    <3>3. QED
      BY <3>2 DEF e
  <2>2. QED
    BY <2>1
<1>5. t \in Loop /\ t.run = r /\ t.unlink = s.unlink
  <2> HIDE DEF s, n, step
  <2>1. QED
    BY <1>1, <1>2 DEF Loop
<1>6. Edited(l, f, t)
  <2> HIDE DEF f, t
  <2>1. GapMoves
    BY DEF Advance, GapMoves
  <2>2. QED
    BY <1>1, <1>3, <1>4, <1>5, <2>1, EditFacts DEF Advance
<1>7. QED
  BY <1>1, <1>6

LEMMA CompletedEdits ==
    ASSUME Basics, NEW l \in Loops, LogCompleted(l)
    PROVE  /\ loop[l].step = "completed" /\ loop[l].run \in Runs
           /\ \E f, t : /\ Edited(l, f, t)
                        /\ Known(loop[l].run) =>
                              f = [journal[loop[l].run] EXCEPT !.completed = TRUE]
                        /\ SameRun(loop[l], t) /\ t.step \in {"result", "remove"}
                        /\ t.step = "result" => loop[l].owes
<1> DEFINE s == loop[l]
           r == s.run
           e == journal[r]
           f == [e EXCEPT !.completed = TRUE]
           t == AfterLog(s)
<1>1. s \in Loop /\ s.step = "completed" /\ r \in Runs /\ TypeOK /\ up /\ s.step \in AtRun
  BY DEF LogCompleted, Waiting, Basics, Typed, TypeOK, AtRun, Steps
<1>2. SameRun(s, t) /\ t.step \in {"result", "remove"} /\ (t.step = "result" => s.owes)
  BY <1>1, AfterLogFacts
<1> HIDE DEF t
<1>3. Edits(l, f, t)
  <2>1. Update(l, [journal EXCEPT ![r] = IF Known(r) THEN f ELSE journal[r]], t)
    BY DEF LogCompleted, t
  <2>2. CASE ~Known(r)
    BY <2>1, <2>2 DEF Update, Edits
  <2>3. CASE Known(r)
    BY <2>1, <2>3 DEF Update, Edits
  <2>4. QED
    BY <2>2, <2>3
<1>4. Known(r) => f \in Entry /\ (f.log => journal[r].log)
  <2>1. ASSUME Known(r) PROVE f \in Entry /\ (f.log => journal[r].log)
    <3>1. e \in Entry
      BY <1>1, <2>1, KnownFacts
    <3> HIDE DEF e
    <3>2. f \in Entry /\ f.log = e.log
      BY <3>1 DEF Entry
    <3>3. QED
      BY <3>2 DEF e
  <2>2. QED
    BY <2>1
<1>5. t \in Loop /\ t.run = r /\ t.unlink = s.unlink
  BY <1>2 DEF SameRun
<1>6. Edited(l, f, t)
  <2> HIDE DEF f
  <2>1. GapMoves
    BY DEF LogCompleted, GapMoves
  <2>2. QED
    BY <1>1, <1>3, <1>4, <1>5, <2>1, EditFacts DEF LogCompleted
<1>7. QED
  BY <1>1, <1>2, <1>6

LEMMA ReportedEdits ==
    ASSUME Basics, ResultReported
    PROVE  /\ loop["live"].step = "reported" /\ loop["live"].run \in Runs
           /\ \E f, t : /\ Edited("live", f, t)
                        /\ Known(loop["live"].run) =>
                              f = [journal[loop["live"].run] EXCEPT !.reported = TRUE]
                        /\ SameRun(loop["live"], t) /\ t.step = "remove"
<1> DEFINE s == loop["live"]
           r == s.run
           e == journal[r]
           f == [e EXCEPT !.reported = TRUE]
           t == [s EXCEPT !.step = "remove"]
<1>1. /\ s \in Loop /\ s.step = "reported" /\ r \in Runs /\ TypeOK /\ up /\ s.step \in AtRun
      /\ "live" \in Loops
  BY DEF ResultReported, Waiting, Basics, Typed, TypeOK, AtRun, Steps, Loops
<1>2. SameRun(s, t) /\ t.step = "remove"
  BY <1>1, StepFacts DEF Steps
<1> HIDE DEF t
<1>3. Edits("live", f, t)
  <2>1. Update("live", [journal EXCEPT ![r] = IF Known(r) THEN f ELSE journal[r]], t)
    BY DEF ResultReported, t
  <2>2. CASE ~Known(r)
    BY <2>1, <2>2 DEF Update, Edits
  <2>3. CASE Known(r)
    BY <2>1, <2>3 DEF Update, Edits
  <2>4. QED
    BY <2>2, <2>3
<1>4. Known(r) => f \in Entry /\ (f.log => journal[r].log)
  <2>1. ASSUME Known(r) PROVE f \in Entry /\ (f.log => journal[r].log)
    <3>1. e \in Entry
      BY <1>1, <2>1, KnownFacts
    <3> HIDE DEF e
    <3>2. f \in Entry /\ f.log = e.log
      BY <3>1 DEF Entry
    <3>3. QED
      BY <3>2 DEF e
  <2>2. QED
    BY <2>1
<1>5. t \in Loop /\ t.run = r /\ t.unlink = s.unlink
  BY <1>2 DEF SameRun
<1>6. Edited("live", f, t)
  <2> HIDE DEF f
  <2>1. GapMoves
    BY DEF ResultReported, GapMoves
  <2>2. QED
    BY <1>1, <1>3, <1>4, <1>5, <2>1, EditFacts DEF ResultReported
<1>7. QED
  BY <1>1, <1>2, <1>6

LEMMA RemoveEdits ==
    ASSUME Basics, NEW l \in Loops, Remove(l)
    PROVE  /\ loop[l].step = "remove" /\ loop[l].run \in Runs
           /\ \/ Moves(l) /\ server' = server /\ Rests(l, loop'[l])
              \/ /\ Settled(l, loop[l].run)
                 /\ \E t : /\ Edited(l, None, t)
                           /\ t \in Loop /\ t.step = "unlink" /\ t.run = loop[l].run
                           /\ t.todo = loop[l].todo /\ t.generations = loop[l].generations
<1> DEFINE s == loop[l]
           r == s.run
           u == IF s.log THEN {r} ELSE {}
           t == [s EXCEPT !.step = "unlink", !.unlink = u]
<1>1. s \in Loop /\ s.step = "remove" /\ r \in Runs /\ TypeOK /\ up /\ s.step \in AtRun
  BY DEF Remove, Waiting, Basics, Typed, TypeOK, AtRun, Steps
<1>2. CASE ~Settled(l, r)
  <2>1. Rests(l, AtNext(l))
    BY <1>1, NextFacts, BetweenRests
  <2>2. Goto(l, AtNext(l)) /\ UNCHANGED <<journal, disk, saveFailures>>
    BY <1>2 DEF Remove
  <2>3. QED
    BY <1>1, <2>1, <2>2, RestMoves DEF Remove, runVars, Basics, Typed, TypeOK
<1>3. CASE Settled(l, r)
  <2>1. Known(r)
    BY <1>3 DEF Settled
  <2>2. Edits(l, None, t)
    BY <1>3, <2>1 DEF Remove, Update, Edits
  <2>3. u \in SUBSET Runs /\ \A q \in u : q = r
    BY <1>1
  <2> HIDE DEF u
  <2>4. /\ t \in Loop /\ t.run = r /\ t.unlink = u /\ t.step = "unlink"
        /\ t.todo = s.todo /\ t.generations = s.generations
    <3> HIDE DEF s
    <3>1. QED
      BY <1>1, <2>3 DEF Loop, Steps
  <2> HIDE DEF t
  <2>5. GapMoves
    BY DEF Remove, GapMoves
  <2>6. Edited(l, None, t)
    <3>1. \A q \in t.unlink : q = r /\ Known(q)
      BY <2>1, <2>3, <2>4
    <3>2. QED
      BY <1>1, <2>2, <2>4, <2>5, <3>1, EditFacts DEF Remove
  <2>7. QED
    BY <1>1, <1>3, <2>4, <2>6
<1>4. QED
  BY <1>2, <1>3

\* What a purge of the entries of gone leaves.
Purges(gone) ==
    /\ ReporterChanges("retired")
    /\ retired' = retired /\ server' = server /\ purged' = purged \cup gone
    /\ \A r \in Runs : journal'[r] = IF r \in gone THEN None ELSE journal[r]
    /\ loop'["retired"].step \notin AtRun
    /\ RunsOf(loop'["retired"]) \subseteq RunsOf(loop["retired"])
    /\ loop'["retired"].generations \subseteq loop["retired"].generations

LEMMA PurgeFacts ==
    ASSUME Basics, up, NEW gone \in SUBSET Runs, \A r \in gone : Known(r),
           NEW s \in Loop, s.step = "unlink",
           RunsOf(s) \subseteq RunsOf(loop["retired"]),
           s.generations \subseteq loop["retired"].generations,
           Purge(gone, s),
           UNCHANGED <<setupVars, active, logs, gapVars, server, accepted, crashes, rejections>>
    PROVE  Purges(gone)
<1> DEFINE j == [r \in Runs |-> IF r \in gone THEN None ELSE journal[r]]
           u == {r \in gone : journal[r].log}
           t == [s EXCEPT !.unlink = u]
<1>1. "retired" \in Loops /\ TypeOK /\ journal \in Journals
  BY DEF Loops, Basics, Typed, TypeOK, Journals
<1>2. j \in Journals /\ \A r \in Runs : j[r] = IF r \in gone THEN None ELSE journal[r]
  BY <1>1 DEF Journals
<1>3. /\ purged' = purged \cup gone
      /\ \/ SaveJournal(j) /\ Goto("retired", t)
         \/ SaveFails("report", j) /\ Goto("retired", IdleLoop)
  BY DEF Purge
<1> HIDE DEF j
<1>4. journal' = j /\ Saved /\ saveFailures' \in Nat /\ journal' \in Journals
  BY <1>1, <1>2, <1>3, SaveTypes
<1>5. u \in SUBSET Runs /\ u \subseteq gone
  OBVIOUS
<1> HIDE DEF u
<1>6. /\ t \in Loop /\ t.step = "unlink" /\ t.run = s.run /\ t.todo = s.todo
      /\ t.generations = s.generations /\ t.unlink = u
  BY <1>5 DEF Loop
<1> HIDE DEF t
<1>7. /\ loop' = [loop EXCEPT !["retired"] = loop'["retired"]]
      /\ \/ loop'["retired"] = t /\ disk' = journal'
         \/ loop'["retired"] = IdleLoop
  BY <1>1, <1>3 DEF Goto, TypeOK, SaveJournal
<1>8. /\ loop'["retired"] \in Loop /\ loop'["retired"].step \notin AtRun
      /\ RunsOf(loop'["retired"]) \subseteq RunsOf(loop["retired"])
      /\ loop'["retired"].generations \subseteq loop["retired"].generations
  BY <1>6, <1>7, IdleFacts DEF RunsOf
<1>9. \A q \in loop'["retired"].unlink : disk'[q] = None /\ q \in accepted
  <2>1. \A q \in gone : q \in accepted
    BY DEF Basics, Journaled, Known
  <2>2. \A q \in u : j[q] = None /\ q \in accepted
    BY <1>2, <1>5, <2>1
  <2>3. QED
    BY <1>4, <1>6, <1>7, <2>2, IdleFacts
<1>10. \A r \in Runs : journal'[r] # None => Known(r) /\ (journal'[r].log => journal[r].log)
  BY <1>2, <1>4 DEF Known
<1>11. ReporterChanges("retired")
  BY <1>3, <1>4, <1>7, <1>8, <1>9, <1>10 DEF ReporterChanges, GapMoves, Basics, Typed, TypeOK, setupVars
<1>12. QED
  BY <1>2, <1>3, <1>4, <1>8, <1>11 DEF Purges, setupVars

LEMMA ExpirePurges ==
    ASSUME Basics, ExpireRetired
    PROVE  \E gone : /\ Purges(gone)
                     /\ \A r \in gone : /\ r \in Runs /\ Known(r)
                                        /\ journal[r].generation \in loop["retired"].generations
<1> DEFINE w == loop["retired"]
           g == First(w.generations)
           rest == w.generations \ {g}
           gone == {r \in Runs : Known(r) /\ journal[r].generation = g}
           s == [IdleLoop EXCEPT !.step = "unlink", !.generations = rest]
<1>1. w \in Loop /\ w.generations \subseteq Nat /\ w.generations # {}
  BY DEF ExpireRetired, Basics, Typed, TypeOK, Loop, Loops
<1>2. g \in w.generations /\ rest \in SUBSET Nat
  BY <1>1, FirstFacts
<1>3. \A r \in gone : r \in Runs /\ Known(r) /\ journal[r].generation \in w.generations
  BY <1>2
<1>4. gone \in SUBSET Runs /\ Purge(gone, s)
  BY DEF ExpireRetired
<1>5. rest \subseteq w.generations
  OBVIOUS
<1> HIDE DEF gone, rest
<1>6. /\ s \in Loop /\ s.step = "unlink" /\ s.generations = rest /\ s.todo = {} /\ s.run = None
  BY <1>2, IdleFacts DEF Loop, Steps
<1> HIDE DEF s
<1>7. Purges(gone)
  <2>1. RunsOf(s) \subseteq RunsOf(w)
    BY <1>6 DEF RunsOf
  <2>2. QED
    BY <1>3, <1>4, <1>5, <1>6, <2>1, PurgeFacts DEF ExpireRetired
<1>8. QED
  BY <1>3, <1>7

LEMMA UnknownPurges ==
    ASSUME Basics, RetiredUnknown
    PROVE  \E gone : /\ Purges(gone)
                     /\ \A r \in gone : /\ r \in Runs /\ Known(r)
                                        /\ r \in RunsOf(loop["retired"])
<1> DEFINE w == loop["retired"]
           gone == {r \in {w.run} : Known(r)}
           s == [w EXCEPT !.step = "unlink"]
<1>1. w \in Loop /\ w.run \in Runs
  BY DEF RetiredUnknown, Basics, Typed, TypeOK, Loops, AtRun, Steps
<1>2. gone \in SUBSET Runs /\ Purge(gone, s)
  BY <1>1 DEF RetiredUnknown
<1>3. \A r \in gone : r \in Runs /\ Known(r) /\ r \in RunsOf(w)
  BY <1>1, RunAssumption DEF RunsOf
<1>4. SameRun(w, s) /\ s.step = "unlink"
  BY <1>1, StepFacts DEF Steps
<1> HIDE DEF gone, s
<1>5. Purges(gone)
  <2>1. RunsOf(s) \subseteq RunsOf(w) /\ s \in Loop /\ s.generations = w.generations
    BY <1>4 DEF RunsOf, SameRun
  <2>2. QED
    BY <1>2, <1>3, <1>4, <2>1, PurgeFacts DEF RetiredUnknown
<1>6. QED
  BY <1>3, <1>5

\* The entry a re-enrollment leaves.
Retires(e, f) ==
    /\ f \in Entry /\ f.state = "finished"
    /\ f.generation = e.generation /\ f.log = e.log /\ f.next = e.next
    /\ f.completed = e.completed
    /\ \A v \in EventSet(e) : v.kind \in TerminalKinds => v \in EventSet(f)
    /\ e.state # "finished" => HasOutcome(f)

LEMMA EventTypes ==
    ASSUME NEW e \in Entry
    PROVE  \A v \in EventSet(e) : v \in Event
BY DEF Entry, EventSet

LEMMA RetireFacts ==
    ASSUME NEW e \in Entry
    PROVE  Retires(e, Retire(e))
<1> DEFINE g == [e EXCEPT !.state = "finished"]
           ended == CASE e.state = "received" -> Append1(g, "cancelled")
                      [] e.state = "running" -> Append1(g, "unresolved")
                      [] OTHER -> e
           keep == Selected(ended.events, TerminalEvents)
           f == [ended EXCEPT !.events = keep, !.reported = TRUE]
<1>1. Retire(e) = f
  BY DEF Retire
<1>2. /\ g \in Entry /\ g.state = "finished" /\ g.generation = e.generation
      /\ g.log = e.log /\ g.next = e.next /\ g.completed = e.completed
      /\ g.events = e.events
  BY DEF Entry
<1> HIDE DEF g
<1>3. /\ ended \in Entry /\ ended.state = "finished" /\ ended.generation = e.generation
      /\ ended.log = e.log /\ ended.next = e.next /\ ended.completed = e.completed
      /\ EventSet(e) \subseteq EventSet(ended)
      /\ e.state # "finished" => HasOutcome(ended)
  <2>1. e.state \in {"received", "running", "finished"}
    BY DEF Entry
  <2>2. ASSUME NEW kind \in {"cancelled", "unresolved"}, ended = Append1(g, kind)
        PROVE  <1>3
    <3> DEFINE h == Append1(g, kind)
    <3>1. Extends(g, h) /\ \E v \in EventSet(h) : v.kind = kind
      BY <1>2, Append1Facts DEF Kinds, Outcomes
    <3> HIDE DEF h
    <3>2. HasOutcome(h)
      BY <3>1 DEF HasOutcome, Outcomes
    <3>3. EventSet(g) \subseteq EventSet(h) /\ EventSet(g) = EventSet(e)
      <4>1. h \in Entry /\ Prefixed(g.events, h.events)
        BY <3>1 DEF Extends
      <4>2. EventSet(g) \subseteq EventSet(h)
        BY <1>2, <4>1, PrefixedEvents
      <4>3. EventSet(g) = EventSet(e)
        BY <1>2 DEF EventSet
      <4> QED
        BY <4>2, <4>3
    <3>4. ended = h
      BY <2>2 DEF h
    <3> HIDE DEF ended
    <3>5. QED
      BY <1>2, <3>1, <3>2, <3>3, <3>4 DEF Extends
  <2>3. CASE e.state = "received"
    BY <2>2, <2>3
  <2>4. CASE e.state = "running"
    BY <2>2, <2>4
  <2>5. CASE e.state = "finished"
    BY <2>5
  <2>6. QED
    BY <2>1, <2>3, <2>4, <2>5
<1> HIDE DEF ended
<1>4. ended.events \in Seq(Event)
  BY <1>3 DEF Entry
<1>5. /\ keep \in Seq(Event)
      /\ \A i \in 1..Len(ended.events) : ended.events[i] \in TerminalEvents =>
            \E k \in 1..Len(keep) : keep[k] = ended.events[i]
  <2> DEFINE events == ended.events
  <2>1. events \in Seq(Event)
    BY <1>4
  <2> HIDE DEF events
  <2>2. QED
    BY <2>1, SelectedFacts DEF events
<1> HIDE DEF keep
<1>6. /\ f \in Entry /\ f.state = ended.state /\ f.generation = ended.generation
      /\ f.log = ended.log /\ f.next = ended.next /\ f.completed = ended.completed
      /\ f.events = keep
  BY <1>3, <1>5 DEF Entry
<1> HIDE DEF f
<1>7. ASSUME NEW v \in EventSet(ended), v.kind \in TerminalKinds
      PROVE  v \in EventSet(f)
  <2>1. v \in TerminalEvents
    BY <1>3, <1>7, EventTypes DEF Event, TerminalEvents
  <2>2. QED
    BY <1>5, <1>6, <2>1 DEF EventSet
<1>8. HasOutcome(ended) => HasOutcome(f)
  BY <1>7 DEF HasOutcome, TerminalKinds
<1>9. Retires(e, f)
  BY <1>3, <1>6, <1>7, <1>8 DEF Retires
<1>10. QED
  BY <1>1, <1>9

\* The heartbeat: everything else stays.
LEMMA HeartbeatFacts ==
    ASSUME Basics, HeartbeatStep
    PROVE  /\ Basics'
           /\ UNCHANGED <<setupVars, runVars, loop, server, accepted, purged, bounds>>
<1>1. /\ UNCHANGED <<setupVars, runVars, loop, server, accepted, purged, bounds>> /\ up
  BY DEF HeartbeatStep, SendGap, GapAnswered, HeartbeatFails, AcknowledgeGap
<1>2. /\ beat \in Beat /\ gap \in [memory : Gap, disk : Gap] /\ untold \in BOOLEAN
      /\ gap.memory \in Gap /\ gap.memory.version \in Nat
  BY DEF Basics, Typed, TypeOK, Gap
<1>3. IdleBeat \in Beat /\ IdleBeat.step = "idle"
  BY DEF IdleBeat, Beat
<1>4. /\ GapTold'
      /\ gap' \in [memory : Gap, disk : Gap] /\ beat' \in Beat /\ untold' \in BOOLEAN
  <2>1. CASE SendGap
    BY <1>2, <2>1 DEF SendGap, Beat, GapTold, GapStaysMarked, Basics
  <2>2. CASE GapAnswered
    <3>1. /\ beat' \in Beat /\ beat'.step = "answered" /\ beat'.version = beat.version
          /\ beat'.covers = beat.covers /\ beat.step = "sent" /\ gap' = gap
      BY <1>2, <2>2 DEF GapAnswered, Beat
    <3>2. untold' = (untold /\ ~beat.covers) /\ untold' \in BOOLEAN
      BY <2>2 DEF GapAnswered
    <3>3. beat.covers \in BOOLEAN
      BY <1>2 DEF Beat
    <3>4. /\ beat'.step # "idle" => beat'.version <= gap'.memory.version
          /\ beat'.step # "idle" /\ beat'.version = gap'.memory.version => beat'.covers
      BY <3>1 DEF Basics, GapTold
    <3>5. /\ beat'.step = "answered" /\ beat'.covers => ~untold'
          /\ untold' => gap'.memory.detected
      <4>1. untold => gap.memory.detected
        BY DEF Basics, GapTold, GapStaysMarked
      <4>2. QED
        BY <3>1, <3>2, <4>1, Zenon
    <3>6. QED
      BY <1>2, <3>1, <3>2, <3>4, <3>5 DEF GapTold, GapStaysMarked
  <2>3. CASE HeartbeatFails
    BY <1>2, <1>3, <2>3 DEF HeartbeatFails, GapTold, GapStaysMarked, Basics
  <2>4. CASE AcknowledgeGap
    <3>1. beat' = IdleBeat /\ untold' = untold /\ gap' = AcknowledgedGap /\ beat.step = "answered"
      BY <2>4 DEF AcknowledgeGap
    <3>2. CASE gap.memory.detected /\ gap.memory.version = beat.version
      <4> DEFINE told == [gap.memory EXCEPT !.detected = FALSE]
      <4>1. told \in Gap
        BY <1>2 DEF Gap
      <4>2. gap' = [memory |-> told, disk |-> told]
        BY <3>1, <3>2 DEF AcknowledgedGap
      <4> HIDE DEF told
      <4>3. ~untold
        BY <3>1, <3>2 DEF Basics, GapTold
      <4>4. QED
        BY <1>2, <1>3, <3>1, <4>1, <4>2, <4>3 DEF GapTold, GapStaysMarked
    <3>3. CASE ~(gap.memory.detected /\ gap.memory.version = beat.version)
      BY <1>2, <1>3, <3>1, <3>3 DEF AcknowledgedGap, GapTold, GapStaysMarked, Basics
    <3>4. QED
      BY <3>2, <3>3
  <2>5. QED
    BY <2>1, <2>2, <2>3, <2>4 DEF HeartbeatStep
<1>5. Typed'
  BY <1>1, <1>4 DEF Basics, Typed, TypeOK, setupVars, runVars, bounds
<1>6. Quiet'
  BY <1>1 DEF Basics, Quiet, setupVars
<1>7. Journaled' /\ Files'
  BY <1>1 DEF Basics, Journaled, Files, Entries, runVars
<1>8. QED
  BY <1>1, <1>4, <1>5, <1>6, <1>7 DEF Basics

\* The daemon goes down.
LEMMA DownBasics ==
    ASSUME Basics, Down, setup' \in Setups,
           UNCHANGED <<generation, retired, disk, logs, server, accepted, purged,
                       saveFailures, rejections>>,
           crashes' \in Nat
    PROVE  Basics'
<1>1. IdleBeat \in Beat /\ IdleBeat.step = "idle"
  BY DEF IdleBeat, Beat
<1>2. loop' \in [Loops -> Loop] /\ \A l \in Loops : loop'[l] = IdleLoop
  BY IdleFacts DEF Down
<1>3. gap \in [memory : Gap, disk : Gap] /\ untold \in BOOLEAN
  BY DEF Basics, Typed, TypeOK
<1>4. /\ gap' \in [memory : Gap, disk : Gap] /\ gap'.memory = gap.disk
  BY <1>3 DEF Down
<1>5. untold' \in BOOLEAN /\ (untold' => gap'.memory.detected)
  BY <1>4 DEF Down
<1>6. GapTold'
  BY <1>1, <1>5 DEF Down, GapTold, GapStaysMarked
<1>7. Typed'
  BY <1>1, <1>2, <1>4, <1>5, IdleFacts DEF Down, Basics, Typed, TypeOK
<1>8. Quiet'
  BY <1>2 DEF Down, Quiet
<1>9. Journaled' /\ Files'
  BY <1>2, IdleFacts DEF Down, Basics, Journaled, Files, Entries
<1>10. QED
  BY <1>6, <1>7, <1>8, <1>9 DEF Basics

LEMMA StopBasics ==
    ASSUME Basics, Stop \/ BeginSetup
    PROVE  Basics'
<1>1. setup' \in Setups /\ crashes' \in Nat
  BY DEF Stop, BeginSetup, Setups, bounds, Basics, Typed, TypeOK
<1>2. QED
  BY <1>1, DownBasics DEF Stop, BeginSetup, bounds

LEMMA RunBasicsStep ==
    ASSUME Basics, Run
    PROVE  Basics'
<1>1. UNCHANGED <<generation, setup, retired, runVars, loop, gapVars, server,
                  accepted, purged, bounds>> /\ up' = TRUE
      /\ setup \notin {"stopped", "settled", "enrolling"}
  BY DEF Run
<1>2. Typed' /\ GapTold'
  BY <1>1 DEF Basics, Typed, TypeOK, GapTold, GapStaysMarked, runVars, gapVars, bounds
<1>3. Quiet'
  BY <1>1 DEF Quiet
<1>4. Journaled' /\ Files'
  BY <1>1 DEF Basics, Journaled, Files, Entries, runVars
<1>5. QED
  BY <1>2, <1>3, <1>4 DEF Basics

\* What a re-enrollment makes of the journal.
LEMMA SettleFacts ==
    ASSUME Basics, SettleJournal
    PROVE  /\ ~up /\ journal = disk /\ journal' = disk' /\ disk' \in Journals
           /\ \A r \in Runs :
                 \/ disk'[r] = disk[r]
                      /\ (disk[r] # None => disk[r] \in Entry /\ disk[r].generation # generation)
                 \/ /\ disk[r] # None /\ disk[r] \in Entry /\ disk[r].generation = generation
                    /\ disk'[r] # None /\ Retires(disk[r], disk'[r])
           /\ setup = "stopped" /\ setup' = "settled"
<1>1. ~up /\ journal = disk /\ setup = "stopped" /\ setup' = "settled"
  BY DEF SettleJournal, Basics, Quiet
<1>2. disk \in Journals
  BY DEF Basics, Typed, TypeOK, Journals
<1>3. ASSUME NEW r \in Runs
      PROVE  /\ \/ disk'[r] = disk[r]
                     /\ (disk[r] # None => disk[r] \in Entry /\ disk[r].generation # generation)
                \/ /\ disk[r] # None /\ disk[r] \in Entry /\ disk[r].generation = generation
                   /\ disk'[r] # None /\ Retires(disk[r], disk'[r])
             /\ disk'[r] \in Entry \cup {None}
  <2>1. disk[r] = None \/ disk[r] \in Entry
    BY <1>2 DEF Journals
  <2>2. CASE disk[r] # None /\ disk[r].generation = generation
    <3>1. disk'[r] = Retire(disk[r]) /\ disk[r] \in Entry
      BY <2>1, <2>2 DEF SettleJournal
    <3>2. Retires(disk[r], disk'[r])
      BY <3>1, RetireFacts
    <3>3. disk'[r] \in Entry
      BY <3>2 DEF Retires
    <3>4. QED
      BY <2>2, <3>1, <3>2, <3>3, EntryAssumption
  <2>3. CASE ~(disk[r] # None /\ disk[r].generation = generation)
    <3>1. disk'[r] = disk[r]
      BY <2>3 DEF SettleJournal
    <3>2. QED
      BY <2>1, <2>3, <3>1
  <2>4. QED
    BY <2>2, <2>3
<1>4. disk' \in Journals
  <2>1. disk' = [r \in Runs |-> disk'[r]]
    BY DEF SettleJournal
  <2>2. QED
    BY <1>3, <2>1 DEF Journals
<1>5. QED
  BY <1>1, <1>3, <1>4 DEF SettleJournal

LEMMA SettleBasics ==
    ASSUME Basics, SettleJournal
    PROVE  Basics'
<1>1. /\ ~up /\ journal = disk /\ journal' = disk' /\ disk' \in Journals
      /\ setup = "stopped" /\ setup' = "settled"
      /\ \A r \in Runs :
            \/ disk'[r] = disk[r]
            \/ disk[r] # None /\ disk'[r] # None /\ Retires(disk[r], disk'[r])
  BY SettleFacts
<1>2. UNCHANGED <<generation, up, retired, active, logs, loop, gapVars, server, accepted,
                  purged, bounds>>
  BY DEF SettleJournal
<1>3. Typed' /\ GapTold'
  BY <1>1, <1>2 DEF Basics, Typed, TypeOK, GapTold, GapStaysMarked, Journals, gapVars, bounds, Setups
<1>4. Quiet'
  BY <1>1, <1>2 DEF Basics, Quiet, gapVars
<1>5. Journaled'
  BY <1>1, <1>2 DEF Basics, Journaled
<1>6. ASSUME NEW r \in Runs, NEW e \in Entries(r)', e.log
      PROVE  r \in logs'
  <2>1. e = disk'[r] /\ disk'[r] # None
    BY <1>1 DEF Entries
  <2>2. disk[r] # None /\ disk[r].log
    BY <1>1, <1>6, <2>1 DEF Retires
  <2>3. QED
    BY <1>2, <2>2 DEF Basics, Files, Entries
<1>7. ASSUME NEW l \in Loops, NEW r \in loop'[l].unlink
      PROVE  disk'[r] = None /\ r \in accepted'
  <2>1. loop'[l] = IdleLoop
    BY <1>1, <1>2 DEF Basics, Quiet
  <2>2. QED
    BY <2>1, IdleFacts
<1>8. Files'
  BY <1>6, <1>7 DEF Files
<1>9. QED
  BY <1>3, <1>4, <1>5, <1>8 DEF Basics

LEMMA SetupBasics ==
    ASSUME Basics, SetupStep
    PROVE  Basics'
<1>1. CASE BeginSetup
  BY <1>1, StopBasics
<1>2. CASE SettleJournal
  BY <1>2, SettleBasics
<1>3. ASSUME RetireEnrollment \/ EnrollSucceeds \/ SetupFails
      PROVE  Basics'
  <2>1. /\ UNCHANGED <<up, runVars, loop, server, accepted, purged, bounds, beat>>
        /\ ~up
    <3>1. setup \in {"stopped", "settled", "enrolling"}
      BY <1>3 DEF RetireEnrollment, EnrollSucceeds, SetupFails
    <3>2. UNCHANGED <<up, runVars, loop, server, accepted, purged, bounds, beat>>
      BY <1>3 DEF RetireEnrollment, EnrollSucceeds, SetupFails, gapVars
    <3>3. QED
      BY <3>1, <3>2 DEF Basics, Quiet
  <2>2. setup' \in Setups /\ generation' \in Nat /\ retired' \in SUBSET Nat
    <3>1. generation \in Nat /\ retired \in SUBSET Nat
      BY DEF Basics, Typed, TypeOK
    <3>2. CASE RetireEnrollment
      BY <3>1, <3>2 DEF RetireEnrollment, Setups
    <3>3. CASE EnrollSucceeds
      BY <3>1, <3>3 DEF EnrollSucceeds, Setups
    <3>4. CASE SetupFails
      BY <3>1, <3>4 DEF SetupFails, Setups
    <3>5. QED
      BY <1>3, <3>2, <3>3, <3>4
  <2>3. /\ gap' \in [memory : Gap, disk : Gap] /\ untold' \in BOOLEAN /\ GapStaysMarked'
    <3>1. CASE UNCHANGED <<gap, untold>>
      BY <3>1 DEF Basics, Typed, TypeOK, GapTold, GapStaysMarked
    <3>2. CASE EnrollSucceeds
      BY <3>2 DEF EnrollSucceeds, NoGap, Gap, GapStaysMarked
    <3>3. QED
      BY <1>3, <3>1, <3>2 DEF RetireEnrollment, SetupFails, gapVars
  <2>4. beat'.step = "idle"
    BY <2>1 DEF Basics, Quiet, IdleBeat
  <2>5. GapTold'
    BY <2>3, <2>4 DEF GapTold
  <2>6. Typed'
    BY <2>1, <2>2, <2>3 DEF Basics, Typed, TypeOK, runVars, bounds
  <2>7. Quiet'
    BY <2>1 DEF Basics, Quiet, runVars
  <2>8. Journaled' /\ Files'
    BY <2>1 DEF Basics, Journaled, Files, Entries, runVars
  <2>9. QED
    BY <2>5, <2>6, <2>7, <2>8 DEF Basics
<1>4. QED
  BY <1>1, <1>2, <1>3 DEF SetupStep

-----------------------------------------------------------------------------
(* The basics hold *)

LEMMA RunStepBasics ==
    ASSUME Basics, NEW r \in Runs, RunStep(r)
    PROVE  Basics'
<1>1. RunChanges(r)
  BY AcceptChanges, StartChanges, CancelChanges, ProgressChanges, FinishChanges,
     ReconcileChanges, CopyChanges DEF RunStep
<1>2. QED
  BY <1>1, RunBasics

LEMMA LoopStepBasics ==
    ASSUME Basics, NEW l \in Loops, LoopStep(l)
    PROVE  Basics'
<1>1. ReporterChanges(l)
  <2>1. CASE EndOfPass(l)
    BY <2>1, EndOfPassMoves DEF Moves
  <2>2. CASE Take(l)
    BY <2>2, TakeMoves DEF Moves
  <2>3. CASE RequestFails(l)
    BY <2>3, RequestFailsMoves DEF Moves
  <2>4. CASE AnswerLost(l)
    BY <2>4, LostMoves DEF Moves
  <2>5. CASE Answered(l)
    BY <2>5, AnsweredMoves DEF Moves
  <2>6. CASE Rejected(l)
    BY <2>6, RejectedMoves DEF Moves
  <2>7. CASE Strike(l)
    BY <2>7, StrikeEdits DEF Edited
  <2>8. CASE Advance(l)
    BY <2>8, AdvanceEdits DEF Edited
  <2>9. CASE LogCompleted(l)
    BY <2>9, CompletedEdits DEF Edited
  <2>10. CASE Remove(l)
    BY <2>10, RemoveEdits DEF Edited, Moves
  <2>11. CASE Unlink(l)
    BY <2>11, UnlinkMoves DEF Moves
  <2>12. QED
    BY <2>1, <2>2, <2>3, <2>4, <2>5, <2>6, <2>7, <2>8, <2>9, <2>10, <2>11 DEF LoopStep
<1>2. QED
  BY <1>1, ReporterBasics

LEMMA RetiredStepBasics ==
    ASSUME Basics, RetiredStep
    PROVE  Basics'
<1>1. ReporterChanges("retired")
  BY LoadMoves, CollectMoves, ForgetMoves, ExpirePurges, UnknownPurges
  DEF RetiredStep, Moves, Purges
<1>2. QED
  BY <1>1, ReporterBasics DEF Loops

LEMMA BasicsInit ==
    ASSUME Init
    PROVE  Basics
<1>1. Typed
  <2>1. NoGap \in Gap /\ IdleBeat \in Beat
    BY DEF NoGap, Gap, IdleBeat, Beat
  <2>2. server \in Server
    BY DEF Init, Server
  <2>3. loop \in [Loops -> Loop] /\ \A l \in Loops : loop[l] = IdleLoop
    BY IdleFacts DEF Init
  <2>4. QED
    BY <2>1, <2>2, <2>3, IdleFacts DEF Init, Typed, TypeOK, Setups
<1>2. Quiet /\ GapTold /\ Journaled
  BY DEF Init, Quiet, GapTold, GapStaysMarked, Journaled, IdleBeat
<1>3. Files
  BY IdleFacts DEF Init, Files, Entries
<1>4. QED
  BY <1>1, <1>2, <1>3 DEF Basics

LEMMA BasicsNext ==
    ASSUME Basics, [Next]_vars
    PROVE  Basics'
<1>1. CASE \E r \in Runs : RunStep(r)
  BY <1>1, RunStepBasics
<1>2. CASE \E l \in Loops : LoopStep(l)
  BY <1>2, LoopStepBasics
<1>3. CASE FlushJournal
  BY <1>3, FlushMoves, ReporterBasics DEF Moves, Loops
<1>4. CASE ResultReported
  BY <1>4, ReportedEdits, ReporterBasics DEF Edited, Loops
<1>5. CASE RetiredStep
  BY <1>5, RetiredStepBasics
<1>6. CASE HeartbeatStep
  BY <1>6, HeartbeatFacts
<1>7. CASE SetupStep
  BY <1>7, SetupBasics
<1>8. CASE Stop
  BY <1>8, StopBasics
<1>9. CASE Run
  BY <1>9, RunBasicsStep
<1>10. CASE UNCHANGED vars
  BY <1>10 DEF vars, Basics, Typed, TypeOK, Quiet, GapTold, GapStaysMarked, Journaled, Files,
     Entries
<1>11. QED
  BY <1>1, <1>2, <1>3, <1>4, <1>5, <1>6, <1>7, <1>8, <1>9, <1>10 DEF Next

LEMMA BasicsAlways == Spec => []Basics
<1>1. Init => Basics
  BY BasicsInit
<1>2. Basics /\ [Next]_vars => Basics'
  BY BasicsNext
<1>3. QED
  BY <1>1, <1>2, PTL DEF Spec

\* The journal, what the two reporters carry between their critical sections and
\* what the control plane has are well formed, through every failed save, stop
\* and re-enrollment.
THEOREM ReportingTypeCorrect == Spec => []TypeOK
<1>1. Basics => TypeOK
  BY DEF Basics, Typed
<1>2. QED
  BY <1>1, BasicsAlways, PTL

\* sendHeartbeat acknowledges the gap whose version it read: however flushCommand
\* and finishOperation mark gaps meanwhile, and whichever of their saves fail, a
\* gap that no accepted heartbeat reported is still marked.
THEOREM GapMarked == Spec => []GapStaysMarked
<1>1. Basics => GapStaysMarked
  BY DEF Basics, GapTold
<1>2. QED
  BY <1>1, BasicsAlways, PTL

\* WriteRunLog precedes the entry and RemoveRunLog follows its removal, for both
\* reporters and the purges: no saved entry is without the file it refers to.
THEOREM FileKept == Spec => []LogFileKept
<1>1. Basics => LogFileKept
  BY DEF Basics, Files, Entries, LogFileKept
<1>2. QED
  BY <1>1, BasicsAlways, PTL

-----------------------------------------------------------------------------
(* What a step keeps of the rest of the invariant *)

\* What was uploaded stays uploaded.
LEMMA UploadedKept ==
    ASSUME ServerGrows, NEW r \in Runs, NEW next, NEW completed,
           Uploaded(r, next, completed)
    PROVE  Uploaded(r, next, completed)'
BY DEF Uploaded, ServerGrows

\* An entry that is sound stays so while the control plane only learns.
LEMMA SoundKept ==
    ASSUME ServerGrows, generation' = generation, setup' = setup,
           NEW r \in Runs, NEW e, Sound(r, e)
    PROVE  Sound(r, e)'
<1>1. OutcomesOf(r) \subseteq OutcomesOf(r)'
  BY DEF OutcomesOf, ServerGrows
<1>2. Uploaded(r, e.next, e.completed)'
  BY UploadedKept DEF Sound
<1>3. r \in server.results => r \in server'.results
  BY DEF ServerGrows
<1>4. OutcomesOf(r) # {} => OutcomesOf(r)' # {}
  BY <1>1
<1>5. QED
  BY <1>2, <1>3, <1>4 DEF Sound, HasOutcome, EventSet

LEMMA AllSoundKept ==
    ASSUME AllSound, Saved, ServerGrows, generation' = generation, setup' = setup,
           \A r \in Runs : journal'[r] # None =>
              journal'[r] = journal[r] \/ Sound(r, journal[r])'
    PROVE  AllSound'
<1> SUFFICES ASSUME NEW r \in Runs, NEW e \in Entries(r)'
             PROVE  Sound(r, e)'
  BY DEF AllSound
<1>1. CASE e \in Entries(r)
  BY <1>1, SoundKept DEF AllSound
<1>2. CASE e = journal'[r] /\ journal'[r] # None
  <2>1. CASE journal'[r] = journal[r]
    <3>1. e \in Entries(r)
      BY <1>2, <2>1 DEF Entries
    <3>2. QED
      BY <3>1, SoundKept DEF AllSound
  <2>2. CASE Sound(r, journal[r])'
    BY <1>2, <2>2
  <2>3. QED
    BY <1>2, <2>1, <2>2
<1>3. QED
  BY <1>1, <1>2, SavedEntries

\* Memory and disk agree after a save; otherwise only what changed matters.
LEMMA AllPairedKept ==
    ASSUME AllPaired, Saved, ServerGrows, generation' = generation,
           purged \subseteq purged',
           \A r \in Runs : disk' = disk /\ disk[r] # None =>
              journal'[r] = journal[r] \/ Paired(r)'
    PROVE  AllPaired'
<1> SUFFICES ASSUME NEW r \in Runs, disk'[r] # None
             PROVE  Paired(r)'
  BY DEF AllPaired
<1>1. CASE disk' = journal'
  <2>1. journal'[r] # None /\ disk'[r] = journal'[r]
    BY <1>1
  <2>2. QED
    BY <2>1 DEF Paired, EventSet
<1>2. CASE disk' = disk /\ journal'[r] = journal[r]
  <2>1. Paired(r) /\ disk'[r] = disk[r] /\ disk[r] # None
    BY <1>2 DEF AllPaired
  <2>2. \A v : <<r, v>> \in server.events => <<r, v>> \in server'.events
    BY DEF ServerGrows
  <2>3. AllReported(r) => AllReported(r)'
    <3>1. OutcomesOf(r) \subseteq OutcomesOf(r)'
      BY DEF OutcomesOf, ServerGrows
    <3>2. OutcomesOf(r) # {} => OutcomesOf(r)' # {}
      BY <3>1
    <3>3. QED
      BY <2>1, <3>2 DEF AllReported, ServerGrows
  <2>4. r \notin purged' => r \notin purged
    OBVIOUS
  <2>5. EventSet(disk'[r]) = EventSet(disk[r]) /\ EventSet(journal'[r]) = EventSet(journal[r])
    BY <1>2, <2>1
  <2>6. QED
    BY <1>2, <2>1, <2>2, <2>3, <2>4, <2>5 DEF Paired
<1>3. CASE disk' = disk /\ journal'[r] # journal[r]
  BY <1>3
<1>4. QED
  BY <1>1, <1>2, <1>3 DEF Saved

\* What a step may do to an entry while a reporter has its run at hand.
Keeps(r) ==
    journal'[r] # None =>
       /\ Known(r)
       /\ journal'[r].generation = journal[r].generation
       /\ journal'[r].next = journal[r].next
       /\ journal[r].state = "finished" => journal'[r].state = "finished"
       /\ Prefixed(journal[r].events, journal'[r].events)

LEMMA AtHandKept ==
    ASSUME Basics, Basics', ServerGrows, generation' = generation,
           accepted \subseteq accepted',
           NEW l \in Loops, NEW s \in Loop, s.step \in AtRun => s.run \in Runs,
           AtHand(l, s), \A r \in RunsOf(s) : Keeps(r)
    PROVE  AtHand(l, s)'
<1>1. Apart(l, s)'
  BY DEF AtHand, Apart, Keeps, Known
<1>2. s.step \in AtRun => s.run \in RunsOf(s)
  BY RunAssumption DEF RunsOf
<1>3. Pending(s)'
  <2> SUFFICES ASSUME s.step \in {"events", "strike"}, journal'[s.run] # None
               PROVE  Prefixed(s.batch, journal'[s.run].events)
    BY DEF Pending, Known
  <2> DEFINE r == s.run
             a == s.batch
             b == journal[r].events
             c == journal'[r].events
  <2>1. s.step \in AtRun
    BY DEF AtRun, Steps
  <2>2. Known(r) /\ Prefixed(b, c) /\ r \in Runs
    BY <1>2, <2>1 DEF Keeps
  <2>3. Prefixed(a, b)
    BY <2>2 DEF AtHand, Pending
  <2>4. journal[r] \in Entry /\ journal'[r] \in Entry
    BY <2>2 DEF Basics, Typed, TypeOK, Known
  <2>5. a \in Seq(Event) /\ b \in Seq(Event) /\ c \in Seq(Event)
    BY <2>4 DEF Entry, Loop
  <2> HIDE DEF a, b, c
  <2>6. Len(a) \in Nat /\ Len(b) \in Nat /\ Len(c) \in Nat
    BY <2>5
  <2>7. Prefixed(a, c)
    BY <2>2, <2>3, <2>6 DEF Prefixed
  <2>8. QED
    BY <2>7 DEF a, c
<1>4. Sent(s)'
  BY DEF AtHand, Sent, ServerGrows
<1>5. Uploading(l, s)'
  <2>1. s.step \in AtRun => Uploaded(s.run, s.next, s.completed)'
    BY UploadedKept DEF AtHand, Uploading
  <2>2. s.step \in AtRun /\ l = "live" /\ journal'[s.run] # None
          => journal'[s.run].next = s.next
    BY <1>2 DEF AtHand, Uploading, Keeps
  <2>3. /\ s.step \in {"chunk", "advance"} => s.next < LogChunks
        /\ s.step \in {"complete", "completed"} => s.next = LogChunks
        /\ s.step = "completed" => <<s.run, LogChunks>> \in server'.complete
        /\ s.step = "reported" => s.run \in server'.results
        /\ s.step \in {"result", "reported"} => s.owes
    BY DEF AtHand, Uploading, ServerGrows
  <2>4. s.step = "advance" => s.next \in server'.chunks[s.run]
    <3>1. "advance" \in AtRun
      BY DEF AtRun, Steps
    <3>2. QED
      BY <3>1 DEF AtHand, Uploading, ServerGrows
  <2>5. s.step \in AtRun /\ s.owes /\ journal'[s.run] # None
          => journal'[s.run].state = "finished"
    BY <1>2 DEF AtHand, Uploading, Keeps
  <2>6. QED
    BY <2>1, <2>2, <2>3, <2>4, <2>5 DEF Uploading, Known
<1>6. QED
  BY <1>1, <1>3, <1>4, <1>5 DEF AtHand

\* The control plane is not involved.
LEMMA SameServer ==
    ASSUME Basics, server' = server
    PROVE  ServerGrows
BY DEF Basics, Typed, TypeOK, ServerGrows

LEMMA SameKeeps ==
    ASSUME Basics, NEW q \in Runs, journal'[q] = journal[q] \/ journal'[q] = None
    PROVE  Keeps(q)
<1> SUFFICES ASSUME journal'[q] = journal[q], Known(q)
             PROVE  Prefixed(journal[q].events, journal'[q].events)
  BY DEF Keeps, Known
<1>1. journal[q] \in Entry
  BY KnownFacts
<1>2. journal[q].events \in Seq(Event)
  BY <1>1 DEF Entry
<1>3. QED
  BY <1>2 DEF Prefixed

LEMMA LoopTypes ==
    ASSUME Basics, NEW l \in Loops
    PROVE  /\ loop[l] \in Loop /\ (loop[l].step \in AtRun => loop[l].run \in Runs)
           /\ RunsOf(loop[l]) \subseteq Runs
BY DEF Basics, Typed, TypeOK, Loop, RunsOf

\* A step of the run r.
LEMMA RunInv ==
    ASSUME Inv, NEW r \in Runs, RunChanges(r), Running',
           \/ journal' = journal
           \/ /\ Sound(r, journal[r])'
              /\ disk' = disk /\ disk[r] # None => Paired(r)'
              /\ r \in accepted => Keeps(r)
    PROVE  Inv'
<1>1. Basics /\ Basics'
  BY RunBasics DEF Inv
<1>2. /\ generation' = generation /\ setup' = setup /\ server' = server /\ up' = up
      /\ retired' = retired /\ purged' = purged /\ loop' = loop /\ Saved
      /\ accepted \subseteq accepted'
  BY DEF RunChanges, setupVars
<1>3. ServerGrows
  BY <1>1, <1>2, SameServer
<1>4. \A q \in Runs : q # r => journal'[q] = journal[q]
  BY <1>1 DEF RunChanges, Basics, Typed, TypeOK
<1>5. AllSound'
  <2>1. \A q \in Runs : journal'[q] # None =>
           journal'[q] = journal[q] \/ Sound(q, journal[q])'
    BY <1>4
  <2>2. QED
    BY <1>2, <1>3, <2>1, AllSoundKept DEF Inv
<1>6. AllPaired'
  <2>1. \A q \in Runs : disk' = disk /\ disk[q] # None =>
           journal'[q] = journal[q] \/ Paired(q)'
    BY <1>4
  <2>2. QED
    BY <1>2, <1>3, <2>1, AllPairedKept DEF Inv
<1>7. ASSUME NEW l \in Loops PROVE AtHand(l, loop[l])'
  <2>1. AtHand(l, loop[l]) /\ loop'[l] = loop[l]
    BY <1>2 DEF Inv, Reporters
  <2>2. \A q \in RunsOf(loop[l]) : q \in Runs /\ q \in accepted
    BY <1>1, <2>1, LoopTypes DEF AtHand, Apart
  <2>3. \A q \in RunsOf(loop[l]) : Keeps(q)
    BY <1>1, <1>4, <2>2, SameKeeps
  <2>4. PICK s : s = loop[l]
    OBVIOUS
  <2>5. s \in Loop /\ (s.step \in AtRun => s.run \in Runs)
    BY <1>1, <2>4, LoopTypes
  <2>6. AtHand(l, s) /\ loop'[l] = s /\ \A q \in RunsOf(s) : Keeps(q)
    BY <2>1, <2>3, <2>4
  <2>7. AtHand(l, s)'
    BY <1>1, <1>2, <1>3, <2>5, <2>6, AtHandKept
  <2>8. QED
    BY <2>6, <2>7
<1>8. Reporters'
  BY <1>7 DEF Reporters
<1>9. Generations' /\ ServerLogs'
  BY <1>2 DEF Inv, Generations, ServerLogs, LogWhole
<1>10. QED
  BY <1>1, <1>5, <1>6, <1>8, <1>9 DEF Inv

\* The entry of a run or a copy that goes on.
LEMMA GrowsInv ==
    ASSUME Inv, NEW r \in Runs, RunChanges(r), Running', Known(r),
           Grows(r, journal[r], journal'[r])
    PROVE  Inv'
<1>1. PICK e, f : e = journal[r] /\ f = journal'[r]
  OBVIOUS
<1>2. Basics /\ e \in Entry /\ f \in Entry /\ Grows(r, e, f) /\ e \in Entries(r) /\ e # None
  BY <1>1, KnownFacts DEF Inv, Grows, Known
<1>3. Sound(r, e)
  BY <1>2 DEF Inv, AllSound
<1>4. EventSet(e) \subseteq EventSet(f)
  BY <1>2, PrefixedEvents DEF Grows
<1>5. /\ generation' = generation /\ setup' = setup /\ server' = server /\ purged' = purged
  BY DEF RunChanges, setupVars
<1>6. ServerGrows
  BY <1>2, <1>5, SameServer
<1>7. Sound(r, e)'
  BY <1>3, <1>5, <1>6, SoundKept
<1>8. Sound(r, f)'
  <2>1. e.generation \in Nat /\ f.generation = e.generation /\ f.next = e.next
    BY <1>2 DEF Grows, Entry
  <2>2. /\ e.state = "finished" => f.state = "finished"
        /\ f.reported => e.reported \/ (f.state = "finished" /\ r \in Scheduled)
        /\ f.log => e.log \/ f.state = "finished"
        /\ f.completed => e.completed
        /\ f.state = "finished" => e.state = "finished" \/ HasOutcome(f)
    BY <1>2 DEF Grows
  <2>3. HasOutcome(e) => HasOutcome(f)
    BY <1>4 DEF HasOutcome
  <2>4. Uploaded(r, f.next, f.completed)'
    BY <1>7, <2>1, <2>2 DEF Sound, Uploaded
  <2>5. /\ f.generation <= generation'
        /\ f.state # "finished" => f.generation = generation' /\ setup' \notin {"settled", "enrolling"}
    BY <1>7, <2>1, <2>2 DEF Sound
  <2>6. f.reported \/ f.log => f.state = "finished"
    BY <1>7, <2>2 DEF Sound
  <2>7. f.state = "finished" => HasOutcome(f) \/ OutcomesOf(r)' # {}
    BY <1>7, <2>2, <2>3 DEF Sound, HasOutcome, EventSet
  <2>8. setup' = "none" /\ r \notin Scheduled /\ f.reported /\ f.generation = generation'
          => r \in server'.results
    BY <1>7, <2>1, <2>2 DEF Sound
  <2>9. QED
    BY <2>4, <2>5, <2>6, <2>7, <2>8 DEF Sound, HasOutcome, EventSet
<1>9. ASSUME disk' = disk, disk[r] # None PROVE Paired(r)'
  <2>1. Paired(r)
    BY <1>9 DEF Inv, AllPaired
  <2>2. f # None
    BY <1>2, EntryAssumption
  <2>3. f.generation = e.generation /\ (e.log => f.log)
    BY <1>2 DEF Grows
  <2>4. disk'[r] = disk[r] /\ journal'[r] # None /\ journal[r] # None
    BY <1>1, <1>2, <1>9, <2>2
  <2>5. /\ journal'[r].generation = disk'[r].generation
        /\ disk'[r].log => journal'[r].log
    BY <1>1, <2>1, <2>3, <2>4 DEF Paired
  <2>6. r \notin purged' => \A v \in EventSet(disk'[r]) : v.kind \in TerminalKinds =>
            v \in EventSet(journal'[r]) \/ <<r, v>> \in server'.events
    BY <1>1, <1>4, <1>5, <2>1, <2>4 DEF Paired
  <2>7. QED
    BY <2>4, <2>5, <2>6 DEF Paired
<1>10. Keeps(r)
  BY <1>1, <1>2 DEF Keeps, Grows
<1>11. Sound(r, journal[r])'
  BY <1>1, <1>8
<1>12. QED
  BY <1>9, <1>10, <1>11, RunInv

LEMMA AcceptInv ==
    ASSUME Inv, NEW r \in Runs, Accept(r)
    PROVE  Inv'
<1>1. Basics
  BY DEF Inv
<1>2. /\ RunChanges(r) /\ r \notin accepted /\ r \in accepted'
      /\ disk' = journal' /\ active' = active
  BY <1>1, AcceptChanges
<1>3. PICK f : f = journal'[r]
  OBVIOUS
<1>4. /\ f.state = "received" /\ f.generation = generation /\ f.reported = FALSE
      /\ f.log = FALSE /\ f.next = 0 /\ f.completed = FALSE
  BY <1>1, <1>3, AcceptChanges
<1>5. /\ generation' = generation /\ setup' = setup /\ setup = "none" /\ generation \in Nat
      /\ \A q \in Runs : q # r => journal'[q] = journal[q]
  BY <1>1, <1>2 DEF RunChanges, setupVars, Inv, Generations, Basics, Typed, TypeOK
<1>6. Sound(r, f)'
  BY <1>4, <1>5, SizeAssumption DEF Sound, Uploaded
<1>7. disk[r] = None /\ journal[r] = None
  BY <1>1, <1>2 DEF Basics, Journaled
<1>8. Running'
  <2>1. active \subseteq Runs
    BY <1>1 DEF Basics, Typed, TypeOK
  <2>2. QED
    BY <1>2, <1>5, <1>7, <2>1 DEF Inv, Running, Known
<1>9. QED
  BY <1>2, <1>3, <1>6, <1>7, <1>8, RunInv

LEMMA FinishInv ==
    ASSUME Inv, NEW r \in Runs, FinishOperation(r)
    PROVE  Inv'
<1>1. Basics /\ active \subseteq Runs
  BY DEF Inv, Basics, Typed, TypeOK
<1>2. /\ RunChanges(r) /\ active' = active \ {r} /\ r \in active
      /\ \/ journal' = journal /\ disk' = disk
         \/ Known(r) /\ (~journal[r].log => Grows(r, journal[r], journal'[r]))
  BY <1>1, FinishChanges
<1>3. \A q \in Runs : q # r => journal'[q] = journal[q]
  BY <1>1, <1>2 DEF RunChanges, Basics, Typed, TypeOK
<1>4. Running'
  BY <1>1, <1>2, <1>3 DEF Inv, Running, Known
<1>5. CASE journal' = journal
  BY <1>2, <1>4, <1>5, RunInv
<1>6. CASE journal' # journal
  <2>1. Known(r) /\ journal[r].state = "running" /\ journal[r] \in Entries(r)
    BY <1>1, <1>2, KnownFacts DEF Inv, Running
  <2>2. ~journal[r].log
    BY <2>1 DEF Inv, AllSound, Sound
  <2>3. QED
    BY <1>2, <1>4, <1>6, <2>1, <2>2, GrowsInv
<1>7. QED
  BY <1>5, <1>6

LEMMA RunStepInv ==
    ASSUME Inv, NEW r \in Runs, RunStep(r)
    PROVE  Inv'
<1>1. Basics /\ active \subseteq Runs
  BY DEF Inv, Basics, Typed, TypeOK
<1>2. ASSUME RunChanges(r) PROVE \A q \in Runs : q # r => journal'[q] = journal[q]
  BY <1>1, <1>2 DEF RunChanges, Basics, Typed, TypeOK
<1>3. CASE Accept(r)
  BY <1>3, AcceptInv
<1>4. CASE Start(r)
  <2>1. /\ RunChanges(r) /\ Known(r) /\ Grows(r, journal[r], journal'[r])
        /\ active' = active \cup {r} /\ journal'[r].state = "running"
    BY <1>1, <1>4, StartChanges
  <2>2. journal'[r] # None
    BY <2>1, EntryAssumption DEF Grows
  <2>3. Running'
    BY <1>1, <1>2, <2>1, <2>2 DEF Inv, Running, Known
  <2>4. QED
    BY <2>1, <2>3, GrowsInv
<1>5. CASE FinishWithoutExecution(r)
  <2>1. /\ RunChanges(r) /\ Known(r) /\ Grows(r, journal[r], journal'[r])
        /\ active' = active /\ journal[r].state = "received"
    BY <1>1, <1>5, CancelChanges
  <2>2. r \notin active
    BY <2>1 DEF Inv, Running
  <2>3. Running'
    BY <1>1, <1>2, <2>1, <2>2 DEF Inv, Running, Known
  <2>4. QED
    BY <2>1, <2>3, GrowsInv
<1>6. CASE Progress(r) \/ FinishReplication(r)
  <2>1. /\ RunChanges(r) /\ Known(r) /\ Grows(r, journal[r], journal'[r])
        /\ active' = active /\ journal'[r].state = journal[r].state
    BY <1>1, <1>6, ProgressChanges, CopyChanges
  <2>2. journal'[r] # None
    BY <2>1, EntryAssumption DEF Grows
  <2>3. Running'
    BY <1>1, <1>2, <2>1, <2>2 DEF Inv, Running, Known
  <2>4. QED
    BY <2>1, <2>3, GrowsInv
<1>7. CASE FinishOperation(r)
  BY <1>7, FinishInv
<1>8. CASE ReconcileOne(r)
  <2>1. /\ RunChanges(r) /\ Known(r) /\ Grows(r, journal[r], journal'[r])
        /\ active' = active /\ r \notin active
    BY <1>1, <1>8, ReconcileChanges
  <2>2. Running'
    BY <1>1, <1>2, <2>1 DEF Inv, Running, Known
  <2>3. QED
    BY <2>1, <2>2, GrowsInv
<1>9. QED
  BY <1>3, <1>4, <1>5, <1>6, <1>7, <1>8 DEF RunStep

\* The reporter that does not move keeps what it has at hand.
LEMMA OtherKept ==
    ASSUME Inv, Basics', NEW l \in Loops, ReporterChanges(l), ServerGrows,
           NEW m \in Loops, m # l, \A q \in RunsOf(loop[m]) : Keeps(q)
    PROVE  AtHand(m, loop[m])'
<1>1. Basics /\ AtHand(m, loop[m])
  BY DEF Inv, Reporters
<1>2. loop'[m] = loop[m] /\ generation' = generation /\ accepted' = accepted
  BY <1>1 DEF ReporterChanges, Basics, Typed, TypeOK
<1>3. PICK s : s = loop[m]
  OBVIOUS
<1>4. s \in Loop /\ (s.step \in AtRun => s.run \in Runs)
  BY <1>1, <1>3, LoopTypes
<1>5. AtHand(m, s) /\ loop'[m] = s /\ \A q \in RunsOf(s) : Keeps(q)
  BY <1>1, <1>2, <1>3
<1>6. AtHand(m, s)'
  BY <1>1, <1>2, <1>4, <1>5, AtHandKept
<1>7. QED
  BY <1>5, <1>6

\* A step of a reporter that leaves the entries alone.
LEMMA MovesInv ==
    ASSUME Inv, NEW l \in Loops, Moves(l), ServerGrows, ServerLogs', AtHand(l, loop[l])'
    PROVE  Inv'
<1>1. ReporterChanges(l) /\ journal' = journal /\ purged' = purged /\ retired' \subseteq retired
  BY DEF Moves
<1>2. Basics /\ Basics'
  BY <1>1, ReporterBasics DEF Inv
<1>3. /\ generation' = generation /\ setup' = setup /\ up' = up /\ active' = active /\ Saved
  BY <1>1 DEF ReporterChanges
<1>4. AllSound' /\ AllPaired'
  BY <1>1, <1>3, AllSoundKept, AllPairedKept DEF Inv
<1>5. Generations' /\ Running'
  BY <1>1, <1>3 DEF Inv, Generations, Running, Known
<1>6. ASSUME NEW m \in Loops PROVE AtHand(m, loop[m])'
  <2>1. \A q \in RunsOf(loop[m]) : Keeps(q)
    BY <1>1, <1>2, LoopTypes, SameKeeps
  <2>2. QED
    BY <1>1, <1>2, <2>1, OtherKept
<1>7. Reporters'
  BY <1>6 DEF Reporters
<1>8. QED
  BY <1>2, <1>4, <1>5, <1>7 DEF Inv

\* A reporter that begins, or rests.
LEMMA BeginsInv ==
    ASSUME Inv, NEW l \in Loops, Moves(l), Begins(l, loop'[l]), ServerGrows, ServerLogs'
    PROVE  Inv'
<1>1. PICK s, t : s = loop[l] /\ t = loop'[l]
  OBVIOUS
<1>2. Begins(l, t) /\ AtHand(l, s) /\ Basics
  BY <1>1 DEF Inv, Reporters
<1>3. /\ journal' = journal /\ generation' = generation /\ accepted' = accepted /\ up
  BY DEF Moves, ReporterChanges
<1>4. ASSUME NEW r \in RunsOf(t)
      PROVE  /\ r \in accepted'
             /\ journal'[r] # None => IF l = "live" THEN journal'[r].generation = generation'
                                      ELSE journal'[r].generation < generation'
  <2>1. CASE r \in RunsOf(s)
    BY <1>2, <1>3, <2>1 DEF AtHand, Apart, Known
  <2>2. CASE r \notin RunsOf(s)
    <3>1. /\ r \in Runs /\ Known(r)
          /\ IF l = "live" THEN journal[r].generation = generation
             ELSE journal[r].generation \in s.generations
      BY <1>1, <1>2, <2>2 DEF Begins
    <3>2. r \in accepted
      BY <1>2, <3>1 DEF Basics, Journaled, Known
    <3>3. QED
      BY <1>2, <1>3, <3>1, <3>2 DEF AtHand, Apart
  <2>3. QED
    BY <2>1, <2>2
<1>5. ASSUME NEW g \in t.generations PROVE g < generation'
  <2>1. setup = "none"
    BY <1>3 DEF Inv, Generations
  <2>2. g \in s.generations \/ g \in retired
    BY <1>1, <1>2 DEF Begins
  <2>3. QED
    BY <1>2, <1>3, <2>1, <2>2 DEF Inv, Generations, AtHand, Apart
<1>6. Apart(l, t)'
  BY <1>4, <1>5 DEF Apart, Known
<1>7. t.step \notin AtRun
  BY <1>2 DEF Begins
<1>8. AtHand(l, t)'
  BY <1>6, <1>7 DEF AtHand, Pending, Sent, Uploading, AtRun, Steps
<1>9. AtHand(l, loop[l])'
  BY <1>1, <1>8
<1>10. QED
  BY <1>9, MovesInv

\* A reporter that takes a run.
LEMMA HoldsInv ==
    ASSUME Inv, NEW l \in Loops, Moves(l), Holds(l, loop'[l]), server' = server
    PROVE  Inv'
<1>1. PICK s, t : s = loop[l] /\ t = loop'[l]
  OBVIOUS
<1>2. Holds(l, t) /\ AtHand(l, s) /\ Basics
  BY <1>1 DEF Inv, Reporters
<1>3. /\ journal' = journal /\ generation' = generation /\ accepted' = accepted
  BY DEF Moves, ReporterChanges
<1>4. PICK e : e = journal[t.run]
  OBVIOUS
<1>5. e \in Entries(t.run) /\ t.run \in Runs /\ e \in Entry
  BY <1>2, <1>4, KnownFacts DEF Holds
<1>6. Uploaded(t.run, e.next, e.completed) /\ e.next \in Nat
  BY <1>5 DEF Inv, AllSound, Sound, Entry
<1>7. t.next = e.next /\ t.completed = e.completed /\ Prefixed(t.batch, e.events)
  BY <1>2, <1>4 DEF Holds
<1>8. Apart(l, t)'
  BY <1>1, <1>2, <1>3 DEF AtHand, Apart, Holds, Known
<1>9. Uploaded(t.run, t.next, t.completed)'
  BY <1>6, <1>7 DEF Uploaded
<1>10. Uploading(l, t)'
  <2>1. t.step = "complete" => t.next = LogChunks
    BY <1>2, <1>6, <1>7, SizeAssumption DEF Holds, Uploaded
  <2>2. t.step \in {"events", "result", "remove", "chunk", "complete"}
        /\ (t.step = "chunk" => t.next < LogChunks)
        /\ (t.step = "result" => t.owes)
    BY <1>2 DEF Holds
  <2>3. journal'[t.run].next = t.next /\ (t.owes => journal'[t.run].state = "finished")
    BY <1>2, <1>3, <1>4, <1>7 DEF Holds
  <2>4. QED
    BY <1>9, <2>1, <2>2, <2>3 DEF Uploading
<1>11. Pending(t)' /\ Sent(t)'
  BY <1>2, <1>3, <1>4, <1>7 DEF Pending, Sent, Holds
<1>12. AtHand(l, t)'
  BY <1>8, <1>10, <1>11 DEF AtHand
<1>13. AtHand(l, loop[l])'
  BY <1>1, <1>12
<1>14. ServerGrows /\ ServerLogs'
  BY <1>2, SameServer DEF Inv, ServerLogs, LogWhole
<1>15. QED
  BY <1>13, <1>14, MovesInv

\* A LogCompletion says the number of chunks there are.
LEMMA CountIsRight ==
    ASSUME Inv, NEW l \in Loops, loop[l].step = "complete"
    PROVE  ChunkCount(l, loop[l].run) = LogChunks
<1>1. AtHand(l, loop[l]) /\ "complete" \in AtRun
  BY DEF Inv, Reporters, AtRun, Steps
<1>2. QED
  BY <1>1 DEF AtHand, Uploading, ChunkCount

\* What a request adds to the logs is part of them.
LEMMA ServerLogsKept ==
    ASSUME Inv, NEW l \in Loops, ServerGrows, LogsAdded(l, loop[l])
    PROVE  ServerLogs'
<1>1. PICK s : s = loop[l]
  OBVIOUS
<1>2. AtHand(l, s) /\ s \in Loop /\ (s.step \in AtRun => s.run \in Runs) /\ LogsAdded(l, s)
  BY <1>1, LoopTypes DEF Inv, Reporters
<1>3. s.step = "chunk" => s.next < LogChunks
  BY <1>2 DEF AtHand, Uploading
<1>4. ASSUME NEW r \in Runs, NEW n \in server'.chunks[r]
      PROVE  n < LogChunks
  BY <1>2, <1>3 DEF LogsAdded, Inv, ServerLogs
<1>5. \A r \in Runs : server'.chunks[r] \subseteq Nat
  BY DEF ServerGrows, Server
<1>6. \A r \in Runs : server'.chunks[r] \subseteq 0..(LogChunks - 1)
  BY <1>4, <1>5, SizeAssumption
<1>7. ASSUME NEW x \in server'.complete
      PROVE  x[2] = LogChunks /\ server'.chunks[x[1]] = 0..(LogChunks - 1)
  <2>1. x[1] \in Runs
    BY DEF ServerGrows, Server
  <2>2. CASE x \in server.complete
    <3>1. x[2] = LogChunks /\ server.chunks[x[1]] = 0..(LogChunks - 1)
      BY <2>2 DEF Inv, ServerLogs, LogWhole
    <3>2. server.chunks[x[1]] \subseteq server'.chunks[x[1]]
      BY <2>1 DEF ServerGrows
    <3>3. QED
      BY <1>6, <2>1, <3>1, <3>2
  <2>3. CASE x \notin server.complete
    <3>1. s.step = "complete" /\ x = <<s.run, ChunkCount(l, s.run)>>
      BY <1>2, <2>3 DEF LogsAdded
    <3>2. s.step \in AtRun /\ s.next = LogChunks /\ ChunkCount(l, s.run) = LogChunks
      BY <1>1, <1>2, <3>1, CountIsRight DEF AtRun, Steps, AtHand, Uploading
    <3>3. x[1] = s.run /\ x[2] = LogChunks
      BY <3>1, <3>2
    <3>4. Uploaded(s.run, s.next, s.completed)
      BY <1>2, <3>2 DEF AtHand, Uploading
    <3>5. \A n \in 0..(LogChunks - 1) : n \in server.chunks[s.run]
      BY <3>2, <3>4, SizeAssumption DEF Uploaded
    <3>6. server.chunks[x[1]] \subseteq server'.chunks[x[1]]
      BY <2>1 DEF ServerGrows
    <3>7. QED
      BY <1>6, <2>1, <3>3, <3>5, <3>6
  <2>4. QED
    BY <2>2, <2>3
<1>8. QED
  BY <1>4, <1>7 DEF ServerLogs, LogWhole

\* The run at hand stays at hand.
LEMMA SameHandApart ==
    ASSUME Inv, NEW l \in Loops, Moves(l), NEW t, SameHand(loop[l], t)
    PROVE  Apart(l, t)'
<1>1. AtHand(l, loop[l])
  BY DEF Inv, Reporters
<1>2. RunsOf(t) = RunsOf(loop[l]) /\ t.generations = loop[l].generations
  BY DEF SameHand, RunsOf
<1>3. /\ journal' = journal /\ generation' = generation /\ accepted' = accepted
  BY DEF Moves, ReporterChanges
<1>4. QED
  BY <1>1, <1>2, <1>3 DEF AtHand, Apart, Known

LEMMA AnsweredInv ==
    ASSUME Inv, NEW l \in Loops, Answered(l)
    PROVE  Inv'
<1>1. PICK s, t : s = loop[l] /\ t = loop'[l]
  OBVIOUS
<1>2. Basics /\ AtHand(l, s)
  BY <1>1 DEF Inv, Reporters
<1>3. /\ Moves(l) /\ SameRun(s, t)
      /\ s.step \in {"events", "chunk", "complete", "result"}
      /\ t.step = Answer(s.step)
      /\ ServerGrows /\ LogsAdded(l, loop[l]) /\ AllAccepted(l, s)
  BY <1>1, <1>2, AnsweredMoves
<1>4. ServerLogs'
  BY <1>3, ServerLogsKept
<1>5. s.step \in AtRun /\ s.run \in Runs
  BY <1>1, <1>2, <1>3, LoopTypes DEF AtRun, Steps
<1>6. /\ s.step = "events" <=> t.step = "strike"
      /\ s.step = "chunk" <=> t.step = "advance"
      /\ s.step = "complete" <=> t.step = "completed"
      /\ s.step = "result" <=> t.step = "reported"
      /\ t.step \in {"strike", "advance", "completed", "reported"}
  BY <1>3 DEF Answer
<1>7. /\ t.run = s.run /\ t.batch = s.batch /\ t.next = s.next /\ t.completed = s.completed
      /\ t.owes = s.owes
  BY <1>3 DEF SameRun
<1>8. journal' = journal
  BY <1>3 DEF Moves
<1>9. Apart(l, t)'
  BY <1>1, <1>3, SameHandApart DEF SameRun, SameHand
<1>10. Pending(t)'
  BY <1>2, <1>6, <1>7, <1>8 DEF AtHand, Pending, Known
<1>11. Sent(t)'
  BY <1>3, <1>6, <1>7 DEF Sent, AllAccepted
<1>12. Uploading(l, t)'
  <2>1. Uploaded(t.run, t.next, t.completed)'
    BY <1>2, <1>3, <1>5, <1>7, UploadedKept DEF AtHand, Uploading
  <2>2. l = "live" /\ journal'[t.run] # None => journal'[t.run].next = t.next
    BY <1>2, <1>5, <1>7, <1>8 DEF AtHand, Uploading, Known
  <2>3. t.step = "advance" => t.next < LogChunks /\ t.next \in server'.chunks[t.run]
    BY <1>2, <1>3, <1>6, <1>7 DEF AtHand, Uploading, AllAccepted
  <2>4. t.step = "completed" => t.next = LogChunks /\ <<t.run, LogChunks>> \in server'.complete
    BY <1>1, <1>2, <1>3, <1>6, <1>7, CountIsRight DEF AtHand, Uploading, AllAccepted
  <2>5. t.step = "reported" => t.run \in server'.results
    BY <1>3, <1>6, <1>7 DEF AllAccepted
  <2>6. /\ t.step = "reported" => t.owes
        /\ t.owes /\ journal'[t.run] # None => journal'[t.run].state = "finished"
    BY <1>2, <1>5, <1>6, <1>7, <1>8 DEF AtHand, Uploading, Known
  <2>7. QED
    BY <1>6, <2>1, <2>2, <2>3, <2>4, <2>5, <2>6 DEF Uploading, Known
<1>13. AtHand(l, t)'
  BY <1>9, <1>10, <1>11, <1>12 DEF AtHand
<1>14. AtHand(l, loop[l])'
  BY <1>1, <1>13
<1>15. QED
  BY <1>3, <1>4, <1>14, MovesInv

LEMMA RejectedInv ==
    ASSUME Inv, NEW l \in Loops, Rejected(l)
    PROVE  Inv'
<1>1. PICK s, t : s = loop[l] /\ t = loop'[l]
  OBVIOUS
<1>2. Basics /\ AtHand(l, s)
  BY <1>1 DEF Inv, Reporters
<1>3. /\ Moves(l) /\ ServerGrows /\ LogsAdded(l, loop[l]) /\ s.step = "events"
      /\ \/ Rests(l, loop'[l])
         \/ SameHand(s, t) /\ t.step = "strike" /\ Sent(t)'
  BY <1>1, <1>2, RejectedMoves
<1>4. ServerLogs'
  BY <1>3, ServerLogsKept
<1>5. CASE Rests(l, loop'[l])
  BY <1>3, <1>4, <1>5, RestsBegins, BeginsInv
<1>6. CASE SameHand(s, t) /\ t.step = "strike" /\ Sent(t)'
  <2>1. s.step \in AtRun /\ s.run \in Runs
    BY <1>1, <1>2, <1>3, LoopTypes DEF AtRun, Steps
  <2>2. /\ t.run = s.run /\ t.batch = s.batch /\ t.next = s.next
        /\ t.completed = s.completed /\ t.owes = s.owes
    BY <1>6 DEF SameHand
  <2>3. journal' = journal
    BY <1>3 DEF Moves
  <2>4. Apart(l, t)'
    BY <1>1, <1>3, <1>6, SameHandApart
  <2>5. Pending(t)'
    BY <1>2, <1>3, <2>2, <2>3 DEF AtHand, Pending, Known
  <2>6. Uploaded(t.run, t.next, t.completed)'
    BY <1>2, <1>3, <2>1, <2>2, UploadedKept DEF AtHand, Uploading
  <2>7. /\ l = "live" /\ journal'[t.run] # None => journal'[t.run].next = t.next
        /\ t.owes /\ journal'[t.run] # None => journal'[t.run].state = "finished"
    BY <1>2, <2>1, <2>2, <2>3 DEF AtHand, Uploading, Known
  <2>8. Uploading(l, t)'
    BY <1>6, <2>6, <2>7 DEF Uploading, Known
  <2>9. AtHand(l, t)'
    BY <1>6, <2>4, <2>5, <2>8 DEF AtHand
  <2>10. AtHand(l, loop[l])'
    BY <1>1, <2>9
  <2>11. QED
    BY <1>3, <1>4, <2>10, MovesInv
<1>7. QED
  BY <1>3, <1>5, <1>6

\* A reporter that rests, when entries may have gone.
LEMMA RestsAtHand ==
    ASSUME Inv, NEW l \in Loops, NEW t, t.step \notin AtRun,
           RunsOf(t) \subseteq RunsOf(loop[l]),
           t.generations \subseteq loop[l].generations,
           generation' = generation, accepted' = accepted,
           \A q \in RunsOf(loop[l]) : journal'[q] # None =>
              Known(q) /\ journal'[q].generation = journal[q].generation
    PROVE  AtHand(l, t)'
<1>1. AtHand(l, loop[l])
  BY DEF Inv, Reporters
<1>2. Apart(l, t)'
  BY <1>1 DEF AtHand, Apart, Known
<1>3. QED
  BY <1>2 DEF AtHand, Pending, Sent, Uploading, AtRun, Steps

\* A critical section of a reporter.
LEMMA EditedInv ==
    ASSUME Inv, NEW l \in Loops, loop[l].step \in AtRun, NEW f, NEW t, Edited(l, f, t),
           NEW r \in Runs, r = loop[l].run,
           Known(r) =>
              /\ f # None => Sound(r, f)' /\ f.generation = journal[r].generation
              /\ r \in active => f # None /\ f.state = "running"
              /\ disk' = disk /\ disk[r] # None => Paired(r)',
           loop'[l] = t => AtHand(l, t)' \/ Rests(l, t)
    PROVE  Inv'
<1>1. PICK s : s = loop[l] /\ r = s.run
  OBVIOUS
<1>2. ReporterChanges(l) /\ retired' = retired /\ server' = server /\ purged' = purged
  BY DEF Edited
<1>3. Basics /\ Basics' /\ r \in Runs /\ active \subseteq Runs
  BY <1>1, <1>2, ReporterBasics, LoopTypes DEF Inv, Basics, Typed, TypeOK
<1>4. /\ generation' = generation /\ setup' = setup /\ up' = up /\ active' = active /\ Saved
      /\ accepted' = accepted /\ ServerGrows
  BY <1>2, <1>3, SameServer DEF ReporterChanges
<1>5. \/ ~Known(r) /\ journal' = journal
      \/ Known(r) /\ journal'[r] = f /\ \A q \in Runs : q # r => journal'[q] = journal[q]
  BY DEF Edited
<1>6. Known(r) => /\ f # None => Sound(r, f)' /\ f.generation = journal[r].generation
                  /\ r \in active => f # None /\ f.state = "running"
                  /\ disk' = disk /\ disk[r] # None => Paired(r)'
  OBVIOUS
<1>7. AllSound'
  <2>1. \A q \in Runs : journal'[q] # None =>
           journal'[q] = journal[q] \/ Sound(q, journal[q])'
    BY <1>5, <1>6
  <2>2. QED
    BY <1>4, <2>1, AllSoundKept DEF Inv
<1>8. AllPaired'
  <2>1. \A q \in Runs : disk' = disk /\ disk[q] # None =>
           journal'[q] = journal[q] \/ Paired(q)'
    BY <1>5, <1>6
  <2>2. QED
    BY <1>2, <1>4, <2>1, AllPairedKept DEF Inv
<1>9. Generations' /\ ServerLogs'
  BY <1>2, <1>4 DEF Inv, Generations, ServerLogs, LogWhole
<1>10. Running'
  <2> SUFFICES ASSUME NEW q \in active
               PROVE  journal'[q] # None /\ journal'[q].state = "running"
    BY <1>4 DEF Running, Known
  <2>1. Known(q) /\ journal[q].state = "running" /\ q \in Runs
    BY <1>3 DEF Inv, Running
  <2>2. QED
    BY <1>5, <1>6, <2>1 DEF Known
<1>11. ASSUME NEW m \in Loops, m # l, NEW q \in RunsOf(loop[m])
       PROVE  Keeps(q)
  <2>1. q \in Runs
    BY <1>3, LoopTypes
  <2>2. CASE journal'[q] = journal[q]
    BY <1>3, <2>1, <2>2, SameKeeps
  <2>3. CASE journal'[q] # journal[q]
    <3>1. q = r /\ Known(r)
      BY <1>5, <2>1, <2>3
    <3>2. r \in RunsOf(s)
      BY <1>1, <1>3, RunAssumption DEF RunsOf
    <3>3. Apart(l, s) /\ Apart(m, loop[m])
      BY <1>1 DEF Inv, Reporters, AtHand
    <3>4. /\ IF l = "live" THEN journal[r].generation = generation
             ELSE journal[r].generation < generation
          /\ IF m = "live" THEN journal[r].generation = generation
             ELSE journal[r].generation < generation
      BY <3>1, <3>2, <3>3 DEF Apart
    <3>5. generation \in Nat /\ l \in {"live", "retired"} /\ m \in {"live", "retired"}
      BY <1>3 DEF Basics, Typed, TypeOK, Loops
    <3>6. FALSE
      BY <1>11, <3>4, <3>5
    <3>7. QED
      BY <3>6
  <2>4. QED
    BY <2>2, <2>3
<1>12. AtHand(l, loop[l])'
  <2>1. \A q \in RunsOf(loop[l]) : journal'[q] # None =>
           Known(q) /\ journal'[q].generation = journal[q].generation
    <3>1. RunsOf(loop[l]) \subseteq Runs
      BY <1>3, LoopTypes
    <3>2. QED
      BY <1>5, <1>6, <3>1 DEF Known
  <2>2. ASSUME NEW u, Rests(l, u) PROVE AtHand(l, u)'
    BY <1>4, <2>1, <2>2, RestsAtHand DEF Rests
  <2>3. Rests(l, AfterError(l))
    BY <1>3, NextFacts, BetweenRests DEF Basics, Typed
  <2>4. loop'[l] = t \/ loop'[l] = AfterError(l)
    BY DEF Edited
  <2>5. CASE loop'[l] = t
    BY <2>2, <2>5
  <2>6. CASE loop'[l] = AfterError(l)
    <3>1. PICK u : u = AfterError(l)
      OBVIOUS
    <3>2. AtHand(l, u)' /\ loop'[l] = u
      BY <2>2, <2>3, <2>6, <3>1
    <3>3. QED
      BY <3>2
  <2>7. QED
    BY <2>4, <2>5, <2>6
<1>13. ASSUME NEW m \in Loops PROVE AtHand(m, loop[m])'
  BY <1>2, <1>3, <1>4, <1>11, <1>12, OtherKept
<1>14. QED
  BY <1>3, <1>7, <1>8, <1>9, <1>10, <1>13 DEF Inv, Reporters

LEMMA EditedApart ==
    ASSUME Inv, NEW l \in Loops, NEW f, NEW t, Edited(l, f, t), NEW r \in Runs, r = loop[l].run,
           Known(r) /\ f # None => f.generation = journal[r].generation,
           t.run = r, t.todo = loop[l].todo, t.generations = loop[l].generations
    PROVE  Apart(l, t)'
<1>1. Basics /\ Apart(l, loop[l])
  BY DEF Inv, Reporters, AtHand
<1>2. generation' = generation /\ accepted' = accepted
  BY DEF Edited, ReporterChanges
<1>3. RunsOf(t) = RunsOf(loop[l]) /\ RunsOf(t) \subseteq Runs
  BY <1>1, LoopTypes DEF RunsOf
<1>4. \A q \in RunsOf(t) : journal'[q] # None =>
           Known(q) /\ journal'[q].generation = journal[q].generation
  BY <1>3 DEF Edited, Known
<1>5. QED
  BY <1>1, <1>2, <1>3, <1>4 DEF Apart, Known

\* An edit that loses no event that must arrive.
LEMMA EditPaired ==
    ASSUME Inv, NEW r \in Runs, Known(r), NEW f \in Entry, journal'[r] = f,
           disk' = disk, disk[r] # None, server' = server, purged' = purged,
           f.generation = journal[r].generation, journal[r].log => f.log,
           \A v \in EventSet(journal[r]) : v.kind \in TerminalKinds =>
              v \in EventSet(f) \/ <<r, v>> \in server.events
    PROVE  Paired(r)'
<1>1. Paired(r)
  BY DEF Inv, AllPaired
<1>2. disk'[r] = disk[r] /\ journal'[r] # None /\ journal[r] # None
  BY EntryAssumption DEF Known
<1>3. /\ journal'[r].generation = disk'[r].generation
      /\ disk'[r].log => journal'[r].log
  BY <1>1, <1>2 DEF Paired
<1>4. r \notin purged' => \A v \in EventSet(disk'[r]) : v.kind \in TerminalKinds =>
          v \in EventSet(journal'[r]) \/ <<r, v>> \in server'.events
  BY <1>1, <1>2 DEF Paired
<1>5. QED
  BY <1>2, <1>3, <1>4 DEF Paired

\* What flushCommand strikes is with the control plane, unless it may be lost.
LEMMA StrikeKeeps ==
    ASSUME Inv, NEW l \in Loops, loop[l].step = "strike", NEW s, NEW r \in Runs, NEW e, NEW f,
           s = loop[l], r = s.run, e = journal[r], f = Struck(e, s), Known(r)
    PROVE  /\ SameButEvents(e, f) /\ e \in Entry /\ f \in Entry /\ e \in Entries(r)
           /\ \A v \in EventSet(e) : v.kind \in RetainedKinds =>
                 v \in EventSet(f) \/ <<r, v>> \in server.events
<1>1. Basics /\ AtHand(l, s) /\ s.step = "strike"
  BY DEF Inv, Reporters
<1>2. e \in Entry /\ e \in Entries(r) /\ s \in Loop
  BY <1>1, KnownFacts, LoopTypes
<1>3. /\ SameButEvents(e, f)
      /\ \A k \in 1..Len(s.kept) : s.kept[k] \in EventSet(f)
      /\ Prefixed(s.batch, e.events) =>
           \A v \in EventSet(e) :
              v \in EventSet(f) \/ \E i \in 1..Len(s.batch) : v = s.batch[i]
  BY <1>2, StruckFacts
<1>4. Prefixed(s.batch, e.events)
  BY <1>1 DEF AtHand, Pending
<1>5. ASSUME NEW v \in EventSet(e), v.kind \in RetainedKinds
      PROVE  v \in EventSet(f) \/ <<r, v>> \in server.events
  <2>1. CASE \E i \in 1..Len(s.batch) : v = s.batch[i]
    <3>1. PICK i \in 1..Len(s.batch) : v = s.batch[i]
      BY <2>1
    <3>2. \/ <<s.run, s.batch[i]>> \in server.events
          \/ \E k \in 1..Len(s.kept) : s.kept[k] = s.batch[i]
      BY <1>1, <1>5, <3>1 DEF AtHand, Sent
    <3>3. QED
      BY <1>3, <3>1, <3>2
  <2>2. QED
    BY <1>3, <1>4, <2>1
<1>6. QED
  BY <1>2, <1>3, <1>5 DEF SameButEvents

LEMMA StrikeInv ==
    ASSUME Inv, NEW l \in Loops, Strike(l)
    PROVE  Inv'
<1>1. Basics
  BY DEF Inv
<1>2. PICK s, r, e : s = loop[l] /\ r = s.run /\ e = journal[r]
  OBVIOUS
<1>3. s.step = "strike" /\ r \in Runs /\ s \in Loop /\ s.step \in AtRun
  BY <1>1, <1>2, StrikeEdits, LoopTypes DEF AtRun, Steps
<1>4. PICK f : f = Struck(e, s)
  OBVIOUS
<1>5. PICK t : /\ Edited(l, f, t)
               /\ \/ Rests(l, t)
                  \/ /\ t \in Loop /\ t.run = r /\ t.todo = s.todo
                     /\ t.generations = s.generations
                     /\ t.next = s.next /\ t.completed = s.completed
                     /\ t.owes = s.owes /\ (t.step = "result" => t.owes)
                     /\ t.step \in {"result", "remove", "chunk", "complete"}
                     /\ t.step = "chunk" => t.next < LogChunks
                     /\ t.step = "complete" => ~(t.next < LogChunks)
  BY <1>1, <1>2, <1>4, StrikeEdits
<1>6. /\ server' = server /\ purged' = purged /\ generation' = generation /\ setup' = setup
      /\ ServerGrows
  BY <1>1, <1>5, SameServer DEF Edited, ReporterChanges
<1>7. AtHand(l, s)
  BY <1>2 DEF Inv, Reporters
<1>8. ASSUME Known(r)
      PROVE  /\ SameButEvents(e, f) /\ e \in Entry /\ f \in Entry /\ e \in Entries(r)
             /\ \A v \in EventSet(e) : v.kind \in RetainedKinds =>
                   v \in EventSet(f) \/ <<r, v>> \in server.events
  BY <1>2, <1>3, <1>4, <1>8, StrikeKeeps
<1>9. ASSUME Known(r)
      PROVE  /\ Sound(r, f)' /\ f.generation = e.generation
             /\ r \in active => f # None /\ f.state = "running"
             /\ disk' = disk /\ disk[r] # None => Paired(r)'
  <2>1. /\ SameButEvents(e, f) /\ e \in Entry /\ f \in Entry /\ e \in Entries(r)
        /\ \A v \in EventSet(e) : v.kind \in RetainedKinds =>
              v \in EventSet(f) \/ <<r, v>> \in server.events
    BY <1>8, <1>9
  <2>2. Sound(r, e)'
    BY <1>3, <1>6, <2>1, SoundKept DEF Inv, AllSound
  <2>3. HasOutcome(e) => HasOutcome(f) \/ OutcomesOf(r)' # {}
    <3> SUFFICES ASSUME NEW v \in EventSet(e), v.kind \in Outcomes
                 PROVE  HasOutcome(f) \/ OutcomesOf(r)' # {}
      BY DEF HasOutcome
    <3>1. v \in EventSet(f) \/ <<r, v>> \in server.events
      BY <2>1 DEF RetainedKinds
    <3>2. CASE v \in EventSet(f)
      BY <3>2 DEF HasOutcome
    <3>3. CASE <<r, v>> \in server.events
      <4> DEFINE x == <<r, v>>
      <4>1. x[1] = r /\ x[2] = v /\ x \in server'.events
        BY <1>6, <3>3
      <4> HIDE DEF x
      <4>2. QED
        BY <4>1 DEF OutcomesOf
    <3>4. QED
      BY <3>1, <3>2, <3>3
  <2>4. /\ f.state = e.state /\ f.generation = e.generation
        /\ f.reported = e.reported /\ f.log = e.log /\ f.next = e.next
        /\ f.completed = e.completed
    BY <2>1 DEF SameButEvents
  <2>5. Sound(r, f)'
    BY <2>2, <2>3, <2>4 DEF Sound, HasOutcome, EventSet
  <2>6. r \in active => f # None /\ f.state = "running"
    BY <1>2, <2>1, <2>4, EntryAssumption DEF Inv, Running
  <2>7. journal'[r] = f
    BY <1>2, <1>5, <1>9 DEF Edited
  <2>8. disk' = disk /\ disk[r] # None => Paired(r)'
    <3>1. TerminalKinds \subseteq RetainedKinds
      BY DEF TerminalKinds, RetainedKinds
    <3>2. QED
      BY <1>2, <1>3, <1>6, <1>9, <2>1, <2>4, <2>7, <3>1, EditPaired
  <2>9. QED
    BY <2>4, <2>5, <2>6, <2>8
<1>10. ASSUME loop'[l] = t, ~Rests(l, t) PROVE AtHand(l, t)'
  <2>1. /\ t \in Loop /\ t.run = r /\ t.todo = s.todo
        /\ t.generations = s.generations
        /\ t.next = s.next /\ t.completed = s.completed
        /\ t.owes = s.owes /\ (t.step = "result" => t.owes)
        /\ t.step \in {"result", "remove", "chunk", "complete"}
        /\ t.step = "chunk" => t.next < LogChunks
        /\ t.step = "complete" => ~(t.next < LogChunks)
    BY <1>5, <1>10
  <2>2. Apart(l, t)'
    BY <1>2, <1>3, <1>5, <1>9, <2>1, EditedApart
  <2>3. Uploaded(r, s.next, s.completed) /\ s.next \in Nat
    BY <1>2, <1>3, <1>7 DEF AtHand, Uploading, Loop
  <2>4. Uploaded(t.run, t.next, t.completed)'
    BY <1>3, <1>6, <2>1, <2>3, UploadedKept
  <2>5. t.step = "complete" => t.next = LogChunks
    BY <2>1, <2>3, SizeAssumption DEF Uploaded
  <2>6. /\ l = "live" /\ journal'[t.run] # None => journal'[t.run].next = t.next
        /\ t.owes /\ journal'[t.run] # None => journal'[t.run].state = "finished"
    <3>1. journal'[r] # None => Known(r)
      BY <1>2, <1>5 DEF Edited, Known
    <3>2. Known(r) => journal'[r].next = e.next /\ journal'[r].state = e.state
      <4>1. Known(r) => journal'[r] = f
        BY <1>2, <1>5 DEF Edited
      <4>2. QED
        BY <1>8, <4>1 DEF SameButEvents
    <3>3. /\ l = "live" /\ Known(r) => e.next = s.next
          /\ s.owes /\ Known(r) => e.state = "finished"
      BY <1>2, <1>3, <1>7 DEF AtHand, Uploading
    <3>4. QED
      BY <2>1, <3>1, <3>2, <3>3
  <2>7. Uploading(l, t)'
    BY <2>1, <2>4, <2>5, <2>6 DEF Uploading, Known
  <2>8. Pending(t)' /\ Sent(t)'
    BY <2>1 DEF Pending, Sent
  <2>9. QED
    BY <2>2, <2>7, <2>8 DEF AtHand
<1>11. QED
  BY <1>2, <1>3, <1>5, <1>9, <1>10, EditedInv

\* The entry at hand with its upload recorded, or its result.
LEMMA RecordedSound ==
    ASSUME Inv, NEW r \in Runs, Known(r), server' = server, purged' = purged,
           generation' = generation, setup' = setup,
           NEW f \in Entry, journal'[r] = f,
           f.events = journal[r].events, f.state = journal[r].state,
           f.generation = journal[r].generation, f.log = journal[r].log,
           Uploaded(r, f.next, f.completed),
           f.reported = journal[r].reported
              \/ (f.state = "finished" /\ r \in server.results)
    PROVE  /\ Sound(r, f)' /\ f.generation = journal[r].generation
           /\ r \in active => f # None /\ f.state = "running"
           /\ disk' = disk /\ disk[r] # None => Paired(r)'
<1>1. PICK e : e = journal[r]
  OBVIOUS
<1>2. Basics /\ e \in Entry /\ e \in Entries(r)
  BY <1>1, KnownFacts DEF Inv
<1>3. ServerGrows
  BY <1>2, SameServer
<1>4. Sound(r, e)'
  BY <1>2, <1>3, SoundKept DEF Inv, AllSound
<1>5. Uploaded(r, f.next, f.completed)'
  BY <1>3, UploadedKept
<1>6. /\ f.events = e.events /\ f.state = e.state /\ f.generation = e.generation /\ f.log = e.log
      /\ f.reported = e.reported \/ (f.state = "finished" /\ r \in server'.results)
  BY <1>1
<1>7. HasOutcome(e) => HasOutcome(f)
  BY <1>6 DEF HasOutcome, EventSet
<1>8. Sound(r, f)'
  <2>1. /\ e.generation <= generation'
        /\ e.state # "finished" => /\ e.generation = generation'
                                   /\ setup' \notin {"settled", "enrolling"}
        /\ e.reported \/ e.log => e.state = "finished"
        /\ e.state = "finished" => HasOutcome(e) \/ OutcomesOf(r)' # {}
        /\ setup' = "none" /\ r \notin Scheduled /\ e.reported /\ e.generation = generation'
              => r \in server'.results
    BY <1>4 DEF Sound, HasOutcome, EventSet
  <2>2. QED
    BY <1>5, <1>6, <1>7, <2>1 DEF Sound, HasOutcome, EventSet
<1>9. r \in active => f # None /\ f.state = "running"
  BY <1>1, <1>6, EntryAssumption DEF Inv, Running
<1>10. disk' = disk /\ disk[r] # None => Paired(r)'
  <2>1. EventSet(f) = EventSet(e)
    BY <1>6 DEF EventSet
  <2>2. QED
    BY <1>1, <1>6, <2>1, EditPaired
<1>11. QED
  BY <1>1, <1>6, <1>8, <1>9, <1>10

LEMMA AdvanceInv ==
    ASSUME Inv, NEW l \in Loops, Advance(l)
    PROVE  Inv'
<1>1. Basics
  BY DEF Inv
<1>2. PICK s, r, e : s = loop[l] /\ r = s.run /\ e = journal[r]
  OBVIOUS
<1>3. s.step = "advance" /\ r \in Runs /\ s \in Loop /\ s.step \in AtRun
  BY <1>1, <1>2, AdvanceEdits, LoopTypes DEF AtRun, Steps
<1>4. PICK f, t : /\ Edited(l, f, t)
                  /\ Known(r) => f = [e EXCEPT !.next = s.next + 1]
                  /\ t = [s EXCEPT !.next = s.next + 1,
                             !.step = IF s.next + 1 < LogChunks THEN "chunk" ELSE "complete"]
  BY <1>1, <1>2, AdvanceEdits
<1>5. /\ server' = server /\ purged' = purged /\ generation' = generation /\ setup' = setup
      /\ ServerGrows
  BY <1>1, <1>4, SameServer DEF Edited, ReporterChanges
<1>6. AtHand(l, s)
  BY <1>2 DEF Inv, Reporters
<1>7. PICK n : n = s.next + 1
  OBVIOUS
<1>8. /\ s.next \in Nat /\ n \in Nat /\ s.next < LogChunks /\ n = s.next + 1
      /\ Uploaded(r, s.next, s.completed) /\ s.next \in server.chunks[r]
  BY <1>2, <1>3, <1>6, <1>7 DEF AtHand, Uploading, Loop
<1>9. n <= LogChunks /\ \A k \in 0..LogChunks : k < n => k \in server.chunks[r]
  <2>1. \A k \in 0..LogChunks : k < n => k < s.next \/ k = s.next
    BY <1>8, SizeAssumption
  <2>2. n <= LogChunks
    BY <1>8, SizeAssumption
  <2>3. QED
    BY <1>8, <2>1, <2>2 DEF Uploaded
<1>10. /\ t \in Loop /\ t.run = r /\ t.todo = s.todo /\ t.generations = s.generations
       /\ t.next = n /\ t.completed = s.completed /\ t.owes = s.owes
       /\ t.step = IF n < LogChunks THEN "chunk" ELSE "complete"
  <2> DEFINE w == IF n < LogChunks THEN "chunk" ELSE "complete"
  <2>1. w \in Steps /\ t = [s EXCEPT !.next = n, !.step = w]
    BY <1>4, <1>7 DEF Steps
  <2>2. w = IF n < LogChunks THEN "chunk" ELSE "complete"
    OBVIOUS
  <2> HIDE DEF w
  <2>3. /\ t \in Loop /\ t.run = s.run /\ t.todo = s.todo /\ t.generations = s.generations
        /\ t.next = n /\ t.completed = s.completed /\ t.owes = s.owes /\ t.step = w
    BY <1>3, <1>8, <2>1 DEF Loop
  <2>4. QED
    BY <1>2, <2>2, <2>3
<1>11. ASSUME Known(r)
       PROVE  /\ e \in Entry /\ f \in Entry /\ journal'[r] = f /\ f.next = n
              /\ f.events = e.events /\ f.state = e.state /\ f.generation = e.generation
              /\ f.log = e.log /\ f.completed = e.completed /\ f.reported = e.reported
  <2>1. e \in Entry /\ e \in Entries(r)
    BY <1>1, <1>2, <1>3, <1>11, KnownFacts
  <2>2. f = [e EXCEPT !.next = n]
    BY <1>4, <1>7, <1>11
  <2>3. /\ f \in Entry /\ f.next = n
        /\ f.events = e.events /\ f.state = e.state /\ f.generation = e.generation
        /\ f.log = e.log /\ f.completed = e.completed /\ f.reported = e.reported
    BY <1>8, <2>1, <2>2 DEF Entry
  <2>4. QED
    BY <1>2, <1>4, <1>11, <2>1, <2>3 DEF Edited
<1>12. ASSUME Known(r)
       PROVE  /\ Sound(r, f)' /\ f.generation = e.generation
              /\ r \in active => f # None /\ f.state = "running"
              /\ disk' = disk /\ disk[r] # None => Paired(r)'
  <2>1. Uploaded(r, e.next, e.completed)
    BY <1>1, <1>2, <1>3, <1>12, KnownFacts DEF Inv, AllSound, Sound
  <2>2. Uploaded(r, f.next, f.completed)
    BY <1>9, <1>11, <1>12, <2>1 DEF Uploaded
  <2>3. QED
    BY <1>2, <1>3, <1>5, <1>11, <1>12, <2>2, RecordedSound
<1>13. AtHand(l, t)'
  <2>1. Apart(l, t)'
    <3>1. Edited(l, f, t) /\ (Known(r) => f.generation = journal[r].generation)
      BY <1>2, <1>4, <1>12
    <3>2. r = loop[l].run /\ t.run = r /\ t.todo = loop[l].todo
          /\ t.generations = loop[l].generations
      BY <1>2, <1>10
    <3>3. QED
      BY <1>3, <3>1, <3>2, EditedApart
  <2>2. Uploaded(r, n, s.completed)
    BY <1>8, <1>9 DEF Uploaded
  <2>3. Uploaded(t.run, t.next, t.completed)'
    BY <1>3, <1>5, <1>10, <2>2, UploadedKept
  <2>4. t.step = "complete" => t.next = LogChunks
    BY <1>8, <1>9, <1>10, SizeAssumption
  <2>5. t.step = "chunk" => t.next < LogChunks
    BY <1>10
  <2>6. /\ l = "live" /\ journal'[t.run] # None => journal'[t.run].next = t.next
        /\ t.owes /\ journal'[t.run] # None => journal'[t.run].state = "finished"
    <3>1. journal'[r] # None => Known(r)
      BY <1>2, <1>4 DEF Edited, Known
    <3>2. s.owes /\ Known(r) => e.state = "finished"
      BY <1>2, <1>3, <1>6 DEF AtHand, Uploading
    <3>3. QED
      BY <1>10, <1>11, <3>1, <3>2
  <2>7. t.step \in {"chunk", "complete"}
    BY <1>10
  <2>8. Uploading(l, t)'
    BY <2>3, <2>4, <2>5, <2>6, <2>7 DEF Uploading, Known
  <2>9. Pending(t)' /\ Sent(t)'
    BY <2>7 DEF Pending, Sent
  <2>10. QED
    BY <2>1, <2>8, <2>9 DEF AtHand
<1>14. QED
  BY <1>2, <1>3, <1>4, <1>12, <1>13, EditedInv

LEMMA CompletedInv ==
    ASSUME Inv, NEW l \in Loops, LogCompleted(l)
    PROVE  Inv'
<1>1. Basics
  BY DEF Inv
<1>2. PICK s, r, e : s = loop[l] /\ r = s.run /\ e = journal[r]
  OBVIOUS
<1>3. s.step = "completed" /\ r \in Runs /\ s \in Loop /\ s.step \in AtRun
  BY <1>1, <1>2, CompletedEdits, LoopTypes DEF AtRun, Steps
<1>4. PICK f, t : /\ Edited(l, f, t)
                  /\ Known(r) => f = [e EXCEPT !.completed = TRUE]
                  /\ SameRun(s, t) /\ t.step \in {"result", "remove"}
                  /\ t.step = "result" => s.owes
  BY <1>1, <1>2, CompletedEdits
<1>5. /\ server' = server /\ purged' = purged /\ generation' = generation /\ setup' = setup
      /\ ServerGrows
  BY <1>1, <1>4, SameServer DEF Edited, ReporterChanges
<1>6. AtHand(l, s)
  BY <1>2 DEF Inv, Reporters
<1>7. /\ Uploaded(r, s.next, s.completed) /\ <<r, LogChunks>> \in server.complete
  BY <1>2, <1>3, <1>6 DEF AtHand, Uploading
<1>8. /\ t \in Loop /\ t.run = r /\ t.todo = s.todo /\ t.generations = s.generations
      /\ t.next = s.next /\ t.completed = s.completed /\ t.owes = s.owes
  BY <1>2, <1>4 DEF SameRun
<1>9. ASSUME Known(r)
      PROVE  /\ e \in Entry /\ f \in Entry /\ journal'[r] = f /\ f.next = e.next
             /\ f.events = e.events /\ f.state = e.state /\ f.generation = e.generation
             /\ f.log = e.log /\ f.completed = TRUE /\ f.reported = e.reported
  <2>1. e \in Entry /\ e \in Entries(r)
    BY <1>1, <1>2, <1>3, <1>9, KnownFacts
  <2>2. f = [e EXCEPT !.completed = TRUE]
    BY <1>4, <1>9
  <2>3. /\ f \in Entry /\ f.next = e.next
        /\ f.events = e.events /\ f.state = e.state /\ f.generation = e.generation
        /\ f.log = e.log /\ f.completed = TRUE /\ f.reported = e.reported
    BY <2>1, <2>2 DEF Entry
  <2>4. journal'[r] = f
    BY <1>2, <1>4, <1>9 DEF Edited
  <2>5. QED
    BY <2>1, <2>3, <2>4
<1>10. ASSUME Known(r)
       PROVE  /\ Sound(r, f)' /\ f.generation = e.generation
              /\ r \in active => f # None /\ f.state = "running"
              /\ disk' = disk /\ disk[r] # None => Paired(r)'
  <2>1. Uploaded(r, e.next, e.completed)
    BY <1>1, <1>2, <1>3, <1>10, KnownFacts DEF Inv, AllSound, Sound
  <2>2. Uploaded(r, f.next, f.completed)
    BY <1>7, <1>9, <1>10, <2>1 DEF Uploaded
  <2>3. QED
    BY <1>2, <1>3, <1>5, <1>9, <1>10, <2>2, RecordedSound
<1>11. AtHand(l, t)'
  <2>1. Apart(l, t)'
    <3>1. Edited(l, f, t) /\ (Known(r) => f.generation = journal[r].generation)
      BY <1>2, <1>4, <1>10
    <3>2. r = loop[l].run /\ t.run = r /\ t.todo = loop[l].todo
          /\ t.generations = loop[l].generations
      BY <1>2, <1>8
    <3>3. QED
      BY <1>3, <3>1, <3>2, EditedApart
  <2>2. Uploaded(t.run, t.next, t.completed)'
    BY <1>3, <1>5, <1>7, <1>8, UploadedKept
  <2>3. /\ l = "live" /\ journal'[t.run] # None => journal'[t.run].next = t.next
        /\ t.owes /\ journal'[t.run] # None => journal'[t.run].state = "finished"
    <3>1. journal'[r] # None => Known(r)
      BY <1>2, <1>4 DEF Edited, Known
    <3>2. /\ l = "live" /\ Known(r) => e.next = s.next
          /\ s.owes /\ Known(r) => e.state = "finished"
      BY <1>2, <1>3, <1>6 DEF AtHand, Uploading
    <3>3. QED
      BY <1>8, <1>9, <3>1, <3>2
  <2>4. t.step \in {"result", "remove"} /\ (t.step = "result" => t.owes)
    BY <1>4, <1>8
  <2>5. Uploading(l, t)'
    BY <2>2, <2>3, <2>4 DEF Uploading, Known
  <2>6. Pending(t)' /\ Sent(t)'
    BY <2>4 DEF Pending, Sent
  <2>7. QED
    BY <2>1, <2>5, <2>6 DEF AtHand
<1>12. QED
  BY <1>2, <1>3, <1>4, <1>10, <1>11, EditedInv

LEMMA ReportedInv ==
    ASSUME Inv, ResultReported
    PROVE  Inv'
<1>1. Basics /\ "live" \in Loops
  BY DEF Inv, Loops
<1>2. PICK l, s, r, e : l = "live" /\ s = loop[l] /\ r = s.run /\ e = journal[r]
  OBVIOUS
<1>3. s.step = "reported" /\ r \in Runs /\ s \in Loop /\ s.step \in AtRun /\ l \in Loops
  BY <1>1, <1>2, ReportedEdits, LoopTypes DEF AtRun, Steps
<1>4. PICK f, t : /\ Edited(l, f, t)
                  /\ Known(r) => f = [e EXCEPT !.reported = TRUE]
                  /\ SameRun(s, t) /\ t.step = "remove"
  BY <1>1, <1>2, ReportedEdits
<1>5. /\ server' = server /\ purged' = purged /\ generation' = generation /\ setup' = setup
      /\ ServerGrows
  BY <1>1, <1>4, SameServer DEF Edited, ReporterChanges
<1>6. AtHand(l, s)
  BY <1>2, <1>3 DEF Inv, Reporters
<1>7. /\ Uploaded(r, s.next, s.completed) /\ r \in server.results
      /\ Known(r) => e.next = s.next /\ e.state = "finished"
  BY <1>2, <1>3, <1>6 DEF AtHand, Uploading
<1>8. /\ t \in Loop /\ t.run = r /\ t.todo = s.todo /\ t.generations = s.generations
      /\ t.next = s.next /\ t.completed = s.completed /\ t.owes = s.owes
  BY <1>2, <1>4 DEF SameRun
<1>9. ASSUME Known(r)
      PROVE  /\ e \in Entry /\ f \in Entry /\ journal'[r] = f /\ f.next = e.next
             /\ f.events = e.events /\ f.state = e.state /\ f.generation = e.generation
             /\ f.log = e.log /\ f.completed = e.completed
  <2>1. e \in Entry /\ e \in Entries(r)
    BY <1>1, <1>2, <1>3, <1>9, KnownFacts
  <2>2. f = [e EXCEPT !.reported = TRUE]
    BY <1>4, <1>9
  <2>3. /\ f \in Entry /\ f.next = e.next
        /\ f.events = e.events /\ f.state = e.state /\ f.generation = e.generation
        /\ f.log = e.log /\ f.completed = e.completed
    BY <2>1, <2>2 DEF Entry
  <2>4. journal'[r] = f
    BY <1>2, <1>4, <1>9 DEF Edited
  <2>5. QED
    BY <2>1, <2>3, <2>4
<1>10. ASSUME Known(r)
       PROVE  /\ Sound(r, f)' /\ f.generation = e.generation
              /\ r \in active => f # None /\ f.state = "running"
              /\ disk' = disk /\ disk[r] # None => Paired(r)'
  <2>1. Uploaded(r, e.next, e.completed)
    BY <1>1, <1>2, <1>3, <1>10, KnownFacts DEF Inv, AllSound, Sound
  <2>2. Uploaded(r, f.next, f.completed)
    BY <1>9, <1>10, <2>1
  <2>3. f.state = "finished" /\ r \in server.results
    BY <1>7, <1>9, <1>10
  <2>4. QED
    BY <1>2, <1>3, <1>5, <1>9, <1>10, <2>2, <2>3, RecordedSound
<1>11. AtHand(l, t)'
  <2>1. Apart(l, t)'
    <3>1. Edited(l, f, t) /\ (Known(r) => f.generation = journal[r].generation)
      BY <1>2, <1>4, <1>10
    <3>2. r = loop[l].run /\ t.run = r /\ t.todo = loop[l].todo
          /\ t.generations = loop[l].generations
      BY <1>2, <1>8
    <3>3. QED
      BY <1>3, <3>1, <3>2, EditedApart
  <2>2. Uploaded(t.run, t.next, t.completed)'
    BY <1>3, <1>5, <1>7, <1>8, UploadedKept
  <2>3. journal'[t.run] # None => /\ journal'[t.run].next = t.next
                                  /\ journal'[t.run].state = "finished"
    <3>1. journal'[r] # None => Known(r)
      BY <1>2, <1>4 DEF Edited, Known
    <3>2. QED
      BY <1>7, <1>8, <1>9, <3>1
  <2>4. t.step = "remove"
    BY <1>4
  <2>5. Uploading(l, t)'
    BY <2>2, <2>3, <2>4 DEF Uploading, Known
  <2>6. Pending(t)' /\ Sent(t)'
    BY <2>4 DEF Pending, Sent
  <2>7. QED
    BY <2>1, <2>5, <2>6 DEF AtHand
<1>12. QED
  BY <1>2, <1>3, <1>4, <1>10, <1>11, EditedInv

\* An entry that owes nothing any more: the control plane has all of it.
LEMMA SettledReported ==
    ASSUME Inv, up, NEW l \in Loops, NEW r \in Runs, r \in RunsOf(loop[l]), Settled(l, r)
    PROVE  /\ Known(r) /\ r \notin active
           /\ disk[r] # None =>
                 /\ AllReported(r)
                 /\ r \notin purged => \A v \in EventSet(disk[r]) :
                       v.kind \in TerminalKinds => <<r, v>> \in server.events
<1>1. PICK e : e = journal[r]
  OBVIOUS
<1>2. Known(r) /\ Basics
  BY DEF Settled, Inv
<1>3. e \in Entry /\ e \in Entries(r) /\ Sound(r, e)
  BY <1>1, <1>2, KnownFacts DEF Inv, AllSound
<1>4. /\ e.events = <<>> /\ (e.log => e.completed)
      /\ l = "live" => e.reported
  BY <1>1 DEF Settled
<1>5. IF l = "live" THEN e.generation = generation ELSE e.generation < generation
  BY <1>1, <1>2 DEF Inv, Reporters, AtHand, Apart
<1>6. generation \in Nat /\ e.generation \in Nat
  BY <1>2, <1>3 DEF Basics, Typed, TypeOK, Entry
<1>7. e.state = "finished"
  BY <1>3, <1>4, <1>5, <1>6 DEF Sound
<1>8. r \notin active
  BY <1>1, <1>7 DEF Inv, Running
<1>9. EventSet(e) = {}
  BY <1>4 DEF EventSet
<1>10. OutcomesOf(r) # {}
  BY <1>3, <1>7, <1>9 DEF Sound, HasOutcome
<1>11. setup = "none"
  BY DEF Inv, Generations
<1>12. ASSUME disk[r] # None
       PROVE  /\ AllReported(r)
              /\ r \notin purged => \A v \in EventSet(disk[r]) :
                    v.kind \in TerminalKinds => <<r, v>> \in server.events
  <2>1. Paired(r)
    BY <1>12 DEF Inv, AllPaired
  <2>2. /\ disk[r].generation = e.generation /\ (disk[r].log => e.log)
    BY <1>1, <1>2, <2>1 DEF Paired, Known
  <2>3. disk[r].log => <<r, LogChunks>> \in server.complete
    BY <1>3, <1>4, <2>2 DEF Sound, Uploaded
  <2>4. disk[r].generation = generation /\ r \notin Scheduled => r \in server.results
    BY <1>3, <1>4, <1>5, <1>6, <1>11, <2>2 DEF Sound
  <2>5. r \notin purged => \A v \in EventSet(disk[r]) :
           v.kind \in TerminalKinds => <<r, v>> \in server.events
    BY <1>1, <1>9, <2>1 DEF Paired
  <2>6. QED
    BY <1>10, <2>3, <2>4, <2>5 DEF AllReported
<1>13. QED
  BY <1>2, <1>8, <1>12

LEMMA RemoveInv ==
    ASSUME Inv, NEW l \in Loops, Remove(l)
    PROVE  Inv'
<1>1. Basics /\ ServerLogs
  BY DEF Inv
<1>2. PICK s, r : s = loop[l] /\ r = s.run
  OBVIOUS
<1>3. s.step = "remove" /\ r \in Runs /\ s \in Loop /\ s.step \in AtRun
  BY <1>1, <1>2, RemoveEdits, LoopTypes DEF AtRun, Steps
<1>4. CASE Moves(l) /\ server' = server /\ Rests(l, loop'[l])
  <2>1. ServerGrows /\ Begins(l, loop'[l])
    BY <1>1, <1>4, SameServer, RestsBegins
  <2>2. ServerLogs'
    BY <1>1, <1>4 DEF ServerLogs, LogWhole
  <2>3. QED
    BY <1>4, <2>1, <2>2, BeginsInv
<1>5. ASSUME Settled(l, r), NEW t, Edited(l, None, t),
             t \in Loop, t.step = "unlink", t.run = r, t.todo = s.todo,
             t.generations = s.generations
      PROVE  Inv'
  <2>1. /\ server' = server /\ purged' = purged /\ generation' = generation /\ up
        /\ ServerGrows /\ accepted' = accepted
    BY <1>1, <1>5, SameServer DEF Edited, ReporterChanges
  <2>2. r \in RunsOf(loop[l])
    BY <1>2, <1>3, RunAssumption DEF RunsOf
  <2>3. /\ Known(r) /\ r \notin active
        /\ disk[r] # None =>
              /\ AllReported(r)
              /\ r \notin purged => \A v \in EventSet(disk[r]) :
                    v.kind \in TerminalKinds => <<r, v>> \in server.events
    BY <1>3, <1>5, <2>1, <2>2, SettledReported
  <2>4. journal'[r] = None
    BY <1>2, <1>5, <2>3 DEF Edited
  <2>5. disk' = disk /\ disk[r] # None => Paired(r)'
    <3> SUFFICES ASSUME disk' = disk, disk[r] # None PROVE Paired(r)'
      OBVIOUS
    <3>1. AllReported(r)'
      BY <2>1, <2>3 DEF AllReported, OutcomesOf
    <3>2. r \notin purged' => \A v \in EventSet(disk'[r]) :
             v.kind \in TerminalKinds => <<r, v>> \in server'.events
      BY <2>1, <2>3
    <3>3. QED
      BY <2>4, <3>1, <3>2 DEF Paired
  <2>6. AtHand(l, t)'
    <3>1. t.step \notin AtRun /\ RunsOf(t) = RunsOf(loop[l])
      BY <1>2, <1>5 DEF AtRun, RunsOf
    <3>2. RunsOf(loop[l]) \subseteq Runs
      BY <1>1, LoopTypes
    <3>3. \A q \in RunsOf(loop[l]) : journal'[q] # None =>
              Known(q) /\ journal'[q].generation = journal[q].generation
      BY <1>2, <1>5, <2>3, <2>4, <3>2 DEF Edited, Known
    <3>4. QED
      BY <1>2, <1>5, <2>1, <3>1, <3>3, RestsAtHand
  <2>7. QED
    BY <1>2, <1>3, <1>5, <2>3, <2>5, <2>6, EditedInv
<1>6. QED
  BY <1>1, <1>2, <1>4, <1>5, RemoveEdits

\* Entries of a retired enrollment are given up.
LEMMA PurgesInv ==
    ASSUME Inv, NEW gone, Purges(gone),
           \A r \in gone : r \in Runs /\ Known(r) /\ journal[r].generation < generation
    PROVE  Inv'
<1> DEFINE l == "retired"
<1>1. /\ ReporterChanges(l) /\ retired' = retired /\ server' = server
      /\ purged' = purged \cup gone
      /\ \A r \in Runs : journal'[r] = journal[r] \/ (journal'[r] = None /\ r \in gone)
      /\ l \in Loops
  <2>1. \A r \in Runs : journal'[r] = journal[r] \/ (journal'[r] = None /\ r \in gone)
    BY DEF Purges
  <2>2. QED
    BY <2>1 DEF Purges, Loops
<1>2. Basics /\ Basics' /\ active \subseteq Runs /\ generation \in Nat
  BY <1>1, ReporterBasics DEF Inv, Basics, Typed, TypeOK
<1>3. /\ generation' = generation /\ setup' = setup /\ up' = up /\ active' = active /\ Saved
      /\ accepted' = accepted /\ ServerGrows
  BY <1>1, <1>2, SameServer DEF ReporterChanges
<1>4. AllSound'
  BY <1>1, <1>3, AllSoundKept DEF Inv
<1>5. AllPaired'
  <2>1. \A r \in Runs : disk' = disk /\ disk[r] # None => journal'[r] = journal[r] \/ Paired(r)'
    <3>1. ASSUME NEW r \in Runs, journal'[r] = None, r \in gone PROVE Paired(r)'
      BY <1>1, <3>1 DEF Paired
    <3>2. QED
      BY <1>1, <3>1
  <2>2. AllPaired /\ purged \subseteq purged'
    BY <1>1 DEF Inv
  <2>3. QED
    BY <1>3, <2>1, <2>2, AllPairedKept
<1>6. Generations' /\ ServerLogs'
  BY <1>1, <1>3 DEF Inv, Generations, ServerLogs, LogWhole
<1>7. Running'
  <2> SUFFICES ASSUME NEW r \in active
               PROVE  journal'[r] # None /\ journal'[r].state = "running"
    BY <1>3 DEF Running, Known
  <2>1. Known(r) /\ journal[r].state = "running" /\ r \in Runs
    BY <1>2 DEF Inv, Running
  <2>2. PICK e : e = journal[r]
    OBVIOUS
  <2>3. e \in Entry /\ Sound(r, e)
    BY <1>2, <2>1, <2>2, KnownFacts DEF Inv, AllSound
  <2>4. e.generation = generation
    BY <2>1, <2>2, <2>3 DEF Sound
  <2>5. r \notin gone
    BY <1>2, <2>2, <2>4
  <2>6. QED
    BY <1>1, <2>1, <2>5 DEF Known
<1>8. ASSUME NEW m \in Loops, m # l PROVE AtHand(m, loop[m])'
  <2>1. \A q \in RunsOf(loop[m]) : Keeps(q)
    BY <1>1, <1>2, LoopTypes, SameKeeps
  <2>2. QED
    BY <1>1, <1>2, <1>3, <1>8, <2>1, OtherKept
<1>9. AtHand(l, loop[l])'
  <2>1. PICK t : t = loop'[l]
    OBVIOUS
  <2>2. /\ t.step \notin AtRun /\ RunsOf(t) \subseteq RunsOf(loop[l])
        /\ t.generations \subseteq loop[l].generations
    BY <2>1 DEF Purges
  <2>3. \A q \in RunsOf(loop[l]) : journal'[q] # None =>
              Known(q) /\ journal'[q].generation = journal[q].generation
    BY <1>1, <1>2, LoopTypes DEF Known
  <2>4. AtHand(l, t)'
    BY <1>1, <1>3, <2>2, <2>3, RestsAtHand
  <2>5. QED
    BY <2>1, <2>4
<1>10. QED
  BY <1>2, <1>4, <1>5, <1>6, <1>7, <1>8, <1>9 DEF Inv, Reporters

\* A reporter that does nothing with the control plane.
LEMMA QuietBeginsInv ==
    ASSUME Inv, NEW l \in Loops, Moves(l), Begins(l, loop'[l]), server' = server
    PROVE  Inv'
<1>1. Basics /\ ServerLogs
  BY DEF Inv
<1>2. ServerGrows
  BY <1>1, SameServer
<1>3. ServerLogs'
  BY <1>1 DEF ServerLogs, LogWhole
<1>4. QED
  BY <1>2, <1>3, BeginsInv

LEMMA LoopStepInv ==
    ASSUME Inv, NEW l \in Loops, LoopStep(l)
    PROVE  Inv'
<1>1. Basics
  BY DEF Inv
<1>2. CASE EndOfPass(l) \/ RequestFails(l) \/ Unlink(l)
  BY <1>1, <1>2, EndOfPassMoves, RequestFailsMoves, UnlinkMoves, RestsBegins, QuietBeginsInv
<1>3. CASE Take(l)
  <2>1. Moves(l) /\ server' = server /\ (Rests(l, loop'[l]) \/ Holds(l, loop'[l]))
    BY <1>1, <1>3, TakeMoves
  <2>2. QED
    BY <2>1, RestsBegins, QuietBeginsInv, HoldsInv
<1>4. CASE AnswerLost(l)
  <2>1. Moves(l) /\ Rests(l, loop'[l]) /\ ServerGrows /\ LogsAdded(l, loop[l])
    BY <1>1, <1>4, LostMoves
  <2>2. Begins(l, loop'[l]) /\ ServerLogs'
    BY <2>1, RestsBegins, ServerLogsKept
  <2>3. QED
    BY <2>1, <2>2, BeginsInv
<1>5. CASE Answered(l) \/ Rejected(l)
  BY <1>5, AnsweredInv, RejectedInv
<1>6. CASE Strike(l) \/ Advance(l) \/ LogCompleted(l) \/ Remove(l)
  BY <1>6, StrikeInv, AdvanceInv, CompletedInv, RemoveInv
<1>7. QED
  BY <1>2, <1>3, <1>4, <1>5, <1>6 DEF LoopStep

\* What a purge gives up belongs to a replaced enrollment.
LEMMA GoneAreRetired ==
    ASSUME Inv, RetiredUnknown \/ ExpireRetired
    PROVE  \E gone : /\ Purges(gone)
                     /\ \A r \in gone : /\ r \in Runs /\ Known(r)
                                        /\ journal[r].generation < generation
<1>1. Basics /\ "retired" \in Loops
  BY DEF Inv, Loops
<1>2. Apart("retired", loop["retired"])
  BY <1>1 DEF Inv, Reporters, AtHand
<1>3. /\ \A r \in RunsOf(loop["retired"]) : Known(r) => journal[r].generation < generation
      /\ \A g \in loop["retired"].generations : g < generation
  BY <1>2 DEF Apart
<1>4. CASE RetiredUnknown
  BY <1>1, <1>3, <1>4, UnknownPurges
<1>5. CASE ExpireRetired
  BY <1>1, <1>3, <1>5, ExpirePurges
<1>6. QED
  BY <1>4, <1>5

LEMMA RetiredStepInv ==
    ASSUME Inv, RetiredStep
    PROVE  Inv'
<1>1. Basics /\ "retired" \in Loops
  BY DEF Inv, Loops
<1>2. CASE LoadRetired \/ CollectRetired \/ ForgetRetired
  BY <1>1, <1>2, LoadMoves, CollectMoves, ForgetMoves, RestsBegins, QuietBeginsInv
<1>3. CASE RetiredUnknown \/ ExpireRetired
  BY <1>3, GoneAreRetired, PurgesInv
<1>4. QED
  BY <1>2, <1>3 DEF RetiredStep

\* A step that leaves the journal, the reporters and the control plane alone.
LEMMA AloneInv ==
    ASSUME Inv, Basics', Generations',
           UNCHANGED <<generation, setup, journal, disk, active, loop, server, accepted, purged>>
    PROVE  Inv'
<1>1. Basics /\ AllSound /\ AllPaired /\ ServerLogs /\ Running /\ Reporters
  BY DEF Inv
<1>2. ServerGrows /\ Saved
  BY <1>1, SameServer DEF Saved
<1>3. AllSound' /\ AllPaired'
  BY <1>1, <1>2, AllSoundKept, AllPairedKept
<1>4. ServerLogs' /\ Running'
  BY <1>1 DEF ServerLogs, LogWhole, Running, Known
<1>5. ASSUME NEW l \in Loops PROVE AtHand(l, loop[l])'
  <2>1. PICK s : s = loop[l]
    OBVIOUS
  <2>2. s \in Loop /\ (s.step \in AtRun => s.run \in Runs) /\ AtHand(l, s)
    BY <1>1, <2>1, LoopTypes DEF Reporters
  <2>3. \A q \in RunsOf(s) : Keeps(q)
    BY <1>1, <2>1, LoopTypes, SameKeeps
  <2>4. AtHand(l, s)'
    BY <1>1, <1>2, <2>2, <2>3, AtHandKept
  <2>5. QED
    BY <2>1, <2>4
<1>6. QED
  BY <1>3, <1>4, <1>5 DEF Inv, Reporters

\* A daemon that is down.
LEMMA DownInv ==
    ASSUME Inv, Basics', Generations', ~up', server' = server,
           \A r \in Runs : disk'[r] # None => Sound(r, disk[r])'
    PROVE  Inv'
<1>1. journal' = disk' /\ active' = {} /\ \A l \in Loops : loop'[l] = IdleLoop
  BY DEF Basics, Quiet
<1>2. AllSound'
  BY <1>1 DEF AllSound, Entries
<1>3. AllPaired'
  BY <1>1 DEF AllPaired, Paired
<1>4. Running' /\ ServerLogs'
  BY <1>1 DEF Running, Inv, ServerLogs, LogWhole
<1>5. ASSUME NEW l \in Loops PROVE AtHand(l, loop[l])'
  <2>1. PICK s : s = IdleLoop
    OBVIOUS
  <2>2. s.step = "idle" /\ RunsOf(s) = {} /\ s.generations = {}
    BY <2>1 DEF IdleLoop, RunsOf
  <2>3. AtHand(l, s)'
    BY <2>2 DEF AtHand, Apart, Pending, Sent, Uploading, AtRun, Steps
  <2>4. QED
    BY <1>1, <2>1, <2>3
<1>6. QED
  BY <1>2, <1>3, <1>4, <1>5 DEF Inv, Reporters

\* The setup goes on, or fails, within an enrollment.
LEMMA SoundInSetup ==
    ASSUME server' = server, generation' = generation,
           \/ setup' \in {"stopped", "failed"} \/ setup' = setup
           \/ setup = "settled" /\ setup' = "enrolling",
           NEW r, NEW e, Sound(r, e)
    PROVE  Sound(r, e)'
<1>1. OutcomesOf(r)' = OutcomesOf(r) /\ Uploaded(r, e.next, e.completed)'
  BY DEF OutcomesOf, Uploaded, Sound
<1>2. QED
  BY <1>1 DEF Sound, HasOutcome, EventSet

LEMMA StopInv ==
    ASSUME Inv, Stop \/ BeginSetup
    PROVE  Inv'
<1>1. Basics'
  BY StopBasics DEF Inv
<1>2. /\ ~up' /\ server' = server /\ generation' = generation /\ disk' = disk
      /\ retired' = retired /\ (setup' = "stopped" \/ setup' = setup)
  <2>1. CASE Stop
    BY <2>1 DEF Stop, Down
  <2>2. CASE BeginSetup
    BY <2>2 DEF BeginSetup, Down
  <2>3. QED
    BY <2>1, <2>2
<1>3. Generations'
  BY <1>2 DEF Inv, Generations
<1>4. \A r \in Runs : disk'[r] # None => Sound(r, disk[r])'
  <2> SUFFICES ASSUME NEW r \in Runs, disk'[r] # None PROVE Sound(r, disk[r])'
    OBVIOUS
  <2>1. PICK e : e = disk[r]
    OBVIOUS
  <2>2. Sound(r, e)
    BY <1>2, <2>1 DEF Inv, AllSound, Entries
  <2>3. Sound(r, e)'
    BY <1>2, <2>2, SoundInSetup
  <2>4. QED
    BY <1>2, <2>1, <2>3
<1>5. QED
  BY <1>1, <1>2, <1>3, <1>4, DownInv

\* The service manager does not start the daemon after a failed setup.
LEMMA RunStarts ==
    ASSUME ~RestartsAfterFailedSetup, Inv, Run
    PROVE  Inv'
<1>1. Basics'
  BY RunBasicsStep DEF Inv
<1>2. UNCHANGED <<generation, setup, retired, journal, disk, active, loop, server, accepted,
                  purged>> /\ setup = "none"
  BY DEF Run, runVars
<1>3. Generations'
  BY <1>2 DEF Inv, Generations
<1>4. QED
  BY <1>1, <1>2, <1>3, AloneInv

LEMMA HeartbeatInv ==
    ASSUME Inv, HeartbeatStep
    PROVE  Inv'
<1>1. /\ Basics'
      /\ UNCHANGED <<setupVars, runVars, loop, server, accepted, purged, bounds>>
  BY HeartbeatFacts DEF Inv
<1>2. Generations'
  BY <1>1 DEF Inv, Generations, setupVars
<1>3. QED
  BY <1>1, <1>2, AloneInv DEF setupVars, runVars

\* What a re-enrollment leaves of an entry is sound.
LEMMA RetiredSound ==
    ASSUME NEW r, NEW e \in Entry, NEW f, Sound(r, e), Retires(e, f),
           server' = server, generation' = generation, setup' = "settled"
    PROVE  Sound(r, f)'
<1>1. OutcomesOf(r)' = OutcomesOf(r) /\ Uploaded(r, e.next, e.completed)'
  BY DEF OutcomesOf, Uploaded, Sound
<1>2. f.state = "finished" /\ f.generation = e.generation /\ f.next = e.next
      /\ f.completed = e.completed
  BY DEF Retires
<1>3. HasOutcome(e) => HasOutcome(f)
  <2>1. Outcomes \subseteq TerminalKinds
    BY DEF TerminalKinds
  <2>2. QED
    BY <2>1 DEF HasOutcome, Retires
<1>4. HasOutcome(f) \/ OutcomesOf(r)' # {}
  BY <1>1, <1>3 DEF Retires, Sound
<1>5. e.generation <= generation'
  BY DEF Sound
<1>6. QED
  BY <1>1, <1>2, <1>4, <1>5 DEF Sound, HasOutcome, EventSet

LEMMA SettleInv ==
    ASSUME Inv, SettleJournal
    PROVE  Inv'
<1>1. Basics /\ Basics'
  BY SettleBasics DEF Inv
<1>2. /\ server' = server /\ generation' = generation /\ retired' = retired /\ up' = up
      /\ setup' = "settled" /\ ~up
  BY <1>1, SettleFacts DEF SettleJournal
<1>3. Generations'
  BY <1>2 DEF Inv, Generations
<1>4. \A r \in Runs : disk'[r] # None => Sound(r, disk[r])'
  <2> SUFFICES ASSUME NEW r \in Runs, disk'[r] # None PROVE Sound(r, disk[r])'
    OBVIOUS
  <2>1. PICK e, f : e = disk[r] /\ f = disk'[r]
    OBVIOUS
  <2>2. e # None => Sound(r, e)
    BY <2>1 DEF Inv, AllSound, Entries
  <2>3. \/ f = e /\ (e # None => e \in Entry /\ e.generation # generation)
        \/ e # None /\ e \in Entry /\ Retires(e, f)
    BY <1>1, <2>1, SettleFacts
  <2>4. CASE f = e /\ e \in Entry /\ e.generation # generation
    <3>1. Sound(r, e) /\ e # None
      BY <2>1, <2>2, <2>4
    <3>2. OutcomesOf(r)' = OutcomesOf(r) /\ Uploaded(r, e.next, e.completed)'
      BY <1>2, <3>1 DEF OutcomesOf, Uploaded, Sound
    <3>3. e.state = "finished" /\ e.generation <= generation'
      BY <1>2, <2>4, <3>1 DEF Sound
    <3>4. HasOutcome(e) \/ OutcomesOf(r)' # {}
      BY <3>1, <3>2, <3>3 DEF Sound
    <3>5. Sound(r, e)'
      BY <1>2, <3>2, <3>3, <3>4 DEF Sound, HasOutcome, EventSet
    <3>6. QED
      BY <2>1, <2>4, <3>5
  <2>5. CASE e # None /\ e \in Entry /\ Retires(e, f)
    <3>1. Sound(r, f)'
      BY <1>2, <2>2, <2>5, RetiredSound
    <3>2. QED
      BY <2>1, <3>1
  <2>6. QED
    BY <2>1, <2>3, <2>4, <2>5
<1>5. QED
  BY <1>1, <1>2, <1>3, <1>4, DownInv

LEMMA EnrollInv ==
    ASSUME Inv, RetireEnrollment \/ EnrollSucceeds \/ SetupFails
    PROVE  Inv'
<1>1. Basics /\ Basics' /\ generation \in Nat
  BY SetupBasics DEF Inv, SetupStep, Basics, Typed, TypeOK
<1>2. /\ server' = server /\ disk' = disk /\ up' = up /\ ~up
  BY <1>1 DEF RetireEnrollment, EnrollSucceeds, SetupFails, runVars, Basics, Quiet
<1>3. Generations'
  <2>1. CASE RetireEnrollment
    BY <1>1, <1>2, <2>1 DEF Inv, Generations, RetireEnrollment
  <2>2. CASE EnrollSucceeds
    <3>1. \A g \in retired : g \in Nat /\ g <= generation
      BY <1>1 DEF Inv, Generations, Basics, Typed, TypeOK
    <3>2. QED
      BY <1>1, <1>2, <2>2, <3>1 DEF Generations, EnrollSucceeds
  <2>3. CASE SetupFails
    BY <1>2, <2>3 DEF Inv, Generations, SetupFails
  <2>4. QED
    BY <2>1, <2>2, <2>3
<1>4. \A r \in Runs : disk'[r] # None => Sound(r, disk[r])'
  <2> SUFFICES ASSUME NEW r \in Runs, disk'[r] # None PROVE Sound(r, disk[r])'
    OBVIOUS
  <2>1. PICK e : e = disk[r]
    OBVIOUS
  <2>2. Sound(r, e) /\ e \in Entry
    BY <1>1, <1>2, <2>1 DEF Inv, AllSound, Entries, Basics, Typed, TypeOK
  <2>3. CASE RetireEnrollment \/ SetupFails
    <3>1. generation' = generation /\ (setup' = "failed" \/ (setup = "settled" /\ setup' = "enrolling"))
      BY <2>3 DEF RetireEnrollment, SetupFails
    <3>2. setup' \in {"stopped", "failed"} \/ (setup = "settled" /\ setup' = "enrolling")
      BY <3>1
    <3>3. Sound(r, e)'
      BY <1>2, <2>2, <3>1, <3>2, SoundInSetup
    <3>4. QED
      BY <1>2, <2>1, <3>3
  <2>4. CASE EnrollSucceeds
    <3>1. setup = "enrolling" /\ generation' = generation + 1
      BY <2>4 DEF EnrollSucceeds
    <3>2. OutcomesOf(r)' = OutcomesOf(r) /\ Uploaded(r, e.next, e.completed)'
      BY <1>2, <2>2 DEF OutcomesOf, Uploaded, Sound
    <3>3. e.generation \in Nat /\ e.generation <= generation /\ e.state = "finished"
      BY <2>2, <3>1 DEF Sound, Entry
    <3>4. e.generation <= generation' /\ e.generation # generation'
      BY <1>1, <3>1, <3>3
    <3>5. HasOutcome(e) \/ OutcomesOf(r)' # {}
      BY <2>2, <3>2, <3>3 DEF Sound
    <3>6. Sound(r, e)'
      BY <3>2, <3>3, <3>4, <3>5 DEF Sound, HasOutcome, EventSet
    <3>7. QED
      BY <1>2, <2>1, <3>6
  <2>5. QED
    BY <2>3, <2>4
<1>5. QED
  BY <1>1, <1>2, <1>3, <1>4, DownInv

-----------------------------------------------------------------------------
(* The invariant holds *)

LEMMA InvInit ==
    ASSUME Init
    PROVE  Inv
<1>1. Basics /\ Generations /\ Running
  BY BasicsInit DEF Init, Generations, Running
<1>2. AllSound /\ AllPaired /\ ServerLogs
  BY DEF Init, AllSound, Entries, AllPaired, ServerLogs, LogWhole
<1>3. ASSUME NEW l \in Loops PROVE AtHand(l, loop[l])
  <2>1. loop[l] = IdleLoop
    BY DEF Init
  <2>2. loop[l].step = "idle" /\ RunsOf(loop[l]) = {} /\ loop[l].generations = {}
    BY <2>1 DEF IdleLoop, RunsOf
  <2>3. QED
    BY <2>2 DEF AtHand, Apart, Pending, Sent, Uploading, AtRun, Steps
<1>4. QED
  BY <1>1, <1>2, <1>3 DEF Inv, Reporters

LEMMA InvNext ==
    ASSUME ~RestartsAfterFailedSetup, Inv, [Next]_vars
    PROVE  Inv'
<1>1. Basics
  BY DEF Inv
<1>2. CASE \E r \in Runs : RunStep(r)
  BY <1>2, RunStepInv
<1>3. CASE \E l \in Loops : LoopStep(l)
  BY <1>3, LoopStepInv
<1>4. CASE FlushJournal
  BY <1>1, <1>4, FlushMoves, QuietBeginsInv DEF Loops
<1>5. CASE ResultReported
  BY <1>5, ReportedInv
<1>6. CASE RetiredStep
  BY <1>6, RetiredStepInv
<1>7. CASE HeartbeatStep
  BY <1>7, HeartbeatInv
<1>8. CASE SetupStep
  BY <1>8, StopInv, SettleInv, EnrollInv DEF SetupStep
<1>9. CASE Stop
  BY <1>9, StopInv
<1>10. CASE Run
  BY <1>10, RunStarts
<1>11. CASE UNCHANGED vars
  <2>1. Basics'
    BY <1>1, <1>11, BasicsNext
  <2>2. Generations'
    BY <1>11 DEF vars, Inv, Generations
  <2>3. QED
    BY <1>11, <2>1, <2>2, AloneInv DEF vars
<1>12. QED
  BY <1>2, <1>3, <1>4, <1>5, <1>6, <1>7, <1>8, <1>9, <1>10, <1>11 DEF Next

LEMMA InvAlways ==
    ASSUME ~RestartsAfterFailedSetup
    PROVE  Spec => []Inv
<1>1. Init => Inv
  BY InvInit
<1>2. Inv /\ [Next]_vars => Inv'
  BY InvNext
<1>3. QED
  BY <1>1, <1>2, PTL DEF Spec

\* flushCommand and flushRetiredCommand copy a batch, send it without the mutex
\* and strike the first len(batch) events afterwards: whatever the runs, the
\* copies to replicas, the other reporter, a purge or a restart did meanwhile,
\* those are the events that were sent.  The hypothesis is about the service
\* manager: a daemon started after a setup that failed would have two reporters
\* on one enrollment.
THEOREM BatchPrefix ==
    ASSUME ~RestartsAfterFailedSetup
    PROVE  Spec => []BatchIsPrefix
<1>1. Inv => BatchIsPrefix
  <2> SUFFICES ASSUME Inv, NEW l \in Loops, loop[l].step \in {"events", "strike"},
                      Known(loop[l].run)
               PROVE  LET s == loop[l]
                      IN  /\ Len(s.batch) <= Len(journal[s.run].events)
                          /\ s.batch = SubSeq(journal[s.run].events, 1, Len(s.batch))
    BY DEF BatchIsPrefix
  <2>1. Basics /\ loop[l].step \in AtRun /\ Pending(loop[l])
    BY DEF Inv, Reporters, AtHand, AtRun, Steps
  <2>2. loop[l].run \in Runs /\ loop[l] \in Loop
    BY <2>1, LoopTypes
  <2>3. journal[loop[l].run] \in Entry
    BY <2>1, <2>2, KnownFacts
  <2>4. PICK a, b : a = loop[l].batch /\ b = journal[loop[l].run].events
    OBVIOUS
  <2>5. a \in Seq(Event) /\ b \in Seq(Event)
    BY <2>2, <2>3, <2>4 DEF Loop, Entry
  <2>6. Prefixed(a, b)
    BY <2>1, <2>4 DEF Pending
  <2>7. Len(a) <= Len(b) /\ Len(a) \in Nat
    BY <2>5, <2>6 DEF Prefixed
  <2>8. a = SubSeq(b, 1, Len(a))
    BY <2>5, <2>6, <2>7 DEF Prefixed
  <2>9. QED
    BY <2>4, <2>7, <2>8
<1>2. QED
  BY <1>1, InvAlways, PTL

\* flushCommand counts the chunks it recorded, flushRetiredCommand divides the
\* size of the log: when either tells the control plane that a log is complete,
\* all its chunks are there and the count is right, although NextLogChunk is
\* saved after each upload and the save may fail or a restart lose it.
THEOREM LogsWhole ==
    ASSUME ~RestartsAfterFailedSetup
    PROVE  Spec => []LogWhole
<1>1. Inv => LogWhole
  BY DEF Inv, ServerLogs
<1>2. QED
  BY <1>1, InvAlways, PTL

-----------------------------------------------------------------------------
(* What leaves the saved journal *)

\* What a step may take of an entry.
Careful(r) ==
    Known(r) /\ r \notin purged' =>
       /\ journal'[r] = None => AllReported(r)
       /\ \A v \in EventSet(journal[r]) : v.kind \in TerminalKinds =>
             \/ journal'[r] # None /\ v \in EventSet(journal'[r])
             \/ <<r, v>> \in server.events

\* What DurableUntilAccepted and ForgottenWhenReported say of a step and a run.
LetsGo(r) ==
    disk[r] # None =>
       /\ \A v \in EventSet(disk[r]) : v.kind \in TerminalKinds =>
             \/ disk'[r] # None /\ v \in EventSet(disk'[r])
             \/ <<r, v>> \in server.events
             \/ r \in purged'
       /\ disk'[r] = None => r \in purged' \/ AllReported(r)

\* A save of a careful step: memory was ahead of the disk only by what the
\* control plane has.
LEMMA SavesCareful ==
    ASSUME Inv, NEW r \in Runs, purged \subseteq purged',
           disk' = disk \/ (disk' = journal' /\ Careful(r))
    PROVE  LetsGo(r)
<1> SUFFICES ASSUME disk[r] # None, r \notin purged', disk' = journal', Careful(r)
             PROVE  /\ \A v \in EventSet(disk[r]) : v.kind \in TerminalKinds =>
                          \/ disk'[r] # None /\ v \in EventSet(disk'[r])
                          \/ <<r, v>> \in server.events
                    /\ disk'[r] = None => AllReported(r)
  BY DEF LetsGo
<1>1. Paired(r) /\ r \notin purged
  BY DEF Inv, AllPaired
<1>2. CASE ~Known(r)
  <2>1. AllReported(r)
    BY <1>1, <1>2 DEF Paired, Known
  <2>2. \A v \in EventSet(disk[r]) : v.kind \in TerminalKinds => <<r, v>> \in server.events
    BY <1>1, <1>2 DEF Paired, Known
  <2>3. QED
    BY <2>1, <2>2
<1>3. CASE Known(r)
  <2>1. /\ journal'[r] = None => AllReported(r)
        /\ \A v \in EventSet(journal[r]) : v.kind \in TerminalKinds =>
             \/ journal'[r] # None /\ v \in EventSet(journal'[r])
             \/ <<r, v>> \in server.events
    BY <1>3 DEF Careful
  <2>2. \A v \in EventSet(disk[r]) : v.kind \in TerminalKinds =>
           v \in EventSet(journal[r]) \/ <<r, v>> \in server.events
    BY <1>1 DEF Paired
  <2>3. disk'[r] = journal'[r]
    OBVIOUS
  <2>4. QED
    BY <2>1, <2>2, <2>3
<1>4. QED
  BY <1>2, <1>3

LEMMA SameCareful ==
    ASSUME NEW r, journal'[r] = journal[r]
    PROVE  Careful(r)
BY DEF Careful, Known, EventSet

\* More events.
LEMMA GrowsCareful ==
    ASSUME Basics, NEW r \in Runs, Known(r), Grows(r, journal[r], journal'[r])
    PROVE  Careful(r)
<1>1. journal[r] \in Entry /\ journal'[r] \in Entry /\ journal'[r] # None
  BY KnownFacts, EntryAssumption DEF Grows
<1>2. EventSet(journal[r]) \subseteq EventSet(journal'[r])
  <2>1. PICK e, f : e = journal[r] /\ f = journal'[r]
    OBVIOUS
  <2>2. e \in Entry /\ f \in Entry /\ Prefixed(e.events, f.events)
    BY <1>1, <2>1 DEF Grows
  <2>3. EventSet(e) \subseteq EventSet(f)
    BY <2>2, PrefixedEvents
  <2>4. QED
    BY <2>1, <2>3
<1>3. QED
  BY <1>1, <1>2 DEF Careful

LEMMA RunStepCareful ==
    ASSUME Inv, NEW q \in Runs, RunStep(q), NEW r \in Runs
    PROVE  Saved /\ purged' = purged /\ Careful(r)
<1>1. Basics
  BY DEF Inv
<1>2. RunChanges(q)
  BY <1>1, AcceptChanges, StartChanges, CancelChanges, ProgressChanges, FinishChanges,
     ReconcileChanges, CopyChanges DEF RunStep
<1>3. r # q => journal'[r] = journal[r]
  BY <1>1, <1>2 DEF RunChanges, Basics, Typed, TypeOK
<1>4. Careful(q)
  <2>1. CASE Accept(q)
    <3>1. ~Known(q)
      BY <1>1, <2>1, AcceptChanges DEF Basics, Journaled, Known
    <3>2. QED
      BY <3>1 DEF Careful
  <2>2. CASE FinishOperation(q)
    <3>1. /\ q \in active
          /\ \/ journal' = journal
             \/ Known(q) /\ (~journal[q].log => Grows(q, journal[q], journal'[q]))
      BY <1>1, <2>2, FinishChanges
    <3>2. CASE journal' = journal
      BY <3>2, SameCareful
    <3>3. CASE Known(q) /\ (~journal[q].log => Grows(q, journal[q], journal'[q]))
      <4>1. journal[q].state = "running" /\ journal[q] \in Entries(q)
        BY <1>1, <3>1, <3>3, KnownFacts DEF Inv, Running
      <4>2. ~journal[q].log
        BY <4>1 DEF Inv, AllSound, Sound
      <4>3. QED
        BY <1>1, <3>3, <4>2, GrowsCareful
    <3>4. QED
      BY <3>1, <3>2, <3>3
  <2>3. CASE Start(q) \/ FinishWithoutExecution(q) \/ Progress(q) \/ ReconcileOne(q)
             \/ FinishReplication(q)
    <3>1. Known(q) /\ Grows(q, journal[q], journal'[q])
      BY <1>1, <2>3, StartChanges, CancelChanges, ProgressChanges, ReconcileChanges, CopyChanges
    <3>2. QED
      BY <1>1, <3>1, GrowsCareful
  <2>4. QED
    BY <2>1, <2>2, <2>3 DEF RunStep
<1>5. Careful(r)
  BY <1>3, <1>4, SameCareful
<1>6. QED
  BY <1>2, <1>5 DEF RunChanges

LEMMA MovesCareful ==
    ASSUME NEW l \in Loops, Moves(l), NEW r
    PROVE  Saved /\ purged' = purged /\ Careful(r)
BY SameCareful DEF Moves, ReporterChanges

\* A critical section of a reporter takes only from the run at hand.
LEMMA EditedCareful ==
    ASSUME NEW l \in Loops, NEW f, NEW t, Edited(l, f, t), NEW q, q = loop[l].run,
           Known(q) =>
              /\ f = None => AllReported(q)
              /\ \A v \in EventSet(journal[q]) : v.kind \in TerminalKinds =>
                    (f # None /\ v \in EventSet(f)) \/ <<q, v>> \in server.events,
           NEW r \in Runs
    PROVE  Saved /\ purged' = purged /\ Careful(r)
<1>1. Saved /\ purged' = purged
  BY DEF Edited, ReporterChanges
<1>2. journal'[r] = journal[r] \/ (r = q /\ Known(q) /\ journal'[q] = f)
  BY DEF Edited
<1>3. CASE journal'[r] = journal[r]
  BY <1>1, <1>3, SameCareful
<1>4. CASE r = q /\ Known(q) /\ journal'[q] = f
  BY <1>1, <1>4 DEF Careful
<1>5. QED
  BY <1>2, <1>3, <1>4

LEMMA LoopStepCareful ==
    ASSUME Inv, NEW l \in Loops, LoopStep(l), NEW r \in Runs
    PROVE  Saved /\ purged' = purged /\ Careful(r)
<1>1. Basics
  BY DEF Inv
<1>2. PICK s, q, e : s = loop[l] /\ q = s.run /\ e = journal[q]
  OBVIOUS
<1>3. CASE EndOfPass(l) \/ Take(l) \/ RequestFails(l) \/ AnswerLost(l) \/ Answered(l)
           \/ Rejected(l) \/ Unlink(l)
  <2>1. Moves(l)
    BY <1>1, <1>3, EndOfPassMoves, TakeMoves, RequestFailsMoves, LostMoves, AnsweredMoves,
       RejectedMoves, UnlinkMoves
  <2>2. QED
    BY <2>1, MovesCareful
<1>4. CASE Strike(l)
  <2>1. s.step = "strike" /\ q \in Runs
    BY <1>1, <1>2, <1>4, StrikeEdits
  <2>2. PICK f : f = Struck(e, s)
    OBVIOUS
  <2>3. PICK t : Edited(l, f, t)
    BY <1>1, <1>2, <1>4, <2>2, StrikeEdits
  <2>4. ASSUME Known(q)
        PROVE  /\ f # None
               /\ \A v \in EventSet(e) : v.kind \in TerminalKinds =>
                     v \in EventSet(f) \/ <<q, v>> \in server.events
    <3>1. /\ f \in Entry
          /\ \A v \in EventSet(e) : v.kind \in RetainedKinds =>
                v \in EventSet(f) \/ <<q, v>> \in server.events
      BY <1>2, <2>1, <2>2, <2>4, StrikeKeeps
    <3>2. TerminalKinds \subseteq RetainedKinds
      BY DEF TerminalKinds, RetainedKinds
    <3>3. QED
      BY <3>1, <3>2, EntryAssumption
  <2>5. QED
    BY <1>2, <2>3, <2>4, EditedCareful
<1>5. CASE Advance(l) \/ LogCompleted(l)
  <2>1. q \in Runs
    BY <1>1, <1>2, <1>5, AdvanceEdits, CompletedEdits
  <2>2. PICK f, t : /\ Edited(l, f, t)
                    /\ Known(q) => \/ f = [e EXCEPT !.next = s.next + 1]
                                   \/ f = [e EXCEPT !.completed = TRUE]
    BY <1>1, <1>2, <1>5, AdvanceEdits, CompletedEdits
  <2>3. ASSUME Known(q) PROVE f # None /\ EventSet(f) = EventSet(e)
    <3>1. e \in Entry
      BY <1>1, <1>2, <2>1, <2>3, KnownFacts
    <3>2. s.next + 1 \in Nat
      BY <1>1, <1>2, LoopTypes DEF Loop
    <3>3. f \in Entry /\ f.events = e.events
      BY <2>2, <2>3, <3>1, <3>2 DEF Entry
    <3>4. QED
      BY <3>3, EntryAssumption DEF EventSet
  <2>4. QED
    BY <1>2, <2>2, <2>3, EditedCareful
<1>6. CASE Remove(l)
  <2>1. s.step = "remove" /\ q \in Runs /\ up
    BY <1>1, <1>2, <1>6, RemoveEdits DEF Remove, Waiting
  <2>2. CASE Moves(l)
    BY <2>2, MovesCareful
  <2>3. ASSUME Settled(l, q), NEW t, Edited(l, None, t)
        PROVE  Saved /\ purged' = purged /\ Careful(r)
    <3>1. q \in RunsOf(loop[l])
      BY <1>2, <2>1, RunAssumption DEF RunsOf
    <3>2. Known(q) /\ disk[q] # None
      BY <1>1, <2>1, <2>3 DEF Settled, Basics, Journaled, Known
    <3>3. AllReported(q)
      BY <2>1, <2>3, <3>1, <3>2, SettledReported
    <3>4. EventSet(journal[q]) = {}
      BY <2>3 DEF Settled, EventSet
    <3>5. QED
      BY <1>2, <2>3, <3>3, <3>4, EditedCareful
  <2>4. QED
    BY <1>1, <1>2, <1>6, <2>2, <2>3, RemoveEdits
<1>7. QED
  BY <1>3, <1>4, <1>5, <1>6 DEF LoopStep

LEMMA ReportedCareful ==
    ASSUME Inv, ResultReported, NEW r \in Runs
    PROVE  Saved /\ purged' = purged /\ Careful(r)
<1>1. Basics /\ "live" \in Loops
  BY DEF Inv, Loops
<1>2. PICK q, e : q = loop["live"].run /\ e = journal[q]
  OBVIOUS
<1>3. PICK f, t : /\ Edited("live", f, t) /\ q \in Runs
                  /\ Known(q) => f = [e EXCEPT !.reported = TRUE]
  BY <1>1, <1>2, ReportedEdits
<1>4. ASSUME Known(q) PROVE f # None /\ EventSet(f) = EventSet(e)
  <2>1. e \in Entry
    BY <1>1, <1>2, <1>3, <1>4, KnownFacts
  <2>2. f \in Entry /\ f.events = e.events
    BY <1>3, <1>4, <2>1 DEF Entry
  <2>3. QED
    BY <2>2, EntryAssumption DEF EventSet
<1>5. QED
  BY <1>1, <1>2, <1>3, <1>4, EditedCareful

LEMMA RetiredStepCareful ==
    ASSUME Inv, RetiredStep, NEW r \in Runs
    PROVE  Saved /\ purged \subseteq purged' /\ Careful(r)
<1>1. Basics /\ "retired" \in Loops
  BY DEF Inv, Loops
<1>2. CASE LoadRetired \/ CollectRetired \/ ForgetRetired
  BY <1>1, <1>2, LoadMoves, CollectMoves, ForgetMoves, MovesCareful
<1>3. CASE RetiredUnknown \/ ExpireRetired
  <2>1. PICK gone : Purges(gone)
    BY <1>3, GoneAreRetired
  <2>2. Saved /\ purged' = purged \cup gone
    BY <2>1 DEF Purges, ReporterChanges
  <2>3. CASE r \in gone
    BY <2>2, <2>3 DEF Careful
  <2>4. CASE r \notin gone
    <3>1. journal'[r] = journal[r]
      BY <2>1, <2>4 DEF Purges
    <3>2. QED
      BY <2>2, <3>1, SameCareful
  <2>5. QED
    BY <2>2, <2>3, <2>4
<1>4. QED
  BY <1>2, <1>3 DEF RetiredStep

LEMMA SettleCareful ==
    ASSUME Inv, SettleJournal, NEW r \in Runs
    PROVE  disk' = journal' /\ purged' = purged /\ Careful(r)
<1>1. Basics
  BY DEF Inv
<1>2. PICK e, f : e = journal[r] /\ f = journal'[r]
  OBVIOUS
<1>3. /\ journal' = disk'
      /\ f = e \/ (f # None /\ Retires(e, f))
  BY <1>1, <1>2, SettleFacts
<1>4. CASE f = e
  BY <1>2, <1>3, <1>4, SameCareful DEF SettleJournal
<1>5. CASE f # None /\ Retires(e, f)
  BY <1>2, <1>3, <1>5 DEF Careful, Retires, SettleJournal
<1>6. QED
  BY <1>3, <1>4, <1>5

\* Whatever happens, only what the control plane has, or what was given up,
\* leaves the saved journal.
LEMMA NextLetsGo ==
    ASSUME Inv, [Next]_vars, NEW r \in Runs
    PROVE  LetsGo(r)
<1>1. Basics /\ "live" \in Loops
  BY DEF Inv, Loops
<1>2. \/ disk' = disk /\ purged' = purged
      \/ Saved /\ purged \subseteq purged' /\ Careful(r)
  <2>1. CASE \E q \in Runs : RunStep(q)
    BY <2>1, RunStepCareful
  <2>2. CASE \E l \in Loops : LoopStep(l)
    BY <2>2, LoopStepCareful
  <2>3. CASE FlushJournal
    BY <1>1, <2>3, FlushMoves, MovesCareful
  <2>4. CASE ResultReported
    BY <2>4, ReportedCareful
  <2>5. CASE RetiredStep
    BY <2>5, RetiredStepCareful
  <2>6. CASE HeartbeatStep
    BY <1>1, <2>6, HeartbeatFacts DEF runVars
  <2>7. CASE SettleJournal
    BY <2>7, SettleCareful DEF Saved
  <2>8. CASE BeginSetup
    BY <2>8 DEF BeginSetup
  <2>9. CASE RetireEnrollment \/ EnrollSucceeds \/ SetupFails
    BY <2>9 DEF RetireEnrollment, EnrollSucceeds, SetupFails, runVars
  <2>10. CASE Stop
    BY <2>10 DEF Stop
  <2>11. CASE Run
    BY <2>11 DEF Run, runVars
  <2>12. CASE UNCHANGED vars
    BY <2>12 DEF vars
  <2>13. QED
    BY <2>1, <2>2, <2>3, <2>4, <2>5, <2>6, <2>7, <2>8, <2>9, <2>10, <2>11, <2>12
    DEF Next, SetupStep
<1>3. QED
  BY <1>2, SavesCareful DEF Saved

\* flushCommand and flushRetiredCommand strike and delete, prepareRetiredGeneration
\* drops, a save may fail and the daemon may stop between any two of these: an
\* outcome or inventory event leaves the saved journal only when the control
\* plane has it, or with a run that is given up.
THEOREM Durable ==
    ASSUME ~RestartsAfterFailedSetup
    PROVE  Spec => DurableUntilAccepted
<1>1. Inv /\ [Next]_vars =>
        [\A r \in Runs : disk[r] # None =>
            \A e \in EventSet(disk[r]) : e.kind \in TerminalKinds =>
               \/ disk'[r] # None /\ e \in EventSet(disk'[r])
               \/ <<r, e>> \in server.events
               \/ r \in purged']_vars
  BY NextLetsGo DEF LetsGo
<1>2. QED
  BY <1>1, InvAlways, PTL DEF Spec, DurableUntilAccepted

\* flushCommand and flushRetiredCommand delete an entry that owes nothing any
\* more when they look at it again; its deletion may only be saved later, by
\* another save: a run leaves the saved journal only when the control plane has
\* its outcome, its whole log and, for a command of this enrollment, its result.
THEOREM Forgotten ==
    ASSUME ~RestartsAfterFailedSetup
    PROVE  Spec => ForgottenWhenReported
<1>1. Inv /\ [Next]_vars =>
        [\A r \in Runs : disk[r] # None /\ disk'[r] = None =>
            \/ r \in purged'
            \/ /\ OutcomesOf(r) # {}
               /\ disk[r].log => <<r, LogChunks>> \in server.complete
               /\ disk[r].generation = generation /\ r \notin Scheduled
                     => r \in server.results]_vars
  BY NextLetsGo DEF LetsGo, AllReported
<1>2. QED
  BY <1>1, InvAlways, PTL DEF Spec, ForgottenWhenReported
=============================================================================
