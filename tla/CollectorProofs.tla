--------------------------- MODULE CollectorProofs ---------------------------
(***************************************************************************)
(* Proofs about Collector, for every set of threads, every capacity of the *)
(* map and of the ring buffer: neither exceeds its capacity, an entry of   *)
(* sock_store has an owner, and a record describes the connection whose    *)
(* return it was written for and is printed once.                          *)
(***************************************************************************)
EXTENDS Collector, FiniteSetTheorems, SequenceTheorems, TLAPS

\* The map holds finitely many entries, however many threads there are.
TypeInv == TypeOK /\ IsFiniteSet(Stored)

\* An entry of sock_store is the socket of the connect its thread is in, or was
\* left behind by a connect that has ended.
EntriesAreOwned ==
    \A t \in Stored :
        \/ thread[t].pc = "connect" /\ sockStore[t] = thread[t].conn
        \/ thread[t].pc = "idle" /\ t \in stale

\* A thread that is not idle has a connect of its own, and a probe that looked
\* its socket up got the one of that connect.
ThreadsAreApart ==
    /\ \A t \in Threads : thread[t].pc # "idle" => thread[t].conn \in 1..conns
    /\ \A t \in Threads :
           thread[t].pc \in {"reserve", "fill"} => thread[t].sock = thread[t].conn
    /\ \A t, u \in Threads :
           /\ thread[t].pc # "idle" /\ thread[u].pc # "idle"
           /\ thread[t].conn = thread[u].conn
           => t = u

\* A record describes its connect, and no two records have the same.
RecordsAreApart ==
    /\ \A n \in DOMAIN ring : ring[n].sock = ring[n].conn /\ ring[n].conn \in 1..conns
    /\ \A n \in DOMAIN printed :
           printed[n].sock = printed[n].conn /\ printed[n].conn \in 1..conns
    /\ \A m, n \in DOMAIN ring : ring[m].conn = ring[n].conn => m = n
    /\ \A m, n \in DOMAIN printed : printed[m].conn = printed[n].conn => m = n
    /\ \A m \in DOMAIN printed, n \in DOMAIN ring : printed[m].conn # ring[n].conn

\* A connect for which no record has been reserved yet has none.
ReservesAreFirst ==
    \A t \in Threads : thread[t].pc \in {"connect", "reserve"} =>
        /\ \A n \in DOMAIN ring : ring[n].conn # thread[t].conn
        /\ \A n \in DOMAIN printed : printed[n].conn # thread[t].conn

EventInv == EntriesAreOwned /\ ThreadsAreApart /\ RecordsAreApart /\ ReservesAreFirst

-----------------------------------------------------------------------------
(***************************************************************************)
(* Type correctness and the capacities.                                    *)
(***************************************************************************)

\* Storing or deleting the entry of one thread keeps the map within its capacity.
LEMMA StoreOne ==
    ASSUME TypeInv, NEW t \in Threads, NEW sock \in Nat,
           sock = NoSock \/ Fits(t),
           sockStore' = [sockStore EXCEPT ![t] = sock]
    PROVE  /\ sockStore' \in [Threads -> Nat]
           /\ IsFiniteSet(Stored') /\ Cardinality(Stored') <= MaxEntries
<1>1. Cardinality(Stored) <= MaxEntries /\ IsFiniteSet(Stored) /\ MaxEntries \in Nat
  BY CollectorAssumption DEF TypeInv, TypeOK, Stored
<1>2. Cardinality(Stored) \in Nat
  BY <1>1, FS_CardinalityType
<1>3. sockStore' \in [Threads -> Nat] /\ sockStore \in [Threads -> Nat]
  BY DEF TypeInv, TypeOK
<1>4. CASE sock = NoSock
  <2>1. Stored' = Stored \ {t}
    BY <1>3, <1>4 DEF Stored
  <2>2. IsFiniteSet(Stored \ {t}) /\ Cardinality(Stored \ {t}) <= Cardinality(Stored)
    BY <1>1, FS_Subset
  <2>3. Cardinality(Stored \ {t}) \in Nat
    BY <2>2, FS_CardinalityType
  <2> QED BY <1>1, <1>2, <1>3, <2>1, <2>2, <2>3
<1>5. CASE sock # NoSock
  <2>1. Stored' = Stored \cup {t}
    BY <1>3, <1>5 DEF Stored
  <2>2. /\ IsFiniteSet(Stored \cup {t})
        /\ Cardinality(Stored \cup {t}) =
              IF t \in Stored THEN Cardinality(Stored) ELSE Cardinality(Stored) + 1
    BY <1>1, FS_AddElement
  <2>3. t \in Stored \/ Cardinality(Stored) < MaxEntries
    BY <1>5 DEF Fits
  <2> QED BY <1>1, <1>2, <1>3, <2>1, <2>2, <2>3
<1> QED BY <1>4, <1>5

\* Updates of one thread's place keep the type of thread.
LEMMA FinishTyped ==
    ASSUME TypeOK, NEW t \in Threads, Finish(t)
    PROVE  thread' \in [Threads -> Thread]
BY DEF TypeOK, Finish, Thread, ThreadPc, Idle, NoSock

LEMMA TypeInit == Init => TypeInv
<1> SUFFICES ASSUME Init PROVE TypeInv
  OBVIOUS
<1>1. Stored = {}
  BY DEF Init, Stored
<1>2. IsFiniteSet(Stored) /\ Cardinality(Stored) <= MaxEntries
  BY <1>1, FS_EmptySet, CollectorAssumption
<1>3. ring \in Seq(Record) /\ printed \in Seq(Record) /\ Len(ring) <= RingSize
  BY CollectorAssumption DEF Init
<1>4. thread \in [Threads -> Thread]
  BY DEF Init, Thread, ThreadPc, Idle, NoSock
<1> QED BY <1>2, <1>3, <1>4 DEF Init, TypeInv, TypeOK, Stored, NoSock

LEMMA TypeEntry ==
    ASSUME TypeInv, NEW t \in Threads, NEW pod \in BOOLEAN, NEW hooked \in BOOLEAN,
           EntryProbe(t, pod, hooked)
    PROVE  TypeInv'
<1>1. conns + 1 \in Nat /\ excused \in SUBSET Nat /\ sockStore \in [Threads -> Nat]
  BY DEF TypeInv, TypeOK
<1>2. /\ sockStore' \in [Threads -> Nat]
      /\ IsFiniteSet(Stored') /\ Cardinality(Stored') <= MaxEntries
  <2>1. CASE Fits(t)
    <3>1. sockStore' = [sockStore EXCEPT ![t] = conns + 1]
      BY <2>1 DEF EntryProbe, StoreAny
    <3> QED BY <1>1, <2>1, <3>1, StoreOne
  <2>2. CASE ~Fits(t)
    BY <2>2 DEF EntryProbe, TypeInv, TypeOK, Stored
  <2> QED BY <2>1, <2>2
<1>3. excused' \in SUBSET Nat
  BY <1>1 DEF EntryProbe
<1>4. thread' \in [Threads -> Thread]
  BY <1>1 DEF EntryProbe, TypeInv, TypeOK, Thread, ThreadPc, Idle, NoSock
<1> QED BY <1>1, <1>2, <1>3, <1>4 DEF EntryProbe, TypeInv, TypeOK, Stored

LEMMA TypeReturns ==
    ASSUME TypeInv, NEW t \in Threads,
           ReturnUnseen(t) \/ ReturnFailed(t) \/ ReturnOk(t)
    PROVE  TypeInv'
<1>1. thread[t] \in Thread /\ owed \in SUBSET Nat
  BY DEF TypeInv, TypeOK
<1>2. owed' \in SUBSET Nat
  BY <1>1 DEF ReturnUnseen, ReturnFailed, ReturnOk, Return, Thread
<1>3. stale' \in SUBSET Threads
  BY DEF TypeInv, TypeOK, ReturnUnseen, ReturnFailed, ReturnOk
<1>4. thread' \in [Threads -> Thread]
  <2>1. CASE Finish(t)
    BY <2>1, FinishTyped DEF TypeInv
  <2>2. CASE thread' = [thread EXCEPT ![t] =
                           [@ EXCEPT !.pc = "reserve", !.sock = sockStore[t]]]
    BY <2>2 DEF TypeInv, TypeOK, Thread, ThreadPc
  <2> QED BY <2>1, <2>2 DEF ReturnUnseen, ReturnFailed, ReturnOk
<1>5. /\ sockStore' \in [Threads -> Nat]
      /\ IsFiniteSet(Stored') /\ Cardinality(Stored') <= MaxEntries
  <2>1. CASE sockStore' = [sockStore EXCEPT ![t] = NoSock]
    BY <2>1, StoreOne DEF NoSock
  <2>2. CASE UNCHANGED sockStore
    BY <2>2 DEF TypeInv, TypeOK, Stored
  <2> QED BY <2>1, <2>2 DEF ReturnUnseen, ReturnFailed, ReturnOk, DeleteFirst, mapVars
<1> QED BY <1>2, <1>3, <1>4, <1>5
        DEF TypeInv, TypeOK, Stored, ReturnUnseen, ReturnFailed, ReturnOk, mapVars

LEMMA TypeRing ==
    ASSUME TypeInv, NEW t \in Threads, Reserve(t) \/ Submit(t)
    PROVE  TypeInv'
<1>1. thread[t] \in Thread /\ ring \in Seq(Record) /\ Len(ring) <= RingSize
  BY DEF TypeInv, TypeOK
<1>2. thread' \in [Threads -> Thread]
  <2>1. CASE Finish(t)
    BY <2>1, FinishTyped DEF TypeInv
  <2>2. CASE thread' = [thread EXCEPT ![t] = [@ EXCEPT !.pc = "fill"]]
    BY <2>2 DEF TypeInv, TypeOK, Thread, ThreadPc
  <2> QED BY <2>1, <2>2 DEF Reserve, Submit
<1>3. ring' \in Seq(Record) /\ Len(ring') <= RingSize
  <2>1. CASE Reserve(t)
    <3> DEFINE new == [by |-> t, conn |-> thread[t].conn,
                       sock |-> thread[t].sock, submitted |-> FALSE]
    <3>1. new \in Record
      BY <1>1 DEF Record, Thread
    <3>2. CASE Room
      <4>1. ring' = Append(ring, new)
        BY <2>1, <3>2 DEF Reserve
      <4>2. Append(ring, new) \in Seq(Record) /\ Len(Append(ring, new)) = Len(ring) + 1
        BY <1>1, <3>1, AppendProperties
      <4>3. Len(ring) < RingSize /\ Len(ring) \in Nat /\ RingSize \in Nat
        BY <1>1, <3>2, CollectorAssumption DEF Room
      <4> HIDE DEF new
      <4> QED BY <4>1, <4>2, <4>3
    <3>3. CASE ~Room
      BY <1>1, <2>1, <3>3 DEF Reserve
    <3> QED BY <3>2, <3>3
  <2>2. CASE Submit(t)
    <3>1. \A n \in 1..Len(ring) : ring[n] \in Record
      BY <1>1
    <3>2. \A r \in Record : [r EXCEPT !.submitted = TRUE] \in Record
      BY DEF Record
    <3>3. DOMAIN ring = 1..Len(ring) /\ Len(ring) \in Nat
      BY <1>1
    <3>4. ring' \in [1..Len(ring) -> Record]
      BY <2>2, <3>1, <3>2, <3>3 DEF Submit
    <3> QED BY <1>1, <3>3, <3>4
  <2> QED BY <2>1, <2>2
<1>4. excused' \in SUBSET Nat
  BY <1>1 DEF TypeInv, TypeOK, Reserve, Submit, Thread, ghosts
<1>5. IsFiniteSet(Stored') /\ Cardinality(Stored') <= MaxEntries
  BY DEF TypeInv, TypeOK, Stored, Reserve, Submit, mapVars
<1> QED BY <1>2, <1>3, <1>4, <1>5
        DEF TypeInv, TypeOK, Stored, Reserve, Submit, mapVars, ghosts

LEMMA TypeProcess ==
    ASSUME TypeInv, Populate \/ Poll \/ Restart
    PROVE  TypeInv'
<1>1. CASE Populate
  BY <1>1 DEF TypeInv, TypeOK, Stored, Populate, ghosts
<1>2. CASE Poll
  <2>1. ring \in Seq(Record) /\ ring # <<>> /\ printed \in Seq(Record)
    BY <1>2 DEF TypeInv, TypeOK, Poll
  <2>2. /\ Head(ring) \in Record /\ Tail(ring) \in Seq(Record)
        /\ Len(Tail(ring)) = Len(ring) - 1
    BY <2>1, HeadTailProperties
  <2>3. Append(printed, Head(ring)) \in Seq(Record)
    BY <2>1, <2>2, AppendProperties
  <2>4. Len(Tail(ring)) <= RingSize
    <3>1. Len(ring) \in Nat /\ RingSize \in Nat /\ Len(ring) <= RingSize
      BY <2>1, CollectorAssumption DEF TypeInv, TypeOK
    <3> QED BY <2>2, <3>1
  <2> QED BY <1>2, <2>2, <2>3, <2>4 DEF TypeInv, TypeOK, Stored, Poll, mapVars, ghosts
<1>3. CASE Restart
  <2>1. Stored' = {}
    BY <1>3 DEF Restart, Stored
  <2>2. IsFiniteSet(Stored') /\ Cardinality(Stored') <= MaxEntries
    BY <2>1, FS_EmptySet, CollectorAssumption
  <2>3. thread' \in [Threads -> Thread]
    BY <1>3 DEF TypeInv, TypeOK, Restart, Thread
  <2>4. \A t \in Threads : thread[t].conn \in Nat
    BY DEF TypeInv, TypeOK, Thread
  <2>5. \A n \in DOMAIN ring : ring[n].conn \in Nat
    <3>1. ring \in Seq(Record)
      BY DEF TypeInv, TypeOK
    <3>2. \A n \in DOMAIN ring : ring[n] \in Record
      BY <3>1
    <3> QED BY <3>2 DEF Record
  <2>6. excused' \in SUBSET Nat
    BY <1>3, <2>4, <2>5 DEF TypeInv, TypeOK, Restart
  <2>7. ring' \in Seq(Record) /\ Len(ring') <= RingSize
    BY <1>3, CollectorAssumption DEF Restart
  <2>8. sockStore' \in [Threads -> Nat]
    BY <1>3 DEF Restart, NoSock
  <2>9. /\ cidrMap' \in BOOLEAN /\ restarts' \in Nat /\ stale' \in SUBSET Threads
        /\ UNCHANGED <<printed, conns, owed>>
    <3>1. restarts \in Nat
      BY DEF TypeInv, TypeOK
    <3>2. restarts' = restarts + 1 /\ cidrMap' = FALSE /\ stale' = {}
      BY <1>3 DEF Restart
    <3>3. UNCHANGED <<printed, conns, owed>>
      BY <1>3 DEF Restart
    <3>4. restarts' \in Nat
      BY <3>1, <3>2
    <3>5. cidrMap' \in BOOLEAN /\ stale' \in SUBSET Threads
      BY <3>2, Zenon
    <3> QED BY <3>3, <3>4, <3>5
  <2> QED BY <2>2, <2>3, <2>6, <2>7, <2>8, <2>9 DEF TypeInv, TypeOK, Stored
<1> QED BY <1>1, <1>2, <1>3

LEMMA TypeStep == TypeInv /\ [Next]_vars => TypeInv'
<1> SUFFICES ASSUME TypeInv, [Next]_vars PROVE TypeInv'
  OBVIOUS
<1>1. ASSUME NEW t \in Threads, ProbeStep(t) PROVE TypeInv'
  BY <1>1, TypeReturns, TypeRing DEF ProbeStep
<1>2. CASE UNCHANGED vars
  BY <1>2 DEF TypeInv, TypeOK, Stored, vars, mapVars, ghosts
<1> QED BY <1>1, <1>2, TypeEntry, TypeProcess DEF Next

(* Every reachable state has its type, and neither sock_store nor the ring   *)
(* buffer of tcp_connect.bpf.c ever holds more than its capacity.            *)
THEOREM CollectorTypeCorrect == Spec => []TypeOK
<1>1. TypeInv => TypeOK
  BY DEF TypeInv
<1> QED BY <1>1, TypeInit, TypeStep, PTL DEF Spec
-----------------------------------------------------------------------------
(***************************************************************************)
(* Entries, threads and records.                                           *)
(***************************************************************************)
LEMMA EventInit == Init => EventInv
<1> SUFFICES ASSUME Init PROVE EventInv
  OBVIOUS
<1>1. Stored = {}
  BY DEF Init, Stored
<1>2. \A t \in Threads : thread[t].pc = "idle"
  BY DEF Init, Idle
<1>3. DOMAIN ring = {} /\ DOMAIN printed = {}
  BY DEF Init
<1> QED BY <1>1, <1>2, <1>3
        DEF EventInv, EntriesAreOwned, ThreadsAreApart, RecordsAreApart, ReservesAreFirst

\* What EventInv needs of the types.
LEMMA Typed ==
    ASSUME TypeInv
    PROVE  /\ conns \in Nat /\ sockStore \in [Threads -> Nat]
           /\ thread \in [Threads -> Thread]
           /\ \A t \in Threads : thread[t].conn \in Nat
           /\ ring \in Seq(Record) /\ printed \in Seq(Record)
BY DEF TypeInv, TypeOK, Thread

\* A step of thread t leaves the other threads where they are.
Elsewhere(t) ==
    \A u \in Threads \ {t} : thread'[u] = thread[u] /\ sockStore'[u] = sockStore[u]

\* A thread becomes idle, with no entry or with a stale one.
LEMMA EventIdle ==
    ASSUME TypeInv, EventInv, NEW t \in Threads, Elsewhere(t),
           thread'[t].pc = "idle", sockStore'[t] = NoSock \/ t \in stale',
           stale \subseteq stale', UNCHANGED <<printed, conns>>,
           DOMAIN ring' = DOMAIN ring,
           \A n \in DOMAIN ring : ring'[n].conn = ring[n].conn /\ ring'[n].sock = ring[n].sock
    PROVE  EventInv'
<1>1. EntriesAreOwned'
  BY DEF EventInv, EntriesAreOwned, Stored, Elsewhere
<1>2. ThreadsAreApart'
  BY DEF EventInv, ThreadsAreApart, Elsewhere
<1>3. RecordsAreApart'
  BY DEF EventInv, RecordsAreApart
<1>4. ReservesAreFirst'
  BY DEF EventInv, ReservesAreFirst, Elsewhere
<1> QED BY <1>1, <1>2, <1>3, <1>4 DEF EventInv

LEMMA FinishElsewhere ==
    ASSUME TypeInv, NEW t \in Threads, Finish(t),
           \/ UNCHANGED sockStore
           \/ sockStore' = [sockStore EXCEPT ![t] = NoSock]
    PROVE  Elsewhere(t) /\ thread'[t].pc = "idle"
BY Typed DEF Elsewhere, Finish, Idle

LEMMA EventEntry ==
    ASSUME TypeInv, EventInv, NEW t \in Threads, NEW pod \in BOOLEAN,
           NEW hooked \in BOOLEAN, EntryProbe(t, pod, hooked)
    PROVE  EventInv'
<1>1. conns' = conns + 1 /\ UNCHANGED <<ring, printed>> /\ stale' = stale \ {t}
  BY DEF EntryProbe
<1>2. /\ \A u \in Threads \ {t} : thread'[u] = thread[u]
      /\ thread'[t].pc = "connect" /\ thread'[t].conn = conns + 1
  BY Typed DEF EntryProbe, Idle
<1>3. /\ \A u \in Threads \ {t} : sockStore'[u] = sockStore[u]
      /\ sockStore'[t] \in {NoSock, conns + 1}
  BY Typed DEF EntryProbe, Fits, StoreAny, Stored
<1>4. EntriesAreOwned'
  BY <1>1, <1>2, <1>3 DEF EventInv, EntriesAreOwned, Stored
<1>5. \A u \in Threads \ {t} : thread[u].pc # "idle" => thread[u].conn # conns + 1
  BY Typed DEF EventInv, ThreadsAreApart
<1>6. ThreadsAreApart'
  <2>1. \A u \in Threads : thread'[u].pc # "idle" => thread'[u].conn \in 1..conns'
    BY <1>1, <1>2, Typed DEF EventInv, ThreadsAreApart
  <2>2. \A u \in Threads :
           thread'[u].pc \in {"reserve", "fill"} => thread'[u].sock = thread'[u].conn
    BY <1>2 DEF EventInv, ThreadsAreApart
  <2>3. \A u, v \in Threads :
           /\ thread'[u].pc # "idle" /\ thread'[v].pc # "idle"
           /\ thread'[u].conn = thread'[v].conn
           => u = v
    BY <1>2, <1>5 DEF EventInv, ThreadsAreApart
  <2> QED BY <2>1, <2>2, <2>3 DEF ThreadsAreApart
<1>7. RecordsAreApart'
  BY <1>1, Typed DEF EventInv, RecordsAreApart
<1>8. ReservesAreFirst'
  <2>1. /\ \A n \in DOMAIN ring : ring[n].conn # conns + 1
        /\ \A n \in DOMAIN printed : printed[n].conn # conns + 1
    BY Typed DEF EventInv, RecordsAreApart
  <2> QED BY <1>1, <1>2, <2>1 DEF EventInv, ReservesAreFirst
<1> QED BY <1>4, <1>6, <1>7, <1>8 DEF EventInv

LEMMA EventReturns ==
    ASSUME TypeInv, EventInv, NEW t \in Threads,
           ReturnUnseen(t) \/ ReturnFailed(t) \/ ReturnOk(t)
    PROVE  EventInv'
<1>1. UNCHANGED <<ring, printed, conns>> /\ stale \subseteq stale'
  BY DEF ReturnUnseen, ReturnFailed, ReturnOk
<1>2. CASE Finish(t)
  <2>1. \/ UNCHANGED sockStore
        \/ sockStore' = [sockStore EXCEPT ![t] = NoSock]
    BY DEF ReturnUnseen, ReturnFailed, ReturnOk, DeleteFirst, mapVars
  <2>2. sockStore'[t] = NoSock \/ t \in stale'
    BY <2>1, Typed DEF ReturnUnseen, ReturnFailed, ReturnOk, DeleteFirst, mapVars
  <2>3. Elsewhere(t) /\ thread'[t].pc = "idle"
    BY <1>2, <2>1, FinishElsewhere
  <2> QED BY <1>1, <2>2, <2>3, EventIdle
<1>3. CASE /\ thread' = [thread EXCEPT ![t] =
                            [@ EXCEPT !.pc = "reserve", !.sock = sockStore[t]]]
           /\ sockStore[t] # NoSock /\ thread[t].pc = "connect"
           /\ sockStore' = [sockStore EXCEPT ![t] = NoSock]
  <2>1. Elsewhere(t)
    BY <1>3, Typed DEF Elsewhere
  <2>2. sockStore[t] = thread[t].conn
    BY <1>3 DEF EventInv, EntriesAreOwned, Stored
  <2>3. /\ thread'[t].pc = "reserve" /\ thread'[t].conn = thread[t].conn
        /\ thread'[t].sock = thread[t].conn
    BY <1>3, <2>2, Typed DEF Thread
  <2>4. EntriesAreOwned'
    <3>1. sockStore'[t] = NoSock
      BY <1>3, Typed
    <3> QED BY <1>1, <2>1, <3>1 DEF EventInv, EntriesAreOwned, Stored, Elsewhere
  <2>5. ThreadsAreApart'
    BY <1>1, <1>3, <2>1, <2>3 DEF EventInv, ThreadsAreApart, Elsewhere
  <2>6. RecordsAreApart'
    BY <1>1 DEF EventInv, RecordsAreApart
  <2>7. ReservesAreFirst'
    BY <1>1, <1>3, <2>1, <2>3 DEF EventInv, ReservesAreFirst, Elsewhere
  <2> QED BY <2>4, <2>5, <2>6, <2>7 DEF EventInv
<1> QED BY <1>2, <1>3 DEF ReturnUnseen, ReturnFailed, ReturnOk, Return, DeleteFirst

LEMMA EventReserve ==
    ASSUME TypeInv, EventInv, NEW t \in Threads, Reserve(t)
    PROVE  EventInv'
<1>1. UNCHANGED <<sockStore, printed, conns, stale>> /\ thread[t].pc = "reserve"
  BY DEF Reserve, mapVars
<1>2. CASE ~Room
  <2>1. Finish(t) /\ UNCHANGED ring
    BY <1>2 DEF Reserve
  <2>2. sockStore'[t] = NoSock
    BY <1>1 DEF EventInv, EntriesAreOwned, Stored
  <2>3. Elsewhere(t) /\ thread'[t].pc = "idle"
    BY <1>1, <2>1, FinishElsewhere
  <2> QED BY <1>1, <2>1, <2>2, <2>3, EventIdle
<1>3. CASE Room
  <2> DEFINE new == [by |-> t, conn |-> thread[t].conn,
                     sock |-> thread[t].sock, submitted |-> FALSE]
  <2>1. ring' = Append(ring, new)
    BY <1>3 DEF Reserve
  <2>2. new \in Record
    BY Typed DEF Record, Thread
  <2>3. new.conn = thread[t].conn /\ new.sock = thread[t].conn
    BY <1>1 DEF EventInv, ThreadsAreApart
  <2> HIDE DEF new
  <2>4. /\ DOMAIN ring = 1..Len(ring) /\ Len(ring) \in Nat
        /\ DOMAIN ring' = 1..(Len(ring) + 1)
        /\ \A n \in DOMAIN ring : ring'[n] = ring[n]
        /\ ring'[Len(ring) + 1] = new
    BY <2>1, <2>2, Typed, AppendProperties
  <2>5. /\ Elsewhere(t) /\ thread'[t].pc = "fill"
        /\ thread'[t].conn = thread[t].conn /\ thread'[t].sock = thread[t].sock
    BY <1>1, <1>3, Typed DEF Reserve, Elsewhere, Thread
  <2>6. EntriesAreOwned'
    BY <1>1, <2>5 DEF EventInv, EntriesAreOwned, Stored, Elsewhere
  <2>7. ThreadsAreApart'
    BY <1>1, <2>5 DEF EventInv, ThreadsAreApart, Elsewhere
  <2>8. /\ \A n \in DOMAIN ring : ring[n].conn # new.conn
        /\ \A n \in DOMAIN printed : printed[n].conn # new.conn
        /\ new.conn \in 1..conns
    BY <1>1, <2>3 DEF EventInv, ReservesAreFirst, ThreadsAreApart
  <2>9. \A n \in DOMAIN ring' : n \in DOMAIN ring \/ n = Len(ring) + 1
    BY <2>4
  <2>10. RecordsAreApart'
    <3>1. \A n \in DOMAIN ring' : ring'[n].sock = ring'[n].conn /\ ring'[n].conn \in 1..conns
      BY <2>3, <2>4, <2>8, <2>9 DEF EventInv, RecordsAreApart
    <3>2. \A m, n \in DOMAIN ring' : ring'[m].conn = ring'[n].conn => m = n
      BY <2>4, <2>8, <2>9 DEF EventInv, RecordsAreApart
    <3>3. \A m \in DOMAIN printed, n \in DOMAIN ring' : printed[m].conn # ring'[n].conn
      BY <2>4, <2>8, <2>9 DEF EventInv, RecordsAreApart
    <3> QED BY <1>1, <3>1, <3>2, <3>3 DEF EventInv, RecordsAreApart
  <2>11. ReservesAreFirst'
    <3> SUFFICES ASSUME NEW u \in Threads, thread'[u].pc \in {"connect", "reserve"}
                 PROVE  /\ \A n \in DOMAIN ring' : ring'[n].conn # thread'[u].conn
                        /\ \A n \in DOMAIN printed' : printed'[n].conn # thread'[u].conn
      BY DEF ReservesAreFirst
    <3>1. u # t /\ thread'[u] = thread[u]
      BY <2>5 DEF Elsewhere
    <3>2. thread[u].conn # new.conn
      BY <1>1, <2>3, <3>1 DEF EventInv, ThreadsAreApart
    <3> QED BY <1>1, <2>4, <2>9, <3>1, <3>2 DEF EventInv, ReservesAreFirst
  <2> QED BY <2>6, <2>7, <2>10, <2>11 DEF EventInv
<1> QED BY <1>2, <1>3

LEMMA EventSubmit ==
    ASSUME TypeInv, EventInv, NEW t \in Threads, Submit(t)
    PROVE  EventInv'
<1>1. /\ UNCHANGED <<sockStore, printed, conns, stale>>
      /\ thread[t].pc = "fill" /\ Finish(t)
  BY DEF Submit, mapVars, ghosts
<1>2. sockStore'[t] = NoSock
  BY <1>1 DEF EventInv, EntriesAreOwned, Stored
<1>3. Elsewhere(t) /\ thread'[t].pc = "idle"
  BY <1>1, FinishElsewhere
<1>4. \A n \in DOMAIN ring : ring[n] \in Record
  BY Typed
<1>5. /\ DOMAIN ring' = DOMAIN ring
      /\ \A n \in DOMAIN ring : ring'[n].conn = ring[n].conn /\ ring'[n].sock = ring[n].sock
  BY <1>4 DEF Submit, Record
<1> QED BY <1>1, <1>2, <1>3, <1>5, EventIdle

LEMMA EventPoll ==
    ASSUME TypeInv, EventInv, Poll
    PROVE  EventInv'
<1>1. UNCHANGED <<sockStore, thread, conns, stale>>
  BY DEF Poll, mapVars, ghosts
<1>2. ring \in Seq(Record) /\ ring # <<>> /\ printed \in Seq(Record)
  BY Typed DEF Poll
<1>3. /\ Head(ring) = ring[1] /\ Len(ring) \in Nat \ {0} /\ DOMAIN ring = 1..Len(ring)
      /\ Head(ring) \in Record
  BY <1>2
<1>4. /\ DOMAIN ring' = 1..(Len(ring) - 1)
      /\ \A n \in DOMAIN ring' : ring'[n] = ring[n + 1]
  BY <1>2, HeadTailProperties DEF Poll
<1>5. /\ DOMAIN printed = 1..Len(printed) /\ Len(printed) \in Nat
      /\ DOMAIN printed' = 1..(Len(printed) + 1)
      /\ \A n \in DOMAIN printed : printed'[n] = printed[n]
      /\ printed'[Len(printed) + 1] = ring[1]
  BY <1>2, <1>3, AppendProperties DEF Poll
<1>6. \A n \in DOMAIN printed' : n \in DOMAIN printed \/ n = Len(printed) + 1
  BY <1>5
<1>7. \A n \in DOMAIN ring' : n + 1 \in DOMAIN ring /\ n + 1 # 1
  BY <1>3, <1>4
<1>8. 1 \in DOMAIN ring
  BY <1>3
<1>9. EntriesAreOwned' /\ ThreadsAreApart'
  BY <1>1 DEF EventInv, EntriesAreOwned, ThreadsAreApart, Stored
<1>10. RecordsAreApart'
  <2>1. \A n \in DOMAIN ring' : ring'[n].sock = ring'[n].conn /\ ring'[n].conn \in 1..conns
    BY <1>4, <1>7 DEF EventInv, RecordsAreApart
  <2>2. \A n \in DOMAIN printed' :
            printed'[n].sock = printed'[n].conn /\ printed'[n].conn \in 1..conns
    BY <1>5, <1>6, <1>8 DEF EventInv, RecordsAreApart
  <2>3. \A m, n \in DOMAIN ring' : ring'[m].conn = ring'[n].conn => m = n
    <3> SUFFICES ASSUME NEW m \in DOMAIN ring', NEW n \in DOMAIN ring',
                        ring'[m].conn = ring'[n].conn
                 PROVE  m = n
      OBVIOUS
    <3>1. m + 1 = n + 1
      BY <1>4, <1>7 DEF EventInv, RecordsAreApart
    <3> QED BY <1>3, <1>4, <3>1
  <2>4. \A m, n \in DOMAIN printed' : printed'[m].conn = printed'[n].conn => m = n
    BY <1>5, <1>6, <1>8 DEF EventInv, RecordsAreApart
  <2>5. \A m \in DOMAIN printed', n \in DOMAIN ring' : printed'[m].conn # ring'[n].conn
    BY <1>4, <1>5, <1>6, <1>7, <1>8 DEF EventInv, RecordsAreApart
  <2> QED BY <1>1, <2>1, <2>2, <2>3, <2>4, <2>5 DEF RecordsAreApart
<1>11. ReservesAreFirst'
  BY <1>1, <1>4, <1>5, <1>6, <1>7, <1>8 DEF EventInv, ReservesAreFirst
<1> QED BY <1>9, <1>10, <1>11 DEF EventInv

LEMMA EventRestart ==
    ASSUME TypeInv, EventInv, Restart
    PROVE  EventInv'
<1>1. UNCHANGED <<printed, conns>> /\ DOMAIN ring' = {} /\ Stored' = {}
  BY DEF Restart, Stored
<1>2. \A t \in Threads : thread'[t].pc = thread[t].pc /\ thread'[t].conn = thread[t].conn
                         /\ thread'[t].sock = thread[t].sock
  BY Typed DEF Restart, Thread
<1>3. EntriesAreOwned'
  BY <1>1 DEF EntriesAreOwned
<1>4. ThreadsAreApart'
  BY <1>1, <1>2 DEF EventInv, ThreadsAreApart
<1>5. RecordsAreApart'
  BY <1>1 DEF EventInv, RecordsAreApart
<1>6. ReservesAreFirst'
  BY <1>1, <1>2 DEF EventInv, ReservesAreFirst
<1> QED BY <1>3, <1>4, <1>5, <1>6 DEF EventInv

LEMMA EventStep == TypeInv /\ EventInv /\ [Next]_vars => EventInv'
<1> SUFFICES ASSUME TypeInv, EventInv, [Next]_vars PROVE EventInv'
  OBVIOUS
<1>1. ASSUME NEW t \in Threads, ProbeStep(t) PROVE EventInv'
  BY <1>1, EventReturns, EventReserve, EventSubmit DEF ProbeStep
<1>2. CASE UNCHANGED vars \/ Populate
  BY <1>2 DEF EventInv, EntriesAreOwned, ThreadsAreApart, RecordsAreApart,
              ReservesAreFirst, Stored, Populate, vars, mapVars, ghosts
<1> QED BY <1>1, <1>2, EventEntry, EventPoll, EventRestart DEF Next

LEMMA EventsInvariant == Spec => [](TypeInv /\ EventInv)
BY TypeInit, TypeStep, EventInit, EventStep, PTL DEF Spec

(* For every number of threads, map size and ring size: a record of the ring *)
(* buffer and a printed event describe the connection whose return probe     *)
(* wrote them, and no connection is printed twice, whatever entries failed   *)
(* connects, a full map and restarts of the collector leave behind.          *)
THEOREM EventsDescribeTheirConnection == Spec => []EventsMatchConnection
<1>1. EventInv => EventsMatchConnection
  BY DEF EventInv, RecordsAreApart, EventsMatchConnection, Records
<1> QED BY <1>1, EventsInvariant, PTL

(* An entry of sock_store always belongs to a connect under way or to a      *)
(* thread whose last connect failed or was not seen to end: the return probe *)
(* of tcp_v4_connect leaves no other entry behind.                           *)
THEOREM EntriesHaveAnOwner == Spec => []EntriesAreAccountedFor
<1>1. EventInv => EntriesAreAccountedFor
  BY DEF EventInv, EntriesAreOwned, EntriesAreAccountedFor
<1> QED BY <1>1, EventsInvariant, PTL
=============================================================================
