------------------------------ MODULE Collector ------------------------------
(***************************************************************************)
(* The eBPF program on tcp_v4_connect and the process that prints its      *)
(* events.  The entry probe stores the socket of a connect under the       *)
(* thread, the return probe fetches it, keeps connections of pods and      *)
(* writes a record into a ring buffer that the process reads in the order  *)
(* of reservation.                                                         *)
(*                                                                         *)
(* Probes of different threads run on different CPUs at the same time; a   *)
(* record that is reserved and not yet submitted holds up the reader.  Map *)
(* and ring buffer are bounded, and an operation on a full one fails.      *)
(***************************************************************************)
EXTENDS Integers, Sequences, FiniteSets

CONSTANTS
    Threads,      \* keys pid_tgid
    MaxEntries,   \* capacity of sock_store (4096)
    RingSize,     \* records the ring buffer holds
    MaxConns,     \* bound: connects in one behaviour
    MaxRestarts   \* bound: restarts of the collector

ASSUME CollectorAssumption ==
    MaxEntries \in Nat \ {0} /\ RingSize \in Nat \ {0}

VARIABLES
    sockStore,    \* sock_store: the socket stored for a thread, 0 if none
    cidrMap,      \* has populate_cidr_map run?
    ring,         \* records, the oldest first
    printed,      \* what handle_event has printed
    thread,       \* where a thread is, and what its probe has read
    (* Environment and observability variables. *)
    conns,        \* connects so far; a socket is the number of its connect
    restarts,     \* restarts so far (the bound's counter)
    stale,        \* threads whose last connect failed or was not seen to end
    owed,         \* connects of pods that succeeded with probes and cidr_map set up
    excused       \* connects that met a full map, a full ring or a restart

mapVars == <<sockStore, cidrMap>>
ghosts  == <<conns, restarts, stale, owed, excused>>
vars    == <<mapVars, ring, printed, thread, ghosts>>

NoSock == 0

\* What tcp_v4_connect returns: 0, -EINPROGRESS or another error.
Rets == {"ok", "inprogress", "error"}

\* idle; in tcp_v4_connect; in the return probe with the socket looked up, with
\* the record reserved.
ThreadPc == {"idle", "connect", "reserve", "fill"}

\* conn: the connect under way; hooked: the return probe will see its end;
\* sock: what the lookup returned; pod: the source is in the pod network.
Thread == [pc : ThreadPc, conn : Nat, hooked : BOOLEAN, sock : Nat, pod : BOOLEAN]

\* conn is the connect the record was written for, sock the one it describes.
Record == [by : Threads, conn : Nat, sock : Nat, submitted : BOOLEAN]

Idle == [pc |-> "idle", conn |-> 0, hooked |-> FALSE, sock |-> NoSock, pod |-> FALSE]

(* The types of the state; neither map nor ring buffer exceeds its capacity. *)
TypeOK ==
    /\ sockStore \in [Threads -> Nat] /\ cidrMap \in BOOLEAN
    /\ Cardinality({t \in Threads : sockStore[t] # NoSock}) <= MaxEntries
    /\ ring \in Seq(Record) /\ Len(ring) <= RingSize
    /\ printed \in Seq(Record)
    /\ thread \in [Threads -> Thread]
    /\ conns \in Nat /\ restarts \in Nat
    /\ stale \in SUBSET Threads /\ owed \in SUBSET Nat /\ excused \in SUBSET Nat

Init ==
    /\ sockStore = [t \in Threads |-> NoSock] /\ cidrMap = FALSE
    /\ ring = <<>> /\ printed = <<>>
    /\ thread = [t \in Threads |-> Idle]
    /\ conns = 0 /\ restarts = 0 /\ stale = {} /\ owed = {} /\ excused = {}

-----------------------------------------------------------------------------
(***************************************************************************)
(* The probes.                                                             *)
(***************************************************************************)
Stored == {t \in Threads : sockStore[t] # NoSock}

StoreNew(t, sock) == IF t \in Stored THEN sockStore[t] ELSE sock

\* BPF_ANY: an entry that is there is overwritten.
StoreAny(t, sock) == sock

Fits(t) == t \in Stored \/ Cardinality(Stored) < MaxEntries

\* tcp_v4_connect_entry.  The result of bpf_map_update_elem is ignored.  The
\* return probe is attached after this one: it may not see a connect that begins
\* while the collector starts.
EntryProbe(t, pod, hooked) ==
    /\ thread[t].pc = "idle" /\ conns < MaxConns
    /\ hooked \/ ~cidrMap
    /\ conns' = conns + 1
    /\ sockStore' = IF Fits(t) THEN [sockStore EXCEPT ![t] = StoreAny(t, conns + 1)]
                               ELSE sockStore
    /\ excused' = IF Fits(t) THEN excused ELSE excused \cup {conns + 1}
    /\ stale' = stale \ {t}
    /\ thread' = [thread EXCEPT ![t] =
           [Idle EXCEPT !.pc = "connect", !.conn = conns + 1,
                        !.hooked = hooked, !.pod = pod]]
    /\ UNCHANGED <<cidrMap, ring, printed, restarts, owed>>

Finish(t) == thread' = [thread EXCEPT ![t] = Idle]

\* tcp_v4_connect returns and no probe is attached to this call.
ReturnUnseen(t) ==
    /\ thread[t].pc = "connect" /\ ~thread[t].hooked
    /\ Finish(t)
    /\ stale' = stale \cup {t}
    /\ UNCHANGED <<mapVars, ring, printed, conns, restarts, owed, excused>>

SucceededNow(ret) == ret = "ok"

\* ret == 0 || ret == -115
Succeeded(ret) == ret \in {"ok", "inprogress"}

\* The source filter; an address that is not in cidr_map has no label.
FromPod(t) == cidrMap /\ thread[t].pod

\* The return probe begins.
Return(t, ret) ==
    /\ thread[t].pc = "connect" /\ thread[t].hooked
    /\ owed' = IF ret # "error" /\ FromPod(t) THEN owed \cup {thread[t].conn} ELSE owed

\* A failed connect: the probe leaves the entry where it is.
ReturnFailed(t) ==
    /\ \E ret \in Rets : Return(t, ret) /\ ~Succeeded(ret)
    /\ Finish(t)
    /\ stale' = stale \cup {t}
    /\ UNCHANGED <<mapVars, ring, printed, conns, restarts, excused>>

DeleteForPods(t) == IF thread[t].pod THEN NoSock ELSE sockStore[t]

\* bpf_map_delete_elem, before the source is looked at.
DeleteFirst(t) == NoSock

\* The lookup, the deletion of the entry and the filter.
ReturnOk(t) ==
    LET sock == sockStore[t] IN
    /\ \E ret \in Rets : Return(t, ret) /\ Succeeded(ret)
    /\ IF sock = NoSock
       THEN Finish(t) /\ UNCHANGED sockStore
       ELSE /\ sockStore' = [sockStore EXCEPT ![t] = DeleteFirst(t)]
            /\ IF FromPod(t)
               THEN thread' = [thread EXCEPT ![t] = [@ EXCEPT !.pc = "reserve", !.sock = sock]]
               ELSE Finish(t)
    /\ UNCHANGED <<cidrMap, ring, printed, conns, restarts, stale, excused>>

RoomAssumed == TRUE

\* if (!evt) return 0
Room == Len(ring) < RingSize

\* bpf_ringbuf_reserve
Reserve(t) ==
    /\ thread[t].pc = "reserve"
    /\ IF Room
       THEN /\ ring' = Append(ring, [by |-> t, conn |-> thread[t].conn,
                                     sock |-> thread[t].sock, submitted |-> FALSE])
            /\ thread' = [thread EXCEPT ![t] = [@ EXCEPT !.pc = "fill"]]
            /\ UNCHANGED excused
       ELSE /\ Finish(t)
            /\ excused' = excused \cup {thread[t].conn}
            /\ UNCHANGED ring
    /\ UNCHANGED <<mapVars, printed, conns, restarts, stale, owed>>

\* The record is filled, its timestamp included, and submitted.
Submit(t) ==
    /\ thread[t].pc = "fill"
    /\ ring' = [n \in DOMAIN ring |->
           IF ring[n].conn = thread[t].conn THEN [ring[n] EXCEPT !.submitted = TRUE]
                                            ELSE ring[n]]
    /\ Finish(t)
    /\ UNCHANGED <<mapVars, printed, ghosts>>

-----------------------------------------------------------------------------
(***************************************************************************)
(* The process.                                                            *)
(***************************************************************************)

\* populate_cidr_map, after the probes are attached.  An insertion that fails is
\* logged: the map then stays as it is here before this step.
Populate ==
    /\ ~cidrMap
    /\ cidrMap' = TRUE
    /\ UNCHANGED <<sockStore, ring, printed, thread, ghosts>>

\* ring_buffer__poll hands the oldest record to handle_event, once the loop runs.
Poll ==
    /\ cidrMap /\ ring # <<>> /\ Head(ring).submitted
    /\ printed' = Append(printed, Head(ring))
    /\ ring' = Tail(ring)
    /\ UNCHANGED <<mapVars, thread, ghosts>>

\* The process ends (signal, poll error) and starts again with new maps and new
\* probes; connects under way keep no return probe, running probes are waited for.
Restart ==
    /\ restarts < MaxRestarts
    /\ \A t \in Threads : thread[t].pc \in {"idle", "connect"}
    /\ restarts' = restarts + 1
    /\ sockStore' = [t \in Threads |-> NoSock] /\ cidrMap' = FALSE /\ ring' = <<>>
    /\ thread' = [t \in Threads |-> [thread[t] EXCEPT !.hooked = FALSE]]
    /\ stale' = {}
    /\ excused' = excused \cup {thread[t].conn : t \in Threads}
                          \cup {ring[n].conn : n \in DOMAIN ring}
    /\ UNCHANGED <<printed, conns, owed>>

ProbeStep(t) == ReturnUnseen(t) \/ ReturnFailed(t) \/ ReturnOk(t) \/ Reserve(t) \/ Submit(t)

Next ==
    \/ \E t \in Threads, pod, hooked \in BOOLEAN : EntryProbe(t, pod, hooked)
    \/ \E t \in Threads : ProbeStep(t)
    \/ Populate \/ Poll \/ Restart

Spec == Init /\ [][Next]_vars

(***************************************************************************)
(* A connect returns, a probe runs to its end, and the process gets on     *)
(* with its start and its polling.                                         *)
(***************************************************************************)
FairSpec ==
    /\ Spec
    /\ \A t \in Threads : WF_vars(ProbeStep(t))
    /\ WF_vars(Populate) /\ WF_vars(Poll)

-----------------------------------------------------------------------------
(***************************************************************************)
(* Properties.                                                             *)
(***************************************************************************)
Records == {ring[n] : n \in DOMAIN ring} \cup {printed[n] : n \in DOMAIN printed}

(* A record describes the connection whose return it was written for: an     *)
(* entry that a failed connect of the same thread left behind, or one that   *)
(* survived because the map was full, is never reported as this connection,  *)
(* and no connection is reported twice.                                      *)
EventsMatchConnection ==
    /\ \A r \in Records : r.sock = r.conn
    /\ \A m, n \in DOMAIN printed : printed[m].conn = printed[n].conn => m = n
    /\ \A m \in DOMAIN printed, n \in DOMAIN ring : printed[m].conn # ring[n].conn

(* An entry of sock_store belongs to a connect under way or to a thread      *)
(* whose last connect failed or was not seen to end: nothing else fills the  *)
(* map.                                                                      *)
EntriesAreAccountedFor ==
    \A t \in Stored : thread[t].pc = "connect" \/ t \in stale

(* tcp_connect.bpf.c:4, as far as the code goes: a successful connection of  *)
(* a pod is printed in the end, unless it met a full map or ring buffer or a *)
(* restart of the collector.  A slow CPU holds up the reader, and no record  *)
(* stays behind.                                                             *)
ConnectionsArePrinted ==
    \A c \in 1..MaxConns :
        c \in owed ~> c \in excused \/ \E n \in DOMAIN printed : printed[n].conn = c
=============================================================================
