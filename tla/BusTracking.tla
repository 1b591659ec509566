---------------------------- MODULE BusTracking ----------------------------
(***************************************************************************)
(* DebugSession's wrapping of the CPU's two bus callables.  Several        *)
(* sessions may track one CPU, each wrapping what it finds and keeping it  *)
(* to put back; the host may assign callables of its own at any time, to   *)
(* each of the two by itself, and so drop the wrappers that are there.     *)
(*                                                                         *)
(* A callable is the host's own one and the wrappers around it, innermost  *)
(* first.  What setting it does to the frame's routes is CPUFrame's.  What *)
(* the host assigned when (own, during, last) no session knows.            *)
(***************************************************************************)
EXTENDS Naturals, Sequences, SequencesExt

CONSTANTS
  Sessions,        \* DebugSession objects made with track_accesses=True
  OwnCallables,    \* callables of the host's
  None,
  LastFirst,       \* sessions are closed in the reverse of the order they were made
  MaxLog           \* bound: accesses of one step

Kinds == {"r", "w"}

ASSUME TrackingAssumption ==
  /\ OwnCallables # {}
  /\ None \notin OwnCallables \cup Seq(Kinds)
  /\ LastFirst \in BOOLEAN
  /\ MaxLog \in Nat

VARIABLES
  bus,         \* cpu.read_byte ("r") and cpu.write_byte ("w")
  own,         \* the callables the host assigned last while no session was open
  during,      \* and last while a session was the newest one open, or None
  last,        \* and last of all
  open,        \* the open sessions, the oldest first
  originals,   \* _originals of each session
  log,         \* _accesses of each session
  made         \* the accesses it should have logged since it last cleared that

given == <<own, during, last>>
vars  == <<bus, given, open, originals, log, made>>

Callables == [wraps : Seq(Sessions), calls : OwnCallables]
Pairs == [Kinds -> Callables]

TypeOK ==
  /\ bus \in Pairs
  /\ own \in [Kinds -> OwnCallables] /\ last \in [Kinds -> OwnCallables]
  /\ during \in [Sessions -> [Kinds -> OwnCallables \cup {None}]]
  /\ open \in Seq(Sessions) /\ IsInjective(open)
  /\ originals \in [Sessions -> Pairs \cup {None}]
  /\ log \in [Sessions -> Seq(Kinds) \cup {None}]
  /\ made \in [Sessions -> Seq(Kinds)]

Unassigned == [k \in Kinds |-> None]

Init ==
  /\ own \in [Kinds -> OwnCallables] /\ last = own
  /\ during = [s \in Sessions |-> Unassigned]
  /\ bus = [k \in Kinds |-> [wraps |-> <<>>, calls |-> own[k]]]
  /\ open = <<>>
  /\ originals = [s \in Sessions |-> None]
  /\ log = [s \in Sessions |-> None]
  /\ made = [s \in Sessions |-> <<>>]

IsOpen(s) == \E i \in DOMAIN open : open[i] = s

(* The host has assigned no callable of the kind while one of the sessions *)
(* from the i-th on was the newest one.                                    *)
Keeps(k, i) == \A j \in i..Len(open) : during[open[j]][k] = None

(* An open session is to see the accesses of a kind unless the host has    *)
(* replaced that callable over the session's wrapper, and the session that *)
(* was the newest one then is still open.                                  *)
Tracks(s, k) == \E i \in DOMAIN open : open[i] = s /\ Keeps(k, i)

(* Faulty: the writes are left as they were. *)
WrapReads(s) ==
  bus' = [bus EXCEPT !["r"].wraps = Append(@, s)]

WrapBus(s) ==
  bus' = [k \in Kinds |-> [wraps |-> Append(bus[k].wraps, s), calls |-> bus[k].calls]]

(* A name is given to a new session once nothing holds a wrapper of the    *)
(* session that had it before.                                             *)
Fresh(s) ==
  /\ ~ IsOpen(s)
  /\ \A pair \in {bus} \cup {originals[t] : t \in ToSet(open)} :
       \A k \in Kinds : s \notin ToSet(pair[k].wraps)

OpenSession(s) ==
  /\ Fresh(s)
  /\ originals' = [originals EXCEPT ![s] = bus]
  /\ log' = [log EXCEPT ![s] = <<>>]
  /\ made' = [made EXCEPT ![s] = <<>>]
  /\ WrapBus(s)
  /\ open' = Append(open, s)
  /\ UNCHANGED given

(* Faulty: the writes keep their wrapper. *)
UnwrapReads(s) == bus' = [bus EXCEPT !["r"] = originals[s]["r"]]

(* Faulty: the originals are forgotten before they are put back. *)
UnwrapForgotten(s) == bus' = originals'[s]

UnwrapBus(s) == bus' = originals[s]

Close(s) ==
  /\ \E i \in DOMAIN open :
       /\ open[i] = s
       /\ LastFirst => i = Len(open)
       /\ open' = RemoveAt(open, i)
  /\ originals' = [originals EXCEPT ![s] = None]
  /\ UnwrapBus(s)
  /\ log' = [log EXCEPT ![s] = None]
  /\ made' = [made EXCEPT ![s] = <<>>]
  /\ during' = [during EXCEPT ![s] = Unassigned]
  /\ UNCHANGED <<own, last>>

(* session.step() empties its own log before it steps the target. *)
StepBegins(s) ==
  /\ IsOpen(s)
  /\ log' = [log EXCEPT ![s] = <<>>]
  /\ made' = [made EXCEPT ![s] = <<>>]
  /\ UNCHANGED <<bus, given, open, originals>>

(* The CPU calls what is on its bus; each wrapper logs into the list it    *)
(* was made with, which a closed session no longer looks at.               *)
Access(k) ==
  /\ \A s \in Sessions : Len(made[s]) < MaxLog
  /\ log' = [s \in Sessions |->
               IF log[s] # None /\ s \in ToSet(bus[k].wraps)
               THEN Append(log[s], k) ELSE log[s]]
  /\ made' = [s \in Sessions |-> IF Tracks(s, k) THEN Append(made[s], k) ELSE made[s]]
  /\ UNCHANGED <<bus, given, open, originals>>

(* The host gives the CPU another callable. *)
HostAssigns(k, c) ==
  /\ bus' = [bus EXCEPT ![k] = [wraps |-> <<>>, calls |-> c]]
  /\ last' = [last EXCEPT ![k] = c]
  /\ IF open = <<>>
     THEN own' = [own EXCEPT ![k] = c] /\ during' = during
     ELSE own' = own /\ during' = [during EXCEPT ![open[Len(open)]][k] = c]
  /\ UNCHANGED <<open, originals, log, made>>

Next ==
  \/ \E s \in Sessions : OpenSession(s) \/ Close(s) \/ StepBegins(s)
  \/ \E k \in Kinds : Access(k) \/ \E c \in OwnCallables : HostAssigns(k, c)

Spec == Init /\ [][Next]_vars
-----------------------------------------------------------------------------
(* An open session logs every access that goes through its wrapper, once   *)
(* and in order, and every access does unless the host has put a callable  *)
(* of its own over the wrapper: whichever sessions were opened and closed  *)
(* around it since (debug.py _wrap_bus, close).                            *)
EverySessionSeesEveryAccess ==
  \A s \in Sessions : IsOpen(s) => log[s] = made[s]

(* An access reaches the callable that the host assigned last while the    *)
(* newest open session was the newest, or else the one before it, and so   *)
(* on, down to what the host gave the CPU with no session open.  So each   *)
(* close() undoes what was done to the bus since its session was opened,   *)
(* and with no session open nothing wraps the host's own.                  *)
GivesCallablesBack ==
  \A k \in Kinds :
    /\ Keeps(k, 1) => bus[k].calls = own[k]
    /\ \A i \in DOMAIN open :
         during[open[i]][k] # None /\ Keeps(k, i + 1) => bus[k].calls = during[open[i]][k]
    /\ open = <<>> => bus[k].wraps = <<>>

(* read_byte is "the host's read_byte(address), as passed in or last       *)
(* assigned" (frame.py:97), and the callables are "replaceable at any time *)
(* (the debugger does)" (frame.py:8): once no session is open, those on    *)
(* the CPU are the ones that the host assigned last.                       *)
CallablesAreLastAssigned ==
  open = <<>> => \A k \in Kinds : bus[k].calls = last[k]
=============================================================================
