----------------------------- MODULE CPUFrame ------------------------------
(***************************************************************************)
(* sixfiveohtwo.frame.CPUFrame: the two bus callables, the interrupt       *)
(* requests and their poll, and the decision step() makes at a boundary.   *)
(*                                                                         *)
(* The frame is not a CPU: this module has the state, its initial value    *)
(* and one operator per method, and MOS6502 composes them into steps.      *)
(*                                                                         *)
(* The frame learns late what the poll saw.  Nothing is recorded at the    *)
(* end of a cycle; instead the first change to the requests since the last *)
(* access keeps the old ones in deferred and routes the next access        *)
(* through a wrapper, Confirming, that drops them again.                   *)
(***************************************************************************)
EXTENDS Sequences65

CONSTANTS
  Callables,     \* the callables a host may install as read_byte, write_byte
  Confirming     \* the wrappers _read_confirming and _write_confirming

ASSUME CallablesAssumption == Callables # {} /\ Confirming \notin Callables

VARIABLES
  requests,      \* _requests: the bits the host has set
  polled,        \* _polled: what the poll saw, or None for "the requests"
  deferred,      \* _deferred: the requests before a change, or None
  stalled,       \* _stalled, _stalled_before: the requests as the last two
  stalledBefore, \*   note_stall calls found them, or None
  polledI,       \* _polled_i: the I bit the poll saw, or None for "P's"
  resetPending,  \* _reset_pending
  halted,        \* halted
  pI,            \* p & I
  readByte,      \* _read_byte, _write_byte: the host's callables
  writeByte,
  read,          \* _read, _write: what the next access calls
  write

frameVars == <<requests, polled, deferred, stalled, stalledBefore, polledI,
               resetPending, halted, pI, readByte, writeByte, read, write>>

FrameTypeOK ==
  /\ requests \in SUBSET Lines
  /\ polled \in {None} \cup SUBSET Bits
  /\ deferred \in {None} \cup SUBSET Lines
  /\ stalled \in {None} \cup SUBSET Lines
  /\ stalledBefore \in {None} \cup SUBSET Lines
  /\ polledI \in {None} \cup IValues
  /\ resetPending \in BOOLEAN
  /\ halted \in BOOLEAN
  /\ pI \in IValues
  /\ readByte \in Callables
  /\ writeByte \in Callables
  /\ read \in Callables \cup {Confirming}
  /\ write \in Callables \cup {Confirming}

FrameInit ==
  /\ requests = {}
  /\ polled = None /\ deferred = None
  /\ stalled = None /\ stalledBefore = None
  /\ polledI = None
  /\ resetPending = FALSE /\ halted = FALSE
  /\ pI = FLAG_I
  /\ readByte \in Callables /\ read = readByte
  /\ writeByte \in Callables /\ write = writeByte

-----------------------------------------------------------------------------
(* The bus. *)

(* Two faulty setters, for the runs that show the bus properties bite: one *)
(* ignores a pending confirmation, one leaves the route behind.            *)
SetReadByteAlwaysRouted(c) ==
  /\ readByte' = c /\ read' = c
  /\ UNCHANGED <<requests, polled, deferred, stalled, stalledBefore, polledI,
                 resetPending, halted, pI, writeByte, write>>

SetReadByteNotRouted(c) ==
  /\ readByte' = c
  /\ UNCHANGED <<requests, polled, deferred, stalled, stalledBefore, polledI,
                 resetPending, halted, pI, writeByte, read, write>>

SetReadByte(c) ==
  /\ readByte' = c
  /\ read' = IF deferred = None THEN c ELSE read
  /\ UNCHANGED <<requests, polled, deferred, stalled, stalledBefore, polledI,
                 resetPending, halted, pI, writeByte, write>>

SetWriteByte(c) ==
  /\ writeByte' = c
  /\ write' = IF deferred = None THEN c ELSE write
  /\ UNCHANGED <<requests, polled, deferred, stalled, stalledBefore, polledI,
                 resetPending, halted, pI, readByte, read>>

(* _request: keep the old requests, and confirm at the next access. *)
Request(bits) ==
  /\ requests' = bits
  /\ IF deferred = None
     THEN deferred' = requests /\ read' = Confirming /\ write' = Confirming
     ELSE UNCHANGED <<deferred, read, write>>

Confirm == deferred' = None /\ read' = readByte /\ write' = writeByte

(***************************************************************************)
(* self._read(...) or self._write(...), as far as the host's callable.     *)
(***************************************************************************)
Route(kind) == IF kind = "read" THEN read ELSE write
HostCallable(kind) == IF kind = "read" THEN readByte ELSE writeByte

Access(kind) ==
  IF Route(kind) = Confirming THEN Confirm ELSE UNCHANGED <<deferred, read, write>>

(* The callable of the host that such an access ends up in. *)
Reached(kind) ==
  IF Route(kind) = Confirming THEN HostCallable(kind) ELSE Route(kind)

NoteStall ==
  /\ stalledBefore' = stalled
  /\ stalled' = requests
  /\ IF deferred # None THEN Confirm ELSE UNCHANGED <<deferred, read, write>>
  /\ UNCHANGED <<requests, polled, polledI, resetPending, halted, pI,
                 readByte, writeByte>>

-----------------------------------------------------------------------------
(* The interrupt and reset inputs, for either line. *)

(* Faulty: a skipped poll is told of the request too. *)
RequestInterruptUnguarded(line) ==
  /\ Request(requests \cup {line})
  /\ polled' = IF polled # None THEN polled \cup {line} ELSE polled
  /\ UNCHANGED <<stalled, stalledBefore, polledI, resetPending, halted, pI,
                 readByte, writeByte>>

RequestInterrupt(line) ==
  /\ Request(requests \cup {line})
  /\ polled' = IF polled # None /\ NO_POLL \notin polled
               THEN polled \cup {line} ELSE polled
  /\ UNCHANGED <<stalled, stalledBefore, polledI, resetPending, halted, pI,
                 readByte, writeByte>>

ClearInterrupt(line) ==
  /\ Request(requests \ {line})
  /\ polled' = IF polled # None THEN polled \ {line} ELSE polled
  /\ UNCHANGED <<stalled, stalledBefore, polledI, resetPending, halted, pI,
                 readByte, writeByte>>

SetReset(pending) ==
  /\ resetPending' = pending
  /\ UNCHANGED <<requests, polled, deferred, stalled, stalledBefore, polledI,
                 halted, pI, readByte, writeByte, read, write>>

-----------------------------------------------------------------------------
(* step()'s decision.  Consulted: whether it calls _boundary_interrupt. *)

(* Faulty: a poll that saw what is gone since is left for later. *)
ConsultedByRequests == requests # {}

Consulted == requests # {} \/ polled # None \/ polledI # None

PolledRequests == IF polled = None THEN requests ELSE polled
PolledMask     == IF polledI = None THEN pI ELSE polledI

(* The interrupt _boundary_interrupt returns, or None for its 0. *)
BoundaryInterrupt ==
  IF NMI_LATCH \in PolledRequests THEN "NMI"
  ELSE IF IRQ_LINE \in PolledRequests /\ PolledMask = 0 THEN "IRQ"
  ELSE None

(* What the next step() runs: an entry, or None for an instruction. *)
StepTakes ==
  IF resetPending THEN "RESET"
  ELSE IF halted THEN "JAM_IDLE"
  ELSE IF Consulted THEN BoundaryInterrupt ELSE None

-----------------------------------------------------------------------------
(***************************************************************************)
(* CPUState, as far as the frame fills it: the fields of _poll_fields and  *)
(* the I bit of P.  "pending" and "polled" each hold one field per line.   *)
(***************************************************************************)
CPUStates ==
  [halted: BOOLEAN, resetPending: BOOLEAN, pending: [Lines -> BOOLEAN],
   polledI: BOOLEAN \cup {None}, polled: [Lines -> BOOLEAN \cup {None}],
   skippedPoll: BOOLEAN, p: IValues]

(* Faulty: a poll that saw nothing reads as one that was not asked. *)
DiffersIfSeen(seen, now, line) ==
  IF line \in seen /\ line \notin now THEN TRUE ELSE None

(* _differs: what the poll saw of a line, where the requests say otherwise. *)
Differs(seen, now, line) ==
  IF (line \in seen) = (line \in now) THEN None ELSE line \in seen

CaptureState ==
  [halted |-> halted, resetPending |-> resetPending,
   pending |-> [l \in Lines |-> l \in requests],
   polledI |-> IF polledI = None THEN None ELSE polledI # 0,
   polled |-> [l \in Lines |-> Differs(PolledRequests, requests, l)],
   skippedPoll |-> NO_POLL \in PolledRequests,
   p |-> pI]

(* The requests and the poll _restore_poll rebuilds from a state. *)
RestoredRequests(s) == {l \in Lines : s.pending[l]}
RestoredSeen(s) ==
  {l \in Lines : IF s.polled[l] = None THEN s.pending[l] ELSE s.polled[l]}
    \cup (IF s.skippedPoll THEN {NO_POLL} ELSE {})

(* Faulty: an empty poll becomes None, and a delayed I is dropped. *)
RestoredPolledOrNone(s) == IF RestoredSeen(s) = {} THEN None ELSE RestoredSeen(s)
RestoredIDropped(s) == None

(* Faulty: restoring keeps an I that an abandoned step has left. *)
RestoredIKept(s) ==
  IF s.polledI = None THEN polledI ELSE IF s.polledI THEN FLAG_I ELSE 0

RestoredPolled(s) ==
  IF RestoredSeen(s) = RestoredRequests(s) THEN None ELSE RestoredSeen(s)
RestoredI(s) ==
  IF s.polledI = None THEN None ELSE IF s.polledI THEN FLAG_I ELSE 0

RestoreState(s) ==
  /\ halted' = s.halted
  /\ resetPending' = s.resetPending
  /\ requests' = RestoredRequests(s)
  /\ polled' = RestoredPolled(s)
  /\ Confirm
  /\ polledI' = RestoredI(s)
  /\ pI' = s.p
  /\ UNCHANGED <<stalled, stalledBefore, readByte, writeByte>>
=============================================================================
