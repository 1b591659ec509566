------------------------- MODULE BusTrackingProofs --------------------------
(***************************************************************************)
(* What several sessions tracking one CPU keep when they are closed last   *)
(* first, for any number of sessions, callables and accesses, and with the *)
(* host assigning callables whenever it likes.                             *)
(*                                                                         *)
(* The invariant speaks of levels: at level n the n oldest sessions are    *)
(* open.  What was on the bus when that level was left is what the next    *)
(* session keeps to put back, and it is as if that session, and whatever   *)
(* the host assigned under it, had never been.                             *)
(***************************************************************************)
EXTENDS BusTracking, SequenceTheorems, TLAPS

Under(n) == IF n = Len(open) THEN bus ELSE originals[open[n + 1]]

(* Keeps, of the sessions up to the n-th. *)
KeepsTo(k, i, n) == \A j \in i..n : during[open[j]][k] = None

WrapsAre(n, k) ==
  \A s \in Sessions :
    s \in ToSet(Under(n)[k].wraps) <=> \E i \in 1..n : open[i] = s /\ KeepsTo(k, i, n)

CallsAre(n, k) ==
  /\ KeepsTo(k, 1, n) => Under(n)[k].calls = own[k]
  /\ \A i \in 1..n :
       during[open[i]][k] # None /\ KeepsTo(k, i + 1, n) =>
         Under(n)[k].calls = during[open[i]][k]

Level(n) == Under(n) \in Pairs /\ \A k \in Kinds : WrapsAre(n, k) /\ CallsAre(n, k)

Levels == \A n \in 0..Len(open) : Level(n)

OnlyOpenLog ==
  \A s \in Sessions :
    IF IsOpen(s) THEN log[s] = made[s] ELSE log[s] = None /\ during[s] = Unassigned

IInv == TypeOK /\ Levels /\ OnlyOpenLog
-----------------------------------------------------------------------------
(* A level is what it was as long as its sessions, what the host assigned  *)
(* under them and what is on the bus or kept there are.                    *)
LEMMA LevelStays ==
  ASSUME IInv, NEW n \in 0..Len(open), Under(n)' = Under(n), own' = own,
         \A j \in 1..n : open'[j] = open[j] /\ during'[open[j]] = during[open[j]]
  PROVE  Level(n)'
<1>1. n \in Nat /\ Level(n)
  BY DEF IInv, TypeOK, Levels
<1>2. ASSUME NEW k \in Kinds, NEW i \in Nat, i >= 1 PROVE KeepsTo(k, i, n)' <=> KeepsTo(k, i, n)
  BY <1>1, <1>2 DEF KeepsTo
<1>3. ASSUME NEW k \in Kinds PROVE WrapsAre(n, k)'
  <2>1. ASSUME NEW s \in Sessions
        PROVE  (\E i \in 1..n : open'[i] = s /\ KeepsTo(k, i, n)') <=>
               (\E i \in 1..n : open[i] = s /\ KeepsTo(k, i, n))
    BY <1>1, <1>2
  <2>2. WrapsAre(n, k)
    BY <1>1 DEF Level
  <2> QED
    BY <2>1, <2>2 DEF WrapsAre
<1>4. ASSUME NEW k \in Kinds PROVE CallsAre(n, k)'
  <2>1. KeepsTo(k, 1, n)' <=> KeepsTo(k, 1, n)
    BY <1>2
  <2>2. ASSUME NEW i \in 1..n PROVE KeepsTo(k, i + 1, n)' <=> KeepsTo(k, i + 1, n)
    BY <1>1, <1>2
  <2>3. CallsAre(n, k)
    BY <1>1 DEF Level
  <2> QED
    BY <2>1, <2>2, <2>3 DEF CallsAre
<1> QED
  BY <1>1, <1>3, <1>4 DEF Level

(* The top level is the bus itself. *)
LEMMA OpenIsTop == ASSUME IInv PROVE Len(open) \in Nat /\ Level(Len(open)) /\ Under(Len(open)) = bus
BY DEF IInv, TypeOK, Levels, Under

(* No session is open twice. *)
LEMMA OpenAreDistinct ==
  ASSUME IInv
  PROVE  /\ DOMAIN open = 1..Len(open) /\ \A i \in 1..Len(open) : open[i] \in Sessions
         /\ \A i, j \in 1..Len(open) : open[i] = open[j] => i = j
<1>1. open \in Seq(Sessions) /\ IsInjective(open)
  BY DEF IInv, TypeOK
<1>2. DOMAIN open = 1..Len(open) /\ \A i \in 1..Len(open) : open[i] \in Sessions
  BY <1>1
<1>3. \A i, j \in DOMAIN open : open[i] = open[j] => i = j
  BY <1>1 DEF IsInjective
<1> QED
  BY <1>2, <1>3

LEMMA InitIInv == ASSUME Init PROVE IInv
<1> USE TrackingAssumption DEF Init
<1>1. bus \in Pairs
  <2>1. \A k \in Kinds : own[k] \in OwnCallables /\ <<>> \in Seq(Sessions)
    OBVIOUS
  <2> QED
    BY <2>1 DEF Pairs, Callables
<1>2. TypeOK
  <2>1. open \in Seq(Sessions) /\ IsInjective(open)
    BY DEF IsInjective
  <2>2. during \in [Sessions -> [Kinds -> OwnCallables \cup {None}]]
    BY DEF Unassigned
  <2> QED
    BY <1>1, <2>1, <2>2 DEF TypeOK
<1>3. Levels
  <2>1. Len(open) = 0 /\ Under(0) = bus
    BY DEF Under
  <2>2. ASSUME NEW k \in Kinds PROVE WrapsAre(0, k) /\ CallsAre(0, k)
    BY <2>1 DEF WrapsAre, CallsAre, ToSet
  <2> QED
    BY <1>1, <2>1, <2>2 DEF Levels, Level
<1>4. OnlyOpenLog
  BY DEF OnlyOpenLog, IsOpen
<1> QED
  BY <1>2, <1>3, <1>4 DEF IInv

(* A new session wraps what it finds, and keeps it for the level below. *)
LEMMA OpenKeepsIInv ==
  ASSUME IInv, NEW s \in Sessions, OpenSession(s) PROVE IInv'
<1>0. PICK n \in Nat : n = Len(open)
  BY DEF IInv, TypeOK
<1> USE <1>0
<1>1. /\ open \in Seq(Sessions) /\ open' = Append(open, s) /\ ~ IsOpen(s)
      /\ n \in Nat /\ bus \in Pairs /\ own' = own /\ last' = last /\ during' = during
  BY DEF IInv, TypeOK, OpenSession, Fresh, given
<1>2. /\ open' \in Seq(Sessions) /\ Len(open') = n + 1
      /\ open'[n + 1] = s /\ \A i \in 1..n : open'[i] = open[i] /\ open[i] # s
  BY <1>1 DEF IsOpen
<1>3. /\ originals' \in [Sessions -> Pairs \cup {None}] /\ originals'[s] = bus
      /\ \A t \in Sessions : t # s => originals'[t] = originals[t]
  BY <1>1 DEF OpenSession, IInv, TypeOK
<1>4. bus' = [k \in Kinds |-> [wraps |-> Append(bus[k].wraps, s), calls |-> bus[k].calls]]
  BY DEF OpenSession, WrapBus
<1>5. bus' \in Pairs
  BY <1>1, <1>4 DEF Pairs, Callables
<1>6. during[s] = Unassigned
  BY <1>1 DEF IInv, OnlyOpenLog
<1>7. Levels'
  <2>1. \A m \in 0..n : Under(m)' = Under(m)
    <3>1. ASSUME NEW m \in 0..n PROVE Under(m)' = Under(m)
      <4>1. CASE m = n
        BY <1>1, <1>2, <1>3, <4>1 DEF Under
      <4>2. CASE m # n
        <5>1. m + 1 \in 1..n /\ m # n + 1
          BY <1>1, <4>2
        <5>2. open[m + 1] \in Sessions
          BY <1>1, <5>1
        <5> QED
          BY <1>2, <1>3, <4>2, <5>1, <5>2 DEF Under
      <4> QED
        BY <4>1, <4>2
    <3> QED
      BY <3>1
  <2>2. ASSUME NEW m \in 0..n PROVE Level(m)'
    <3>1. \A j \in 1..m : open'[j] = open[j] /\ during'[open[j]] = during[open[j]]
      BY <1>1, <1>2
    <3> QED
      BY <1>1, <2>1, <3>1, LevelStays
  <2>3. Under(n + 1)' = bus'
    BY <1>2 DEF Under
  <2>4. \A k \in Kinds : during'[open'[n + 1]][k] = None
    BY <1>1, <1>2, <1>6 DEF Unassigned
  <2>5. \A k \in Kinds : \A i \in 1..(n + 1) : KeepsTo(k, i, n + 1)' <=> KeepsTo(k, i, n)
    BY <1>1, <1>2, <2>4 DEF KeepsTo
  <2>6. ASSUME NEW k \in Kinds PROVE WrapsAre(n + 1, k)'
    <3>1. WrapsAre(n, k) /\ Under(n) = bus
      BY OpenIsTop DEF Level
    <3>2. bus[k].wraps \in Seq(Sessions) /\ bus'[k].wraps = Append(bus[k].wraps, s)
      BY <1>1, <1>4 DEF Pairs, Callables
    <3>3. \A t \in Sessions : t \in ToSet(bus'[k].wraps) <=> t \in ToSet(bus[k].wraps) \/ t = s
      <4> DEFINE w == bus[k].wraps
      <4>1. /\ w \in Seq(Sessions) /\ bus'[k].wraps = Append(w, s) /\ Len(w) \in Nat
            /\ DOMAIN w = 1..Len(w) /\ DOMAIN Append(w, s) = 1..(Len(w) + 1)
            /\ Append(w, s)[Len(w) + 1] = s /\ \A i \in 1..Len(w) : Append(w, s)[i] = w[i]
        BY <3>2
      <4>2. \A i \in 1..(Len(w) + 1) : i \in 1..Len(w) \/ i = Len(w) + 1
        BY <4>1
      <4>3. Len(w) + 1 \in 1..(Len(w) + 1) /\ \A i \in 1..Len(w) : i \in 1..(Len(w) + 1)
        BY <4>1
      <4> QED
        BY <4>1, <4>2, <4>3 DEF ToSet
    <3>4. ASSUME NEW t \in Sessions
          PROVE  (\E i \in 1..(n + 1) : open'[i] = t /\ KeepsTo(k, i, n + 1)') <=>
                 (\E i \in 1..n : open[i] = t /\ KeepsTo(k, i, n)) \/ t = s
      <4>1. KeepsTo(k, n + 1, n)
        BY <1>1 DEF KeepsTo
      <4>2. \A i \in 1..(n + 1) : i \in 1..n \/ i = n + 1
        BY <1>1
      <4> QED
        BY <1>1, <1>2, <2>5, <4>1, <4>2
    <3> QED
      BY <2>3, <3>1, <3>3, <3>4 DEF WrapsAre
  <2>7. ASSUME NEW k \in Kinds PROVE CallsAre(n + 1, k)'
    <3>1. CallsAre(n, k) /\ Under(n) = bus
      BY OpenIsTop DEF Level
    <3>2. bus'[k].calls = bus[k].calls
      BY <1>4
    <3>3. KeepsTo(k, 1, n + 1)' => bus'[k].calls = own'[k]
      BY <1>1, <2>5, <3>1, <3>2 DEF CallsAre
    <3>4. ASSUME NEW i \in 1..(n + 1), during'[open'[i]][k] # None, KeepsTo(k, i + 1, n + 1)'
          PROVE  bus'[k].calls = during'[open'[i]][k]
      <4>1. i \in 1..n
        BY <1>1, <2>4, <3>4
      <4>2. KeepsTo(k, i + 1, n)
        BY <1>1, <2>5, <3>4, <4>1
      <4> QED
        BY <1>1, <1>2, <3>1, <3>2, <3>4, <4>1, <4>2 DEF CallsAre
    <3> QED
      BY <2>3, <3>3, <3>4 DEF CallsAre
  <2>8. Level(n + 1)'
    BY <1>5, <2>3, <2>6, <2>7 DEF Level
  <2>9. \A m \in 0..Len(open') : m \in 0..n \/ m = n + 1
    BY <1>1, <1>2
  <2> QED
    BY <2>2, <2>8, <2>9 DEF Levels
<1>8. TypeOK'
  <2>1. IsInjective(open')
    BY <1>1, <1>2 DEF IInv, TypeOK, IsInjective, IsOpen
  <2> QED
    BY <1>1, <1>2, <1>3, <1>5, <2>1 DEF IInv, TypeOK, OpenSession
<1>9. OnlyOpenLog'
  <2>1. \A t \in Sessions : IsOpen(t)' <=> (IsOpen(t) \/ t = s)
    <3>1. \A i \in DOMAIN open' : i \in 1..n \/ i = n + 1
      BY <1>1, <1>2
    <3>2. n + 1 \in DOMAIN open' /\ \A i \in 1..n : i \in DOMAIN open' /\ i \in DOMAIN open
      BY <1>1, <1>2
    <3> QED
      BY <1>1, <1>2, <3>1, <3>2 DEF IsOpen
  <2> QED
    BY <1>1, <1>6, <2>1 DEF IInv, OnlyOpenLog, OpenSession, TypeOK
<1> QED
  BY <1>7, <1>8, <1>9 DEF IInv

(* Closed last first, a session gives back the level below its own. *)
LEMMA CloseKeepsIInv ==
  ASSUME IInv, LastFirst, NEW s \in Sessions, Close(s) PROVE IInv'
<1>0. PICK n \in Nat : n = Len(open)
  BY DEF IInv, TypeOK
<1> USE <1>0
<1>1. /\ open \in Seq(Sessions) /\ n \in Nat /\ n >= 1 /\ open[n] = s
      /\ open' = RemoveAt(open, n)
  BY DEF IInv, TypeOK, Close
<1>2. /\ open' \in Seq(Sessions) /\ Len(open') = n - 1
      /\ \A i \in 1..(n - 1) : open'[i] = open[i]
  <2>1. SubSeq(open, n + 1, Len(open)) = <<>>
    BY <1>1, SubSeqEmpty
  <2>2. /\ SubSeq(open, 1, n - 1) \in Seq(Sessions)
        /\ Len(SubSeq(open, 1, n - 1)) = n - 1
        /\ \A i \in 1..(n - 1) : SubSeq(open, 1, n - 1)[i] = open[i]
    BY <1>1
  <2>3. open' = SubSeq(open, 1, n - 1)
    BY <1>1, <2>1, <2>2 DEF RemoveAt
  <2> QED
    BY <2>2, <2>3
<1>3. \A i \in 1..(n - 1) : open[i] \in Sessions /\ open[i] # s
  <2>1. n \in 1..n /\ \A i \in 1..(n - 1) : i \in 1..n /\ i # n
    BY <1>1
  <2> QED
    BY <1>1, <2>1, OpenAreDistinct
<1>4. /\ bus' = originals[s] /\ own' = own /\ last' = last
      /\ originals' \in [Sessions -> Pairs \cup {None}]
      /\ \A t \in Sessions : t # s => originals'[t] = originals[t]
      /\ during' \in [Sessions -> [Kinds -> OwnCallables \cup {None}]]
      /\ during'[s] = Unassigned
      /\ \A t \in Sessions : t # s => during'[t] = during[t]
  BY DEF Close, UnwrapBus, IInv, TypeOK, Unassigned
<1>5. Levels'
  <2>1. ASSUME NEW m \in 0..(n - 1) PROVE Level(m)'
    <3>1. Under(m)' = Under(m)
      <4>1. CASE m = n - 1
        BY <1>1, <1>2, <1>4, <4>1 DEF Under
      <4>2. CASE m # n - 1
        <5>1. m + 1 \in 1..(n - 1) /\ m # n
          BY <1>1, <4>2
        <5> QED
          BY <1>2, <1>3, <1>4, <4>2, <5>1 DEF Under
      <4> QED
        BY <4>1, <4>2
    <3>2. \A j \in 1..m : open'[j] = open[j] /\ during'[open[j]] = during[open[j]]
      BY <1>1, <1>2, <1>3, <1>4
    <3> QED
      BY <1>1, <1>4, <3>1, <3>2, LevelStays
  <2> QED
    BY <1>2, <2>1 DEF Levels
<1>6. TypeOK'
  <2>1. Level(n - 1) /\ Under(n - 1) = originals[s]
    BY <1>1 DEF IInv, Levels, Under
  <2>2. IsInjective(open')
    <3>1. DOMAIN open' = 1..(n - 1) /\ \A i \in 1..(n - 1) : i \in 1..n
      BY <1>1, <1>2
    <3>2. \A i, j \in 1..(n - 1) : open'[i] = open'[j] => i = j
      BY <1>2, <3>1, OpenAreDistinct
    <3> QED
      BY <3>1, <3>2 DEF IsInjective
  <2>3. /\ log' \in [Sessions -> Seq(Kinds) \cup {None}]
        /\ made' \in [Sessions -> Seq(Kinds)]
    BY DEF IInv, TypeOK, Close
  <2> QED
    BY <1>2, <1>4, <2>1, <2>2, <2>3 DEF IInv, TypeOK, Level
<1>7. OnlyOpenLog'
  <2>1. \A t \in Sessions : IsOpen(t)' <=> (IsOpen(t) /\ t # s)
    <3>1. \A i \in DOMAIN open : i \in 1..(n - 1) \/ i = n
      BY <1>1
    <3>2. DOMAIN open' = 1..(n - 1) /\ \A i \in 1..(n - 1) : i \in DOMAIN open
      BY <1>1, <1>2
    <3> QED
      BY <1>1, <1>2, <1>3, <3>1, <3>2 DEF IsOpen
  <2> QED
    BY <1>4, <2>1 DEF IInv, OnlyOpenLog, Close, TypeOK
<1> QED
  BY <1>5, <1>6, <1>7 DEF IInv

(* Steps that leave the bus and the sessions alone. *)
LEMMA LevelsStay ==
  ASSUME IInv, UNCHANGED <<bus, given, open, originals>> PROVE Levels'
<1>1. ASSUME NEW n \in 0..Len(open) PROVE Level(n)'
  BY LevelStays DEF Under, given
<1> QED
  BY <1>1 DEF Levels

LEMMA StepKeepsIInv ==
  ASSUME IInv, NEW s \in Sessions, StepBegins(s) PROVE IInv'
<1>1. Levels'
  BY LevelsStay DEF StepBegins
<1>2. TypeOK'
  BY DEF IInv, StepBegins, TypeOK, given
<1>3. OnlyOpenLog'
  BY DEF IInv, StepBegins, OnlyOpenLog, IsOpen, TypeOK, given
<1> QED
  BY <1>1, <1>2, <1>3 DEF IInv

(* The wrappers on the bus are those of the sessions that are to see it. *)
LEMMA AccessKeepsIInv ==
  ASSUME IInv, NEW k \in Kinds, Access(k) PROVE IInv'
<1>1. Levels'
  BY LevelsStay DEF Access
<1>2. \A s \in Sessions : s \in ToSet(bus[k].wraps) <=> Tracks(s, k)
  <2>1. WrapsAre(Len(open), k) /\ Under(Len(open)) = bus
    BY OpenIsTop DEF Level
  <2>2. DOMAIN open = 1..Len(open)
    BY DEF IInv, TypeOK
  <2> QED
    BY <2>1, <2>2 DEF WrapsAre, Tracks, Keeps, KeepsTo
<1>3. \A s \in Sessions : (IsOpen(s)' <=> IsOpen(s)) /\ (Tracks(s, k) => IsOpen(s))
  BY DEF Access, IsOpen, Tracks
<1>4. \A s \in Sessions : made[s] \in Seq(Kinds)
  BY DEF IInv, TypeOK
<1>5. TypeOK'
  BY <1>4 DEF IInv, Access, TypeOK, given
<1>6. OnlyOpenLog'
  <2>1. \A s \in Sessions : IsOpen(s) => log'[s] = made'[s]
    <3>1. \A s \in Sessions : IsOpen(s) => log[s] = made[s] /\ log[s] # None
      BY TrackingAssumption DEF IInv, TypeOK, OnlyOpenLog
    <3> QED
      BY <1>2, <3>1 DEF Access
  <2>2. \A s \in Sessions : ~ IsOpen(s) => log'[s] = None /\ during'[s] = Unassigned
    BY DEF IInv, OnlyOpenLog, Access, given
  <2> QED
    BY <1>3, <2>1, <2>2 DEF OnlyOpenLog
<1> QED
  BY <1>1, <1>5, <1>6 DEF IInv

(* The host assigns at the top level, and every level below stays. *)
LEMMA AssignKeepsIInv ==
  ASSUME IInv, NEW k \in Kinds, NEW c \in OwnCallables, HostAssigns(k, c) PROVE IInv'
<1>0. PICK n \in Nat : n = Len(open)
  BY DEF IInv, TypeOK
<1> USE <1>0
<1> USE TrackingAssumption
<1>1. /\ open \in Seq(Sessions) /\ n \in Nat /\ bus \in Pairs /\ c # None
      /\ bus' = [bus EXCEPT ![k] = [wraps |-> <<>>, calls |-> c]]
      /\ UNCHANGED <<open, originals, log, made>>
  BY DEF HostAssigns, IInv, TypeOK
<1>2. bus' \in Pairs
  BY <1>1 DEF Pairs, Callables
<1>3. /\ own' \in [Kinds -> OwnCallables] /\ last' \in [Kinds -> OwnCallables]
      /\ during' \in [Sessions -> [Kinds -> OwnCallables \cup {None}]]
  <2>1. /\ last' = [last EXCEPT ![k] = c]
        /\ own' \in {own, [own EXCEPT ![k] = c]}
    BY DEF HostAssigns
  <2>2. during' = during \/ during' = [during EXCEPT ![open[n]][k] = c]
    BY DEF HostAssigns
  <2>3. /\ own \in [Kinds -> OwnCallables] /\ last \in [Kinds -> OwnCallables]
        /\ during \in [Sessions -> [Kinds -> OwnCallables \cup {None}]]
    BY DEF IInv, TypeOK
  <2>4. own' \in [Kinds -> OwnCallables] /\ last' \in [Kinds -> OwnCallables]
    BY <2>1, <2>3
  <2>5. during' \in [Sessions -> [Kinds -> OwnCallables \cup {None}]]
    BY <2>2, <2>3
  <2> QED
    BY <2>4, <2>5
<1>4. TypeOK'
  BY <1>1, <1>2, <1>3 DEF IInv, TypeOK
<1>5. CASE open = <<>>
  <2>1. n = 0 /\ own' = [own EXCEPT ![k] = c] /\ during' = during
    BY <1>5 DEF HostAssigns
  <2>2. Under(0)' = bus' /\ Under(0) = bus
    BY <1>1, <2>1 DEF Under
  <2>3. ASSUME NEW j \in Kinds PROVE WrapsAre(0, j)' /\ CallsAre(0, j)'
    <3>1. WrapsAre(0, j) /\ CallsAre(0, j)
      BY <2>1, OpenIsTop DEF Level
    <3>2. CASE j = k
      <4>1. bus'[j].wraps = <<>> /\ bus'[j].calls = c /\ own'[j] = c
        BY <1>1, <2>1, <3>2 DEF Pairs, IInv, TypeOK
      <4> QED
        BY <2>2, <4>1 DEF WrapsAre, CallsAre, ToSet
    <3>3. CASE j # k
      <4>1. bus'[j] = bus[j] /\ own'[j] = own[j]
        BY <1>1, <2>1, <3>3 DEF Pairs, IInv, TypeOK
      <4> QED
        BY <2>2, <3>1, <4>1 DEF WrapsAre, CallsAre, KeepsTo
    <3> QED
      BY <3>2, <3>3
  <2>4. Levels'
    <3>1. Level(0)'
      BY <1>2, <2>2, <2>3 DEF Level
    <3>2. \A m \in 0..Len(open') : m = 0
      BY <1>1, <2>1
    <3> QED
      BY <3>1, <3>2 DEF Levels
  <2>5. OnlyOpenLog'
    BY <1>1, <2>1 DEF IInv, OnlyOpenLog, IsOpen
  <2> QED
    BY <1>4, <2>4, <2>5 DEF IInv
<1>6. CASE open # <<>>
  <2>1. /\ n >= 1 /\ open[n] \in Sessions /\ own' = own
        /\ during' = [during EXCEPT ![open[n]][k] = c]
    BY <1>1, <1>6 DEF HostAssigns
  <2>2. /\ during'[open[n]][k] = c
        /\ \A j \in Kinds : j # k => during'[open[n]][j] = during[open[n]][j]
        /\ \A t \in Sessions : t # open[n] => during'[t] = during[t]
    BY <2>1 DEF IInv, TypeOK
  <2>3. \A i \in 1..(n - 1) : open[i] \in Sessions /\ open[i] # open[n]
    <3>1. n \in 1..n /\ \A i \in 1..(n - 1) : i \in 1..n /\ i # n
      BY <2>1
    <3> QED
      BY <3>1, OpenAreDistinct
  <2>4. ASSUME NEW m \in 0..(n - 1) PROVE Level(m)'
    <3>1. Under(m)' = Under(m) /\ m \in 0..n
      BY <1>1, <2>1 DEF Under
    <3>2. \A j \in 1..m : open'[j] = open[j] /\ during'[open[j]] = during[open[j]]
      BY <1>1, <2>1, <2>2, <2>3
    <3> QED
      BY <2>1, <3>1, <3>2, LevelStays
  <2>5. Under(n)' = bus' /\ Under(n) = bus
    BY <1>1 DEF Under
  <2>6. ASSUME NEW j \in Kinds, j = k PROVE WrapsAre(n, j)' /\ CallsAre(n, j)'
    <3>1. bus'[j].wraps = <<>> /\ bus'[j].calls = c
      BY <1>1, <2>6 DEF Pairs
    <3>2. \A i \in 1..n : ~ KeepsTo(j, i, n)'
      BY <1>1, <2>1, <2>2, <2>6 DEF KeepsTo
    <3>3. \A i \in 1..n : KeepsTo(j, i + 1, n)' => i = n
      <4>1. ASSUME NEW i \in 1..n, i # n PROVE ~ KeepsTo(j, i + 1, n)'
        <5>1. i + 1 \in 1..n
          BY <2>1, <4>1
        <5> QED
          BY <3>2, <5>1
      <4> QED
        BY <4>1
    <3>4. 1 \in 1..n /\ open' = open
      BY <1>1, <2>1
    <3> QED
      BY <1>1, <2>2, <2>5, <2>6, <3>1, <3>2, <3>3, <3>4 DEF WrapsAre, CallsAre, ToSet
  <2>7. ASSUME NEW j \in Kinds, j # k PROVE WrapsAre(n, j)' /\ CallsAre(n, j)'
    <3>1. bus'[j] = bus[j] /\ open' = open /\ own' = own
      BY <1>1, <2>1, <2>7 DEF Pairs
    <3>2. \A i \in 1..n : during'[open[i]][j] = during[open[i]][j]
      BY <2>2, <2>3, <2>7, <1>1
    <3>3. \A i \in Nat : i >= 1 => (KeepsTo(j, i, n)' <=> KeepsTo(j, i, n))
      BY <1>1, <3>1, <3>2 DEF KeepsTo
    <3>4. WrapsAre(n, j) /\ CallsAre(n, j)
      BY OpenIsTop DEF Level
    <3>5. WrapsAre(n, j)'
      BY <1>1, <2>5, <3>1, <3>3, <3>4 DEF WrapsAre
    <3>6. \A i \in 1..n : KeepsTo(j, i + 1, n)' <=> KeepsTo(j, i + 1, n)
      BY <1>1, <3>3
    <3>7. KeepsTo(j, 1, n)' <=> KeepsTo(j, 1, n)
      BY <3>3
    <3>8. CallsAre(n, j)'
      BY <1>1, <2>5, <3>1, <3>2, <3>4, <3>6, <3>7 DEF CallsAre
    <3> QED
      BY <3>5, <3>8
  <2>8. Level(n)'
    BY <1>2, <2>5, <2>6, <2>7 DEF Level
  <2>9. Levels'
    <3>1. \A m \in 0..n : m \in 0..(n - 1) \/ m = n
      BY <1>1
    <3> QED
      BY <1>1, <2>4, <2>8, <3>1 DEF Levels
  <2>10. OnlyOpenLog'
    <3>1. IsOpen(open[n])
      BY <1>1, <2>1 DEF IsOpen
    <3> QED
      BY <1>1, <2>1, <2>2, <3>1 DEF IInv, OnlyOpenLog, IsOpen
  <2> QED
    BY <1>4, <2>9, <2>10 DEF IInv
<1> QED
  BY <1>5, <1>6

LEMMA NextKeepsIInv == ASSUME IInv, LastFirst, [Next]_vars PROVE IInv'
<1>1. CASE UNCHANGED vars
  <2>1. Levels'
    BY <1>1, LevelsStay DEF vars
  <2> QED
    BY <1>1, <2>1 DEF vars, given, IInv, TypeOK, OnlyOpenLog, IsOpen
<1> QED
  BY <1>1, OpenKeepsIInv, CloseKeepsIInv, StepKeepsIInv, AccessKeepsIInv, AssignKeepsIInv
  DEF Next

LEMMA Invariance == ASSUME LastFirst PROVE Spec => []IInv
<1>1. Init => IInv
  BY InitIInv
<1>2. IInv /\ [Next]_vars => IInv'
  BY NextKeepsIInv
<1> QED
  BY <1>1, <1>2, PTL DEF Spec
-----------------------------------------------------------------------------
(* The bus, what the sessions keep and their logs stay in their types.     *)
THEOREM TypeCorrect == ASSUME LastFirst PROVE Spec => []TypeOK
<1>1. IInv => TypeOK
  BY DEF IInv
<1> QED
  BY <1>1, Invariance, PTL

(* Closed last first, however many sessions there are and whatever the     *)
(* host assigns meanwhile, each logs every access while it is open, but    *)
(* those of a callable that was put over its wrapper (debug.py _wrap_bus). *)
THEOREM EverySessionLogs == ASSUME LastFirst PROVE Spec => []EverySessionSeesEveryAccess
<1>1. IInv => EverySessionSeesEveryAccess
  <2>1. ASSUME IInv, NEW s \in Sessions, IsOpen(s) PROVE log[s] = made[s]
    BY <2>1 DEF IInv, OnlyOpenLog
  <2> QED
    BY <2>1 DEF EverySessionSeesEveryAccess
<1> QED
  BY <1>1, Invariance, PTL

(* Each close() gives back what its session found, so that what the host   *)
(* assigned under a session lasts as long as that, and when the last one   *)
(* is closed the CPU calls what the host gave it with none open.           *)
THEOREM CallablesComeBack == ASSUME LastFirst PROVE Spec => []GivesCallablesBack
<1>1. IInv => GivesCallablesBack
  <2> SUFFICES ASSUME IInv, NEW k \in Kinds
               PROVE  /\ Keeps(k, 1) => bus[k].calls = own[k]
                      /\ \A i \in DOMAIN open :
                           during[open[i]][k] # None /\ Keeps(k, i + 1) =>
                             bus[k].calls = during[open[i]][k]
                      /\ open = <<>> => bus[k].wraps = <<>>
    BY DEF GivesCallablesBack
  <2>1. /\ bus \in Pairs /\ DOMAIN open = 1..Len(open) /\ Under(Len(open)) = bus
        /\ WrapsAre(Len(open), k) /\ CallsAre(Len(open), k)
    BY OpenIsTop DEF IInv, TypeOK, Level
  <2>2. ASSUME open = <<>> PROVE bus[k].wraps = <<>>
    <3>1. bus[k].wraps \in Seq(Sessions)
      BY <2>1 DEF Pairs, Callables
    <3>2. Len(open) = 0
      BY <2>2
    <3>3. \A s \in Sessions : s \notin ToSet(bus[k].wraps)
      BY <2>1, <3>2 DEF WrapsAre
    <3>4. CASE bus[k].wraps # <<>>
      BY <3>1, <3>3, <3>4 DEF ToSet
    <3> QED
      BY <3>4
  <2> QED
    BY <2>1, <2>2 DEF CallsAre, Keeps, KeepsTo
<1> QED
  BY <1>1, Invariance, PTL
=============================================================================
