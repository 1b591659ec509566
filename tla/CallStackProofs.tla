-------------------------- MODULE CallStackProofs --------------------------
(***************************************************************************)
(* For a stack page and bytes of any size: the frames nest and are held,   *)
(* over's test is exact, and CallStack implements CallContract.            *)
(***************************************************************************)
EXTENDS CallStack, SequenceTheorems, TLAPS

USE CallStackAssumption

(* The bytes that a frame, or the first d frames, take up from bottom.     *)
End(f)     == f.at + Size[f.kind]
Beneath(d) == IF d = 0 THEN 0 ELSE End(frames[d])

(* The frames lie one upon the other, and all of them on the page.         *)
Nested ==
  /\ Depth \in 0..MaxBytes
  /\ \A i \in DOMAIN frames : frames[i].at = Beneath(i - 1)
  /\ \A i, j \in DOMAIN frames : i < j => End(frames[i]) <= frames[j].at

(* Where the command over stands: at its call site or at the instruction   *)
(* after it with nothing pushed, or with what left that place on the       *)
(* stack first.                                                            *)
OverInv ==
  over # None =>
    /\ over.depth <= Len(frames)
    /\ over.s = Slot(Beneath(over.depth))
    /\ \E site \in CallSites :
         /\ over.next = After(site, 3)
         /\ IF Len(frames) = over.depth
            THEN pc = IF over.called THEN over.next ELSE site
            ELSE LET first == frames[over.depth + 1]
                 IN IF over.called
                    THEN first.kind = "CALL" /\ first.ret = over.next
                    ELSE first.kind = "INTERRUPT" /\ first.ret = site

IInv == TypeOK /\ Nested /\ FramesAreHeld /\ OverInv

-----------------------------------------------------------------------------
(* Addresses and their bytes. *)

LEMMA Squared == Base * Base \in Nat /\ Base * Base >= 4
BY SMTT(30)

LEMMA ModOnce ==
  ASSUME NEW n \in Nat, n > 0, NEW x \in Nat, x < 2 * n
  PROVE  x % n = IF x < n THEN x ELSE x - n
BY SMTT(30)

LEMMA AfterIs ==
  ASSUME NEW a \in Addresses, NEW n \in 0..3
  PROVE  /\ After(a, n) = IF a + n < Base * Base THEN a + n ELSE a + n - Base * Base
         /\ After(a, n) \in Addresses
<1> DEFINE N == Base * Base
<1>1. N \in Nat /\ N >= 4
  BY Squared
<1>2. a + n \in Nat /\ a + n < 2 * N /\ After(a, n) = (a + n) % N /\ a \in 0..(N - 1)
  BY <1>1 DEF Addresses, After
<1> HIDE DEF N
<1>3. After(a, n) = IF a + n < N THEN a + n ELSE a + n - N
  BY <1>1, <1>2, ModOnce
<1> USE DEF N
<1> QED
  BY <1>1, <1>2, <1>3 DEF Addresses

LEMMA AfterLast ==
  ASSUME NEW a \in Addresses
  PROVE  After(a, Base * Base - 1) = IF a = 0 THEN Base * Base - 1 ELSE a - 1
<1> DEFINE N == Base * Base
<1>1. N \in Nat /\ N >= 4
  BY Squared
<1>2. /\ a + (N - 1) \in Nat /\ a + (N - 1) < 2 * N
      /\ After(a, N - 1) = (a + (N - 1)) % N /\ a \in 0..(N - 1)
  BY <1>1 DEF Addresses, After
<1> HIDE DEF N
<1>3. After(a, N - 1) = IF a + (N - 1) < N THEN a + (N - 1) ELSE a + (N - 1) - N
  BY <1>1, <1>2, ModOnce
<1>4. After(a, N - 1) = IF a = 0 THEN N - 1 ELSE a - 1
  BY <1>1, <1>2, <1>3
<1> USE DEF N
<1> QED
  BY <1>4

LEMMA Halves ==
  ASSUME NEW a \in Addresses
  PROVE  High(a) \in Bytes /\ Low(a) \in Bytes /\ High(a) * Base + Low(a) = a
<1>1. a \in Nat /\ a <= Base * Base - 1
  BY Squared DEF Addresses
<1>2. (a \div Base) * Base + (a % Base) = a /\ a % Base \in 0..(Base - 1) /\ a \div Base \in Nat
  BY <1>1, SMTT(30)
<1>3. a \div Base < Base
  BY <1>1, <1>2, SMTT(30)
<1> QED
  BY <1>2, <1>3 DEF High, Low, Bytes

(* A call goes back to the instruction after it, which is another one.     *)
LEMMA ReturnAddress ==
  ASSUME NEW a \in Addresses
  PROVE  /\ After(After(a, 3), Base * Base - 1) = After(a, 2)
         /\ After(After(a, 2), 1) = After(a, 3)
         /\ After(a, 3) # a
         /\ After(After(a, Base * Base - 1), 1) = a
         /\ After(a, Base * Base - 1) \in Addresses
<1>1. Base * Base \in Nat /\ Base * Base >= 4
  BY Squared
<1>2. After(a, 2) \in Addresses /\ After(a, 3) \in Addresses
  BY AfterIs
<1>3. /\ After(a, 3) = IF a + 3 < Base * Base THEN a + 3 ELSE a + 3 - Base * Base
      /\ After(a, 2) = IF a + 2 < Base * Base THEN a + 2 ELSE a + 2 - Base * Base
  BY AfterIs
<1>4. After(After(a, 2), 1) =
        IF After(a, 2) + 1 < Base * Base THEN After(a, 2) + 1 ELSE After(a, 2) + 1 - Base * Base
  BY <1>2, AfterIs
<1>5. After(After(a, 3), Base * Base - 1) =
        IF After(a, 3) = 0 THEN Base * Base - 1 ELSE After(a, 3) - 1
  BY <1>2, AfterLast
<1> DEFINE N == Base * Base
<1>6. a \in 0..(N - 1)
  BY DEF Addresses
<1>7. After(a, N - 1) = IF a = 0 THEN N - 1 ELSE a - 1
  BY AfterLast
<1>8. After(a, N - 1) \in 0..(N - 1) /\ After(a, N - 1) \in Addresses
  BY <1>1, <1>6, <1>7 DEF Addresses
<1>9. After(After(a, N - 1), 1) =
        IF After(a, N - 1) + 1 < N THEN After(a, N - 1) + 1 ELSE After(a, N - 1) + 1 - N
  BY <1>8, AfterIs
<1> HIDE DEF N
<1>10. After(After(a, N - 1), 1) = a
  BY <1>1, <1>6, <1>7, <1>8, <1>9 DEF N
<1> QED
  BY <1>1, <1>3, <1>4, <1>5, <1>6, <1>8, <1>10 DEF N

-----------------------------------------------------------------------------
(* The slots of the page. *)

LEMMA SlotSteps ==
  ASSUME bottom \in Slots, NEW k \in 0..(StackSize - 2)
  PROVE  /\ Slot(k) \in Slots /\ Slot(k + 1) \in Slots
         /\ Dec(Slot(k)) = Slot(k + 1)
         /\ Inc(Slot(k + 1)) = Slot(k)
BY DEF Slots, Slot, Dec, Inc

LEMMA SlotIsNotAnother ==
  ASSUME bottom \in Slots, NEW j \in 0..(StackSize - 1), NEW k \in 0..(StackSize - 1)
  PROVE  /\ Slot(k) \in Slots
         /\ Slot(j) = Slot(k) => j = k
BY DEF Slots, Slot

LEMMA Sizes == ASSUME NEW f \in Frames
  PROVE /\ f.kind \in {"CALL", "INTERRUPT", "BYTE"}
        /\ f.at \in 0..MaxBytes
        /\ Size[f.kind] \in 1..3 /\ End(f) \in Nat /\ End(f) > f.at
        /\ f.kind = "CALL" => Size[f.kind] = 2
        /\ f.kind = "INTERRUPT" => Size[f.kind] = 3
        /\ f.kind = "BYTE" => Size[f.kind] = 1
BY DEF Frames, Size, End

-----------------------------------------------------------------------------
(* Pushing a frame, and pulling one, keep what lies beneath. *)

LEMMA DepthIsBeneath ==
  ASSUME TypeOK, Nested
  PROVE  /\ Depth = Beneath(Len(frames))
         /\ Len(frames) \in Nat
         /\ \A i \in DOMAIN frames : /\ frames[i] \in Frames
                                   /\ End(frames[i]) <= Depth
<1>1. frames \in Seq(Frames)
  BY DEF TypeOK
<1>2. Len(frames) \in Nat /\ \A i \in DOMAIN frames : frames[i] \in Frames
  BY <1>1
<1>3. Depth = Beneath(Len(frames))
  BY <1>1, <1>2 DEF Depth, Top, Beneath, End
<1>4. ASSUME NEW i \in DOMAIN frames  PROVE End(frames[i]) <= Depth
  <2>1. i \in 1..Len(frames) /\ frames # <<>> /\ Len(frames) \in DOMAIN frames
    BY <1>1, <1>2
  <2>2. Depth = End(frames[Len(frames)])
    BY <2>1 DEF Depth, Top, End
  <2>3. CASE i = Len(frames)
    BY <2>1, <2>2, <2>3, <1>2, Sizes
  <2>4. CASE i < Len(frames)
    <3>1. End(frames[i]) <= frames[Len(frames)].at
      BY <2>1, <2>4 DEF Nested
    <3> QED
      BY <3>1, <2>1, <2>2, <1>2, Sizes
  <2> QED
    BY <2>1, <2>3, <2>4
<1> QED
  BY <1>2, <1>3, <1>4

LEMMA PushHolds ==
  ASSUME TypeOK, Nested, FramesAreHeld,
         frames' = Append(frames, Top'), Top' \in Frames, Top.at' = Depth,
         Depth + Size[Top.kind'] <= MaxBytes,
         bottom' = bottom, s' = Slot(Depth + Size[Top.kind']),
         \A k \in 0..(Depth - 1) : memory'[Slot(k)] = memory[Slot(k)],
         Holds(Top)'
  PROVE  Nested' /\ FramesAreHeld'
<1> PICK n \in Nat : n = Len(frames)
  BY DEF TypeOK
<1>1. /\ n \in Nat /\ frames \in Seq(Frames) /\ Depth = Beneath(n)
      /\ \A i \in DOMAIN frames : frames[i] \in Frames /\ End(frames[i]) <= Depth
  BY DepthIsBeneath DEF TypeOK
<1>2. /\ Len(frames') = n + 1 /\ frames' \in Seq(Frames) /\ frames' # <<>>
      /\ DOMAIN frames' = 1..(n + 1) /\ DOMAIN frames = 1..n
      /\ frames'[n + 1] = Top'
      /\ \A i \in 1..n : frames'[i] = frames[i]
  BY <1>1
<1>3. Depth' = End(Top') /\ Depth' = Depth + Size[Top.kind']
  BY <1>2 DEF Depth, End, Top
<1>4. Depth \in 0..MaxBytes /\ Depth' \in 0..MaxBytes
  BY <1>3, Sizes DEF Nested
<1>5. \A i \in 1..(n + 1) : frames'[i].at = Beneath(i - 1)'
  <2> TAKE i \in 1..(n + 1)
  <2>1. CASE i = n + 1
    BY <2>1, <1>1, <1>2 DEF Beneath
  <2>2. CASE i \in 1..n
    BY <2>2, <1>1, <1>2 DEF Nested, Beneath
  <2> QED
    BY <2>1, <2>2, <1>1
<1>6. \A i, j \in 1..(n + 1) : i < j => End(frames'[i]) <= frames'[j].at
  <2> SUFFICES ASSUME NEW i \in 1..(n + 1), NEW j \in 1..(n + 1), i < j
               PROVE  End(frames'[i]) <= frames'[j].at
    OBVIOUS
  <2>1. CASE j = n + 1
    BY <2>1, <1>1, <1>2
  <2>2. CASE j \in 1..n
    BY <2>2, <1>1, <1>2 DEF Nested
  <2> QED
    BY <2>1, <2>2, <1>1
<1>7. Nested'
  BY <1>2, <1>4, <1>5, <1>6 DEF Nested, End
<1>8. \A k : Slot(k)' = Slot(k)
  BY DEF Slot
<1>9. s' = Slot(Depth)'
  BY <1>3 DEF Slot
<1>10. ASSUME NEW i \in 1..n  PROVE Holds(frames[i])'
  <2>1. Holds(frames[i]) /\ frames'[i] = frames[i] /\ frames[i] \in Frames
    BY <1>1, <1>2 DEF FramesAreHeld
  <2>2. frames[i].at \in 0..MaxBytes /\ End(frames[i]) <= Depth
        /\ frames[i].at + Size[frames[i].kind] <= Depth
    BY <2>1, <1>1, <1>2, Sizes DEF End
  <2>3. CASE frames[i].kind = "BYTE"
    <3>1. frames[i].at \in 0..(Depth - 1)
      BY <2>1, <2>2, <2>3, <1>4, Sizes
    <3>2. memory'[Slot(frames[i].at)] = memory[Slot(frames[i].at)]
      BY <3>1
    <3> QED
      BY <2>1, <2>3, <3>2 DEF Holds, Slot
  <2>4. CASE frames[i].kind = "CALL"
    <3>1. frames[i].at \in 0..(Depth - 1) /\ frames[i].at + 1 \in 0..(Depth - 1)
      <4>1. Size[frames[i].kind] = 2
        BY <2>4 DEF Size
      <4> QED
        BY <4>1, <2>2, <1>4
    <3>2. /\ memory'[Slot(frames[i].at)] = memory[Slot(frames[i].at)]
          /\ memory'[Slot(frames[i].at + 1)] = memory[Slot(frames[i].at + 1)]
      BY <3>1
    <3> QED
      BY <2>1, <2>4, <3>2 DEF Holds, Slot
  <2>5. CASE frames[i].kind = "INTERRUPT"
    <3>1. /\ frames[i].at \in 0..(Depth - 1) /\ frames[i].at + 1 \in 0..(Depth - 1)
          /\ frames[i].at + 2 \in 0..(Depth - 1)
      <4>1. Size[frames[i].kind] = 3
        BY <2>5 DEF Size
      <4> QED
        BY <4>1, <2>2, <1>4
    <3>2. /\ memory'[Slot(frames[i].at)] = memory[Slot(frames[i].at)]
          /\ memory'[Slot(frames[i].at + 1)] = memory[Slot(frames[i].at + 1)]
          /\ memory'[Slot(frames[i].at + 2)] = memory[Slot(frames[i].at + 2)]
      BY <3>1
    <3> QED
      BY <2>1, <2>5, <3>2 DEF Holds, Slot
  <2> QED
    BY <2>1, <2>3, <2>4, <2>5, Sizes
<1>11. Holds(frames[n + 1])'
  BY <1>2 DEF Top, Holds, Slot
<1>12. FramesAreHeld'
  BY <1>1, <1>2, <1>9, <1>10, <1>11 DEF FramesAreHeld
<1> QED
  BY <1>7, <1>12

LEMMA PopHolds ==
  ASSUME TypeOK, Nested, FramesAreHeld, frames # <<>>,
         PopFrame, memory' = memory, s' = Slot(Top.at)
  PROVE  Nested' /\ FramesAreHeld'
<1> PICK n \in Nat : n = Len(frames)
  BY DEF TypeOK
<1>1. /\ n \in Nat /\ frames \in Seq(Frames) /\ Depth = Beneath(n)
      /\ \A i \in DOMAIN frames : frames[i] \in Frames /\ End(frames[i]) <= Depth
  BY DepthIsBeneath DEF TypeOK
<1>2. n > 0 /\ DOMAIN frames = 1..n /\ Top = frames[n] /\ n \in DOMAIN frames
  BY <1>1 DEF Top
<1>3. /\ Len(frames') = n - 1 /\ frames' \in Seq(Frames)
      /\ DOMAIN frames' = 1..(n - 1)
      /\ \A i \in 1..(n - 1) : frames'[i] = frames[i]
      /\ bottom' = bottom
  BY <1>1, <1>2 DEF PopFrame
<1>4. Top.at = Beneath(n - 1) /\ Top \in Frames /\ Top.at \in 0..MaxBytes
  BY <1>1, <1>2, Sizes DEF Nested
<1>5. Depth' = Beneath(n - 1)
  <2>1. CASE n = 1
    BY <2>1, <1>3 DEF Depth, Beneath
  <2>2. CASE n > 1
    <3>1. frames' # <<>> /\ Top' = frames[n - 1] /\ n - 1 # 0
      BY <2>2, <1>1, <1>3 DEF Top
    <3> QED
      BY <3>1 DEF Depth, Beneath, End
  <2> QED
    BY <1>1, <1>2, <2>1, <2>2
<1>6. ASSUME NEW i \in 1..(n - 1)  PROVE frames'[i].at = Beneath(i - 1)'
  <2>1. frames'[i] = frames[i] /\ frames[i].at = Beneath(i - 1)
    <3>1. i \in DOMAIN frames
      BY <1>2
    <3> QED
      BY <3>1, <1>3 DEF Nested
  <2>2. i - 1 = 0 \/ (i - 1 \in 1..(n - 1) /\ frames'[i - 1] = frames[i - 1])
    BY <1>3
  <2>3. Beneath(i - 1)' = Beneath(i - 1)
    BY <2>2 DEF Beneath, End
  <2> QED
    BY <2>1, <2>3
<1>7. Nested'
  <2>1. Depth' \in 0..MaxBytes
    BY <1>4, <1>5
  <2>2. \A i, j \in DOMAIN frames' : i < j => End(frames[i])' <= frames'[j].at
    <3> SUFFICES ASSUME NEW i \in 1..(n - 1), NEW j \in 1..(n - 1), i < j
                 PROVE  End(frames[i])' <= frames'[j].at
      BY <1>3
    <3>1. i \in DOMAIN frames /\ j \in DOMAIN frames
      BY <1>2
    <3>2. frames'[i] = frames[i] /\ frames'[j] = frames[j]
      BY <1>3
    <3> QED
      BY <3>1, <3>2 DEF Nested, End
  <2>3. \A i \in DOMAIN frames' : frames'[i].at = Beneath(i - 1)'
    BY <1>3, <1>6
  <2> QED
    BY <2>1, <2>2, <2>3 DEF Nested
<1>8. s' = Slot(Depth)'
  BY <1>3, <1>4, <1>5 DEF Slot
<1>9. ASSUME NEW i \in 1..(n - 1)  PROVE Holds(frames[i])'
  <2>1. Holds(frames[i]) /\ frames'[i] = frames[i]
    BY <1>2, <1>3 DEF FramesAreHeld
  <2> QED
    BY <2>1, <1>3 DEF Holds, Slot
<1>10. FramesAreHeld'
  BY <1>3, <1>8, <1>9 DEF FramesAreHeld
<1> QED
  BY <1>7, <1>10

-----------------------------------------------------------------------------
(* What the bytes say that are pushed and pulled. *)

LEMMA PushedIs ==
  ASSUME TypeOK, Nested, FramesAreHeld, NEW a \in Addresses, Depth + 2 <= MaxBytes
  PROVE  /\ PushedAddress(a) \in [Slots -> Bytes]
         /\ PushedAddress(a)[Slot(Depth)] = High(a)
         /\ PushedAddress(a)[Slot(Depth + 1)] = Low(a)
         /\ \A k \in 0..(Depth - 1) : PushedAddress(a)[Slot(k)] = memory[Slot(k)]
         /\ Dec(s) = Slot(Depth + 1) /\ Dec(Dec(s)) = Slot(Depth + 2)
         /\ \A k \in 0..(Depth + 2) : Slot(k) \in Slots
<1>1. /\ bottom \in Slots /\ memory \in [Slots -> Bytes] /\ s = Slot(Depth)
      /\ Depth \in 0..MaxBytes /\ Depth + 2 \in 0..(StackSize - 1)
  BY DEF TypeOK, FramesAreHeld, Nested
<1>2. High(a) \in Bytes /\ Low(a) \in Bytes
  BY Halves
<1>3. Dec(s) = Slot(Depth + 1) /\ Dec(Dec(s)) = Slot(Depth + 2)
  <2>1. Depth \in 0..(StackSize - 2) /\ Depth + 1 \in 0..(StackSize - 2)
        /\ (Depth + 1) + 1 = Depth + 2
    BY <1>1
  <2>2. Dec(Slot(Depth)) = Slot(Depth + 1)
    BY <1>1, <2>1, SlotSteps
  <2>3. Dec(Slot(Depth + 1)) = Slot((Depth + 1) + 1)
    BY <1>1, <2>1, SlotSteps
  <2> QED
    BY <1>1, <2>1, <2>2, <2>3
<1> PICK d \in 0..MaxBytes : d = Depth
  BY <1>1
<1>4. ASSUME NEW k \in 0..(d + 2), NEW j \in 0..(d + 2)
      PROVE  Slot(k) \in Slots /\ (Slot(j) = Slot(k) => j = k)
  BY <1>1, SlotIsNotAnother
<1>5. d \in 0..(d + 2) /\ d + 1 \in 0..(d + 2) /\ d + 1 # d
  OBVIOUS
<1>6. Slot(d) \in Slots /\ Slot(d + 1) \in Slots /\ Slot(d + 1) # Slot(d)
  BY <1>4, <1>5
<1>7. ASSUME NEW k \in 0..(d - 1)
      PROVE  Slot(k) \in Slots /\ Slot(k) # Slot(d) /\ Slot(k) # Slot(d + 1)
  <2>1. k \in 0..(d + 2) /\ k # d /\ k # d + 1
    OBVIOUS
  <2> QED
    BY <1>4, <1>5, <2>1
<1> DEFINE m == [memory EXCEPT ![Slot(d)] = High(a), ![Slot(d + 1)] = Low(a)]
<1>8. m = PushedAddress(a)
  BY <1>1, <1>3 DEF PushedAddress
<1>9. /\ m \in [Slots -> Bytes]
      /\ m[Slot(d)] = High(a) /\ m[Slot(d + 1)] = Low(a)
  BY <1>1, <1>2, <1>6
<1>10. ASSUME NEW k \in 0..(d - 1)  PROVE m[Slot(k)] = memory[Slot(k)]
  <2>1. Slot(k) \in Slots /\ Slot(k) # Slot(d) /\ Slot(k) # Slot(d + 1)
    BY <1>7
  <2> QED
    BY <1>1, <2>1
<1> HIDE DEF m
<1> QED
  BY <1>3, <1>4, <1>8, <1>9, <1>10

LEMMA PulledIs ==
  ASSUME TypeOK, Nested, FramesAreHeld, frames # <<>>
  PROVE  /\ Top \in Frames /\ Len(frames) \in DOMAIN frames
         /\ Top.kind = "CALL" =>
              /\ After(PulledAddress(s), 1) = Top.ret
              /\ Inc(Inc(s)) = Slot(Top.at)
         /\ Top.kind = "INTERRUPT" =>
              /\ memory[Inc(s)] = Top.value
              /\ PulledAddress(Inc(s)) = Top.ret
              /\ Inc(Inc(Inc(s))) = Slot(Top.at)
         /\ Top.kind = "BYTE" =>
              /\ memory[Inc(s)] = Top.value
              /\ Inc(s) = Slot(Top.at)
         /\ Slot(Top.at) \in Slots
<1>1. /\ Len(frames) \in Nat /\ frames \in Seq(Frames) /\ bottom \in Slots
      /\ \A i \in DOMAIN frames : frames[i] \in Frames
  BY DepthIsBeneath DEF TypeOK
<1>2. Len(frames) \in DOMAIN frames /\ Top \in Frames /\ Holds(Top)
  BY <1>1 DEF Top, FramesAreHeld
<1>3. /\ Top.at \in 0..MaxBytes /\ Depth = Top.at + Size[Top.kind] /\ s = Slot(Depth)
      /\ Depth \in 0..MaxBytes
  BY <1>2, Sizes DEF Depth, FramesAreHeld, Nested
<1>4. Slot(Top.at) \in Slots
  BY <1>1, <1>3, SlotIsNotAnother
<1>5. ASSUME Top.kind = "CALL"
      PROVE  After(PulledAddress(s), 1) = Top.ret /\ Inc(Inc(s)) = Slot(Top.at)
  <2>1. Depth = (Top.at + 1) + 1 /\ Top.at \in 0..(StackSize - 2)
        /\ Top.at + 1 \in 0..(StackSize - 2)
    BY <1>3, <1>5 DEF Size
  <2>2. Inc(s) = Slot(Top.at + 1) /\ Inc(Inc(s)) = Slot(Top.at)
    BY <1>1, <1>3, <2>1, SlotSteps
  <2>3. PulledAddress(s) = After(Top.ret, Base * Base - 1) /\ Top.ret \in Addresses
    <3>1. Top.ret \in Addresses
      BY <1>2, <1>5 DEF Frames
    <3>2. /\ memory[Slot(Top.at)] = High(After(Top.ret, Base * Base - 1))
          /\ memory[Slot(Top.at + 1)] = Low(After(Top.ret, Base * Base - 1))
      BY <1>2, <1>5 DEF Holds
    <3>3. After(Top.ret, Base * Base - 1) \in Addresses
      BY <3>1, ReturnAddress
    <3> QED
      BY <2>2, <3>1, <3>2, <3>3, Halves DEF PulledAddress
  <2> QED
    BY <2>2, <2>3, ReturnAddress
<1>6. ASSUME Top.kind = "INTERRUPT"
      PROVE  /\ memory[Inc(s)] = Top.value
             /\ PulledAddress(Inc(s)) = Top.ret
             /\ Inc(Inc(Inc(s))) = Slot(Top.at)
  <2>1. Depth = ((Top.at + 1) + 1) + 1 /\ Top.at \in 0..(StackSize - 2)
        /\ Top.at + 1 \in 0..(StackSize - 2) /\ (Top.at + 1) + 1 \in 0..(StackSize - 2)
        /\ (Top.at + 1) + 1 = Top.at + 2
    BY <1>3, <1>6 DEF Size
  <2>2. /\ Inc(s) = Slot(Top.at + 2) /\ Inc(Inc(s)) = Slot(Top.at + 1)
        /\ Inc(Inc(Inc(s))) = Slot(Top.at)
    BY <1>1, <1>3, <2>1, SlotSteps
  <2>3. /\ memory[Slot(Top.at)] = High(Top.ret)
        /\ memory[Slot(Top.at + 1)] = Low(Top.ret)
        /\ memory[Slot(Top.at + 2)] = Top.value
    BY <1>2, <1>6 DEF Holds
  <2>4. Top.ret \in Addresses
    BY <1>2, <1>6 DEF Frames
  <2> QED
    BY <2>2, <2>3, <2>4, Halves DEF PulledAddress
<1>7. ASSUME Top.kind = "BYTE"
      PROVE  memory[Inc(s)] = Top.value /\ Inc(s) = Slot(Top.at)
  <2>1. Depth = Top.at + 1 /\ Top.at \in 0..(StackSize - 2)
    BY <1>3, <1>7 DEF Size
  <2>2. Inc(s) = Slot(Top.at)
    BY <1>1, <1>3, <2>1, SlotSteps
  <2> QED
    BY <2>2, <1>2, <1>7 DEF Holds
<1> QED
  BY <1>2, <1>4, <1>5, <1>6, <1>7

-----------------------------------------------------------------------------
(* The command over. *)

(* PC and S are where over looks for them exactly when its call has        *)
(* returned.                                                               *)
LEMMA IInvBack == IInv => BackIsReturned
<1> SUFFICES ASSUME IInv  PROVE Back <=> Returned
  BY DEF BackIsReturned
<1> USE DEF IInv
<1> SUFFICES ASSUME over # None  PROVE Back <=> Returned
  BY DEF Back, Returned
<1>1. /\ over \in Overs /\ bottom \in Slots /\ s = Slot(Depth)
      /\ Len(frames) \in Nat /\ Depth = Beneath(Len(frames))
      /\ Depth \in 0..(StackSize - 1)
  BY DepthIsBeneath DEF TypeOK, FramesAreHeld, Nested
<1>2. over.depth \in Nat /\ over.depth <= Len(frames) /\ over.s = Slot(Beneath(over.depth))
      /\ over.called \in BOOLEAN
  BY <1>1 DEF OverInv, Overs
<1>3. PICK site \in CallSites :
        /\ over.next = After(site, 3)
        /\ Len(frames) = over.depth => pc = IF over.called THEN over.next ELSE site
  BY DEF OverInv
<1>4. over.next # site
  BY <1>3, ReturnAddress DEF Addresses
<1>5. CASE Len(frames) = over.depth
  BY <1>1, <1>2, <1>3, <1>4, <1>5 DEF Back, Returned
<1>6. CASE over.depth < Len(frames)
  <2>1. over.depth + 1 \in DOMAIN frames /\ (over.depth + 1) - 1 = over.depth
    BY <1>1, <1>2, <1>6 DEF TypeOK
  <2>2. Beneath(over.depth) = frames[over.depth + 1].at
    BY <2>1 DEF Nested
  <2>3. Beneath(over.depth) \in 0..(StackSize - 1) /\ Beneath(over.depth) < Depth
    BY <2>1, <2>2, <1>1, DepthIsBeneath, Sizes
  <2>4. s # over.s
    BY <2>3, <1>1, <1>2, SlotIsNotAnother
  <2> QED
    BY <2>4, <1>6 DEF Back, Returned
<1> QED
  BY <1>1, <1>2, <1>5, <1>6

(* Only at its call site, or when it is back, does over wait with nothing  *)
(* pushed.                                                                 *)
LEMMA OverWaitsDeeper ==
  ASSUME IInv, Runs, pc \notin CallSites, over # None
  PROVE  over.depth < Len(frames)
<1>1. ~ Returned
  BY IInvBack DEF BackIsReturned, Runs
<1>2. /\ over.depth \in Nat /\ Len(frames) \in Nat /\ over.depth <= Len(frames)
      /\ over.called \in BOOLEAN
  BY DepthIsBeneath DEF IInv, OverInv, TypeOK, Overs
<1>3. PICK site \in CallSites :
        Len(frames) = over.depth => pc = IF over.called THEN over.next ELSE site
  BY DEF IInv, OverInv
<1> QED
  BY <1>1, <1>2, <1>3 DEF Returned

LEMMA OverPushed ==
  ASSUME IInv, over # None => over.depth < Len(frames),
         frames' = Append(frames, Top'), bottom' = bottom, over' = over
  PROVE  OverInv'
<1> SUFFICES ASSUME over # None  PROVE OverInv'
  BY DEF OverInv
<1>1. /\ over.depth \in Nat /\ Len(frames) \in Nat /\ over.depth < Len(frames)
      /\ frames \in Seq(Frames)
  BY DepthIsBeneath DEF IInv, TypeOK, Overs
<1>2. /\ Len(frames') = Len(frames) + 1
      /\ \A i \in 1..Len(frames) : frames'[i] = frames[i]
  BY <1>1
<1>3. Beneath(over.depth)' = Beneath(over.depth)
  BY <1>1, <1>2 DEF Beneath, End
<1>4. frames'[over.depth + 1] = frames[over.depth + 1]
  BY <1>1, <1>2
<1>5. over.s = Slot(Beneath(over.depth))'
  BY <1>3 DEF IInv, OverInv, Slot
<1>6. Len(frames) # over.depth /\ Len(frames') # over.depth /\ over.depth <= Len(frames')
  BY <1>1, <1>2
<1>7. PICK site \in CallSites :
        /\ over.next = After(site, 3)
        /\ LET first == frames[over.depth + 1]
           IN IF over.called
              THEN first.kind = "CALL" /\ first.ret = over.next
              ELSE first.kind = "INTERRUPT" /\ first.ret = site
  BY <1>6 DEF IInv, OverInv
<1> QED
  BY <1>4, <1>5, <1>6, <1>7 DEF OverInv

LEMMA OverPopped ==
  ASSUME IInv, over # None => over.depth < Len(frames),
         frames # <<>>, PopFrame, over' = over,
         Top.kind # "BYTE" => pc' = Top.ret
  PROVE  OverInv'
<1> SUFFICES ASSUME over # None  PROVE OverInv'
  BY DEF OverInv
<1>1. /\ over.depth \in Nat /\ Len(frames) \in Nat /\ over.depth < Len(frames)
      /\ frames \in Seq(Frames)
  BY DepthIsBeneath DEF IInv, TypeOK, Overs
<1> PICK n \in Nat : n = Len(frames) /\ n > 0
  BY <1>1
<1>2. /\ Len(frames') = Len(frames) - 1 /\ bottom' = bottom
      /\ \A i \in 1..(Len(frames) - 1) : frames'[i] = frames[i]
  <2>1. Len(frames') = n - 1 /\ \A i \in 1..(n - 1) : frames'[i] = frames[i]
    BY <1>1 DEF PopFrame
  <2> QED
    BY <2>1 DEF PopFrame
<1>3. Beneath(over.depth)' = Beneath(over.depth)
  BY <1>1, <1>2 DEF Beneath, End
<1>4. over.s = Slot(Beneath(over.depth))'
  BY <1>2, <1>3 DEF IInv, OverInv, Slot
<1>5. CASE over.depth < Len(frames) - 1
  <2>1. frames'[over.depth + 1] = frames[over.depth + 1]
    BY <1>1, <1>2, <1>5
  <2> QED
    BY <1>1, <1>2, <1>4, <1>5, <2>1 DEF IInv, OverInv
<1>6. CASE over.depth = Len(frames) - 1
  <2>1. frames[over.depth + 1] = Top /\ Len(frames) # over.depth /\ Len(frames') = over.depth
    BY <1>1, <1>2, <1>6 DEF Top
  <2>2. PICK site \in CallSites :
          /\ over.next = After(site, 3)
          /\ IF over.called THEN Top.kind = "CALL" /\ Top.ret = over.next
                            ELSE Top.kind = "INTERRUPT" /\ Top.ret = site
    BY <2>1 DEF IInv, OverInv
  <2>3. pc' = IF over.called THEN over.next ELSE site
    BY <2>2
  <2> QED
    BY <1>1, <1>4, <2>1, <2>2, <2>3 DEF OverInv
<1> QED
  BY <1>1, <1>5, <1>6

-----------------------------------------------------------------------------
(* Every step keeps the invariant. *)

LEMMA NewFrameIs ==
  ASSUME IInv, NEW kind \in {"CALL", "INTERRUPT", "BYTE"}, NEW ret, NEW value,
         [kind |-> kind, ret |-> ret, value |-> value, at |-> Depth] \in Frames,
         NewFrame(kind, ret, value)
  PROVE  /\ frames' = Append(frames, Top') /\ Top' \in Frames
         /\ frames' \in Seq(Frames) /\ bottom' = bottom
         /\ Top.kind' = kind /\ Top.ret' = ret /\ Top.value' = value /\ Top.at' = Depth
         /\ Depth + Size[kind] <= MaxBytes
         /\ Depth \in 0..MaxBytes
         /\ Len(frames') = Len(frames) + 1 /\ frames'[Len(frames) + 1] = Top'
<1> DEFINE f == [kind |-> kind, ret |-> ret, value |-> value, at |-> Depth]
<1>1. frames \in Seq(Frames) /\ f \in Frames /\ frames' = Append(frames, f)
  BY DEF IInv, TypeOK, NewFrame
<1>2. Top' = f
  BY <1>1 DEF Top
<1>3. /\ frames' \in Seq(Frames)
      /\ Len(frames') = Len(frames) + 1 /\ frames'[Len(frames) + 1] = f
  BY <1>1
<1>4. Depth \in 0..MaxBytes /\ bottom' = bottom /\ Depth + Size[kind] <= MaxBytes
  BY DEF IInv, Nested, NewFrame
<1> HIDE DEF f
<1>5. f.kind = kind /\ f.ret = ret /\ f.value = value /\ f.at = Depth
  BY DEF f
<1> QED
  BY <1>1, <1>2, <1>3, <1>4, <1>5

LEMMA CallKeepsIInv == IInv /\ JSR => IInv'
<1> SUFFICES ASSUME IInv, JSR  PROVE IInv'
  OBVIOUS
<1>1. /\ pc \in Addresses /\ pc \in CallSites /\ TypeOK /\ Nested /\ FramesAreHeld /\ OverInv
      /\ Runs /\ NewFrame("CALL", After(pc, 3), None)
      /\ memory' = PushedAddress(After(pc, 2)) /\ s' = Dec(Dec(s))
      /\ pc' \in Addresses /\ p' = p
      /\ over' = IF over # None /\ Len(frames) = over.depth
                 THEN [over EXCEPT !.called = TRUE] ELSE over
  BY DEF IInv, TypeOK, JSR
<1>2. After(pc, 2) \in Addresses /\ After(pc, 3) \in Addresses /\ Depth \in 0..MaxBytes
  BY <1>1, AfterIs DEF Nested
<1>3. [kind |-> "CALL", ret |-> After(pc, 3), value |-> None, at |-> Depth] \in Frames
  BY <1>2 DEF Frames
<1>4. /\ frames' = Append(frames, Top') /\ Top' \in Frames
      /\ frames' \in Seq(Frames) /\ bottom' = bottom
      /\ Top.kind' = "CALL" /\ Top.ret' = After(pc, 3) /\ Top.at' = Depth
      /\ Depth + 2 <= MaxBytes /\ Size["CALL"] = 2
      /\ Len(frames') = Len(frames) + 1 /\ frames'[Len(frames) + 1] = Top'
  BY <1>1, <1>3, NewFrameIs DEF Size
<1>5. /\ memory' \in [Slots -> Bytes] /\ s' = Slot(Depth + 2) /\ s' \in Slots
      /\ memory'[Slot(Depth)] = High(After(pc, 2))
      /\ memory'[Slot(Depth + 1)] = Low(After(pc, 2))
      /\ \A k \in 0..(Depth - 1) : memory'[Slot(k)] = memory[Slot(k)]
  <2> DEFINE a == After(pc, 2)
  <2>1. a \in Addresses /\ Depth + 2 <= MaxBytes /\ memory' = PushedAddress(a)
    BY <1>1, <1>2, <1>4
  <2> HIDE DEF a
  <2>2. /\ memory' \in [Slots -> Bytes]
        /\ memory'[Slot(Depth)] = High(a) /\ memory'[Slot(Depth + 1)] = Low(a)
        /\ \A k \in 0..(Depth - 1) : memory'[Slot(k)] = memory[Slot(k)]
        /\ s' = Slot(Depth + 2)
        /\ \A k \in 0..(Depth + 2) : Slot(k) \in Slots
    BY <1>1, <2>1, PushedIs
  <2>3. Slot(Depth + 2) \in Slots
    BY <1>2, <2>2
  <2> QED
    BY <2>2, <2>3 DEF a
<1>6. Holds(Top)'
  <2>1. After(Top.ret', Base * Base - 1) = After(pc, 2)
    BY <1>1, <1>4, ReturnAddress
  <2> QED
    BY <1>4, <1>5, <2>1 DEF Holds, Slot
<1>7. Nested' /\ FramesAreHeld'
  BY <1>1, <1>4, <1>5, <1>6, PushHolds
<1>8. OverInv'
  <2>1. CASE over # None /\ Len(frames) = over.depth
    <3>1. /\ over \in Overs /\ over' = [over EXCEPT !.called = TRUE]
          /\ over.depth \in Nat /\ Len(frames) \in Nat
      BY <1>1, <2>1, DepthIsBeneath DEF TypeOK, Overs
    <3>2. /\ over' # None /\ over'.depth = over.depth /\ over'.called
          /\ over'.next = over.next /\ over'.s = over.s
      <4>1. over' \in Overs
        BY <3>1 DEF Overs
      <4> QED
        BY <3>1, <4>1 DEF Overs
    <3>3. ~ over.called /\ over.next = After(pc, 3)
      <4>1. over.called => Returned
        BY <2>1 DEF Returned
      <4>2. ~ over.called
        BY <1>1, <4>1, IInvBack DEF Runs, BackIsReturned
      <4> QED
        BY <1>1, <2>1, <4>2 DEF OverInv
    <3>4. over.s = Slot(Beneath(over.depth))'
      <4>1. Beneath(over.depth)' = Beneath(over.depth)
        BY <1>1, <1>4, <2>1, <3>1 DEF Beneath, End, TypeOK
      <4> QED
        BY <1>1, <1>4, <2>1, <4>1 DEF OverInv, Slot
    <3>5. frames'[over.depth + 1] = Top' /\ Len(frames') # over.depth /\ over.depth <= Len(frames')
      BY <1>4, <2>1, <3>1
    <3> QED
      BY <1>1, <1>4, <3>2, <3>3, <3>4, <3>5 DEF OverInv
  <2>2. CASE ~ (over # None /\ Len(frames) = over.depth)
    <3>1. over' = over /\ (over # None => over.depth < Len(frames))
      BY <1>1, <2>2, DepthIsBeneath DEF OverInv, TypeOK, Overs
    <3> QED
      BY <1>4, <3>1, OverPushed
  <2> QED
    BY <2>1, <2>2
<1>9. TypeOK'
  <2>1. over' \in Overs \cup {None}
    BY <1>1 DEF TypeOK, Overs
  <2> QED
    BY <1>1, <1>4, <1>5, <2>1 DEF TypeOK
<1> QED
  BY <1>7, <1>8, <1>9 DEF IInv

LEMMA InterruptKeepsIInv ==
  ASSUME IInv, NEW ret \in Addresses, Interrupt(ret),
         over # None /\ Len(frames) = over.depth => ret = pc
  PROVE  IInv'
<1>1. /\ p \in {0, 1} /\ TypeOK /\ Nested /\ FramesAreHeld /\ OverInv
      /\ Runs /\ NewFrame("INTERRUPT", ret, p)
      /\ memory' = [PushedAddress(ret) EXCEPT ![Dec(Dec(s))] = p]
      /\ s' = Dec(Dec(Dec(s)))
      /\ pc' \in Addresses /\ p' = 1 /\ over' = over
  BY DEF IInv, TypeOK, Interrupt
<1>2. Depth \in 0..MaxBytes
  BY <1>1 DEF Nested
<1>3. [kind |-> "INTERRUPT", ret |-> ret, value |-> p, at |-> Depth] \in Frames
  BY <1>1, <1>2 DEF Frames
<1>4. /\ frames' = Append(frames, Top') /\ Top' \in Frames
      /\ frames' \in Seq(Frames) /\ bottom' = bottom
      /\ Top.kind' = "INTERRUPT" /\ Top.ret' = ret /\ Top.value' = p /\ Top.at' = Depth
      /\ Depth + 3 <= MaxBytes /\ Size["INTERRUPT"] = 3
      /\ Len(frames') = Len(frames) + 1 /\ frames'[Len(frames) + 1] = Top'
  BY <1>1, <1>3, NewFrameIs DEF Size
<1> DEFINE m == PushedAddress(ret)
<1>5. /\ m \in [Slots -> Bytes] /\ Dec(Dec(s)) = Slot(Depth + 2)
      /\ m[Slot(Depth)] = High(ret) /\ m[Slot(Depth + 1)] = Low(ret)
      /\ \A k \in 0..(Depth - 1) : m[Slot(k)] = memory[Slot(k)]
  BY <1>1, <1>2, <1>4, PushedIs
<1>6. memory' = [m EXCEPT ![Slot(Depth + 2)] = p]
  BY <1>1, <1>5
<1> HIDE DEF m
<1> PICK d \in 0..MaxBytes : d = Depth
  BY <1>2
<1>7. s' = Slot(Depth + 3) /\ s' \in Slots
  <2>1. d + 2 \in 0..(StackSize - 2) /\ (d + 2) + 1 = d + 3
    BY <1>4
  <2> QED
    BY <1>1, <1>5, <2>1, SlotSteps DEF TypeOK
<1>8. ASSUME NEW k \in 0..(d + 1)
      PROVE  Slot(k) \in Slots /\ Slot(k) # Slot(d + 2) /\ Slot(d + 2) \in Slots
  <2>1. k \in 0..(StackSize - 1) /\ d + 2 \in 0..(StackSize - 1) /\ k # d + 2
    BY <1>4
  <2> QED
    BY <1>1, <2>1, SlotIsNotAnother DEF TypeOK
<1>9. /\ d \in 0..(d + 1) /\ d + 1 \in 0..(d + 1)
      /\ \A k \in 0..(d - 1) : k \in 0..(d + 1)
  OBVIOUS
<1>10. /\ memory' \in [Slots -> Bytes]
       /\ memory'[Slot(d + 2)] = p
       /\ \A k \in 0..(d + 1) : memory'[Slot(k)] = m[Slot(k)]
  <2>1. Slot(d + 2) \in Slots
    BY <1>8, <1>9
  <2>2. p \in Bytes
    BY <1>1 DEF Bytes
  <2>3. ASSUME NEW k \in 0..(d + 1)  PROVE memory'[Slot(k)] = m[Slot(k)]
    BY <1>5, <1>6, <1>8
  <2> QED
    BY <1>5, <1>6, <2>1, <2>2, <2>3
<1>11. /\ memory'[Slot(d)] = High(ret) /\ memory'[Slot(d + 1)] = Low(ret)
       /\ \A k \in 0..(d - 1) : memory'[Slot(k)] = memory[Slot(k)]
  BY <1>5, <1>9, <1>10
<1>12. Holds(Top)'
  BY <1>4, <1>10, <1>11 DEF Holds, Slot
<1>13. Nested' /\ FramesAreHeld'
  BY <1>1, <1>4, <1>7, <1>11, <1>12, PushHolds
<1>14. OverInv'
  <2>1. CASE over # None /\ Len(frames) = over.depth
    <3>1. /\ over.depth \in Nat /\ Len(frames) \in Nat /\ ret = pc
      BY <1>1, <2>1, DepthIsBeneath DEF TypeOK, Overs
    <3>2. ~ over.called
      BY <1>1, <2>1, IInvBack DEF Runs, BackIsReturned, Returned
    <3>3. over.s = Slot(Beneath(over.depth))'
      <4>1. Beneath(over.depth)' = Beneath(over.depth)
        BY <1>1, <1>4, <2>1, <3>1 DEF Beneath, End, TypeOK
      <4> QED
        BY <1>1, <1>4, <2>1, <4>1 DEF OverInv, Slot
    <3>4. PICK site \in CallSites : over.next = After(site, 3) /\ pc = site
      BY <1>1, <2>1, <3>2 DEF OverInv
    <3>5. frames'[over.depth + 1] = Top' /\ Len(frames') # over.depth /\ over.depth <= Len(frames')
      BY <1>4, <2>1, <3>1
    <3> QED
      BY <1>1, <1>4, <3>1, <3>2, <3>3, <3>4, <3>5 DEF OverInv
  <2>2. CASE ~ (over # None /\ Len(frames) = over.depth)
    <3>1. over # None => over.depth < Len(frames)
      BY <1>1, <2>2, DepthIsBeneath DEF OverInv, TypeOK, Overs
    <3> QED
      BY <1>1, <1>4, <3>1, OverPushed
  <2> QED
    BY <2>1, <2>2
<1>15. TypeOK'
  BY <1>1, <1>4, <1>7, <1>10 DEF TypeOK
<1> QED
  BY <1>13, <1>14, <1>15 DEF IInv

LEMMA PushKeepsIInv == ASSUME IInv, NEW value \in Bytes, Push(value)  PROVE IInv'
<1>1. /\ TypeOK /\ Nested /\ FramesAreHeld /\ OverInv
      /\ Runs /\ pc \notin CallSites /\ pc \in Addresses
      /\ NewFrame("BYTE", None, value)
      /\ memory' = [memory EXCEPT ![s] = value] /\ s' = Dec(s)
      /\ pc' = After(pc, 1) /\ p' = p /\ over' = over
  BY DEF IInv, TypeOK, Push
<1>2. Depth \in 0..MaxBytes /\ s = Slot(Depth) /\ pc' \in Addresses
  BY <1>1, AfterIs DEF Nested, FramesAreHeld
<1>3. [kind |-> "BYTE", ret |-> None, value |-> value, at |-> Depth] \in Frames
  BY <1>2 DEF Frames
<1>4. /\ frames' = Append(frames, Top') /\ Top' \in Frames
      /\ frames' \in Seq(Frames) /\ bottom' = bottom
      /\ Top.kind' = "BYTE" /\ Top.value' = value /\ Top.at' = Depth
      /\ Depth + 1 <= MaxBytes /\ Size["BYTE"] = 1
  BY <1>1, <1>3, NewFrameIs DEF Size
<1> PICK d \in 0..MaxBytes : d = Depth
  BY <1>2
<1>5. s' = Slot(d + 1) /\ s' \in Slots
  <2>1. d \in 0..(StackSize - 2)
    BY <1>4
  <2> QED
    BY <1>1, <1>2, <2>1, SlotSteps DEF TypeOK
<1>6. ASSUME NEW k \in 0..(d - 1)  PROVE Slot(k) \in Slots /\ Slot(k) # Slot(d)
  <2>1. k \in 0..(StackSize - 1) /\ d \in 0..(StackSize - 1) /\ k # d
    OBVIOUS
  <2> QED
    BY <1>1, <2>1, SlotIsNotAnother DEF TypeOK
<1>7. /\ memory' \in [Slots -> Bytes] /\ memory'[Slot(d)] = value
      /\ \A k \in 0..(d - 1) : memory'[Slot(k)] = memory[Slot(k)]
  <2>1. memory \in [Slots -> Bytes] /\ Slot(d) \in Slots
    BY <1>1, <1>2 DEF TypeOK
  <2>2. ASSUME NEW k \in 0..(d - 1)  PROVE memory'[Slot(k)] = memory[Slot(k)]
    BY <1>1, <1>2, <1>6, <2>1
  <2> QED
    BY <1>1, <1>2, <2>1, <2>2
<1>8. Holds(Top)'
  BY <1>4, <1>7 DEF Holds, Slot
<1>9. Nested' /\ FramesAreHeld'
  BY <1>1, <1>4, <1>5, <1>7, <1>8, PushHolds
<1>10. OverInv'
  BY <1>1, <1>4, OverWaitsDeeper, OverPushed
<1>11. TypeOK'
  BY <1>1, <1>2, <1>4, <1>5, <1>7 DEF TypeOK
<1> QED
  BY <1>9, <1>10, <1>11 DEF IInv

LEMMA PopKeepsIInv == IInv /\ (RTS \/ RTI \/ Pull) => IInv'
<1> SUFFICES ASSUME IInv, RTS \/ RTI \/ Pull  PROVE IInv'
  OBVIOUS
<1>1. /\ TypeOK /\ Nested /\ FramesAreHeld /\ OverInv
      /\ Runs /\ pc \notin CallSites /\ pc \in Addresses /\ frames # <<>>
      /\ PopFrame /\ memory' = memory /\ over' = over
  BY DEF IInv, TypeOK, RTS, RTI, Pull, OnTop
<1>2. Top \in Frames /\ Slot(Top.at) \in Slots
  BY <1>1, PulledIs
<1>3. /\ s' = Slot(Top.at)
      /\ Top.kind # "BYTE" => pc' = Top.ret
      /\ pc' \in Addresses /\ p' \in {0, 1}
  <2>1. CASE RTS
    BY <1>1, <1>2, <2>1, PulledIs DEF RTS, OnTop, Frames, TypeOK
  <2>2. CASE RTI
    <3>1. Top.kind = "INTERRUPT" /\ Top.value \in {0, 1} /\ Top.ret \in Addresses
      BY <1>2, <2>2 DEF RTI, OnTop, Frames
    <3>2. p' = Top.value % 2 /\ pc' = Top.ret /\ s' = Slot(Top.at)
      BY <1>1, <2>2, <3>1, PulledIs DEF RTI
    <3> QED
      BY <3>1, <3>2
  <2>3. CASE Pull
    <3>1. Top.kind = "BYTE" /\ Top.value \in Bytes
      BY <1>2, <2>3 DEF Pull, OnTop, Frames
    <3>2. p' \in {p, Top.value % 2} /\ pc' = After(pc, 1) /\ s' = Slot(Top.at)
      BY <1>1, <2>3, <3>1, PulledIs DEF Pull
    <3>3. pc' \in Addresses
      BY <1>1, <3>2, AfterIs
    <3> QED
      BY <1>1, <3>1, <3>2, <3>3 DEF TypeOK, Bytes
  <2> QED
    BY <2>1, <2>2, <2>3
<1>4. Nested' /\ FramesAreHeld'
  BY <1>1, <1>3, PopHolds
<1>5. OverInv'
  BY <1>1, <1>3, OverWaitsDeeper, OverPopped
<1>6. frames' \in Seq(Frames) /\ bottom' = bottom
  BY <1>1 DEF PopFrame, TypeOK
<1>7. TypeOK'
  BY <1>1, <1>2, <1>3, <1>6 DEF TypeOK
<1> QED
  BY <1>4, <1>5, <1>7 DEF IInv

LEMMA InitIInv == Init => IInv
<1> SUFFICES ASSUME Init  PROVE IInv
  OBVIOUS
<1>1. TypeOK
  BY DEF Init, TypeOK, Slots, Bytes
<1>2. Depth = 0 /\ DOMAIN frames = {} /\ s = bottom /\ bottom \in Slots
  BY DEF Init, Depth
<1> QED
  BY <1>1, <1>2 DEF Init, IInv, Nested, FramesAreHeld, OverInv, Slot, Slots

LEMMA NextIInv == IInv /\ [Next]_vars => IInv'
<1> SUFFICES ASSUME IInv, [Next]_vars  PROVE IInv'
  OBVIOUS
<1>1. CASE JSR
  BY <1>1, CallKeepsIInv
<1>2. CASE RTS \/ RTI \/ Pull
  BY <1>2, PopKeepsIInv
<1>3. CASE \E value \in Bytes : Push(value)
  BY <1>3, PushKeepsIInv
<1>4. CASE EnterInterrupt
  BY <1>4, InterruptKeepsIInv DEF EnterInterrupt, IInv, TypeOK
<1>5. CASE BRK
  <2>1. After(pc, 2) \in Addresses /\ Interrupt(After(pc, 2)) /\ pc \notin CallSites /\ Runs
    BY <1>5, AfterIs DEF BRK, Interrupt, IInv, TypeOK
  <2>2. ~ (over # None /\ Len(frames) = over.depth)
    BY <2>1, OverWaitsDeeper DEF IInv, TypeOK, Overs
  <2> QED
    BY <2>1, <2>2, InterruptKeepsIInv
<1>6. CASE Other
  <2>1. /\ UNCHANGED <<s, memory, frames, bottom, over>>
        /\ pc' \in Addresses /\ p' \in {0, 1} /\ Runs /\ pc \notin CallSites
    BY <1>6 DEF Other
  <2>2. TypeOK' /\ Nested' /\ FramesAreHeld'
    BY <2>1 DEF IInv, TypeOK, Nested, FramesAreHeld, Depth, Top, Beneath, End, Holds, Slot
  <2>3. over # None => over.depth < Len(frames)
    BY <2>1, OverWaitsDeeper
  <2>4. over # None => Len(frames) # over.depth
    BY <2>3, DepthIsBeneath DEF IInv, TypeOK, Overs
  <2>5. OverInv'
    BY <2>1, <2>4 DEF IInv, OverInv, Beneath, End, Slot
  <2> QED
    BY <2>2, <2>5 DEF IInv
<1>7. CASE Reset
  <2>1. /\ s' = Dec(Dec(Dec(s))) /\ bottom' = s' /\ frames' = <<>> /\ over' = None
        /\ pc' \in Addresses /\ p' = 1 /\ memory' = memory
    BY <1>7 DEF Reset
  <2>2. s' \in Slots
    BY <2>1 DEF IInv, TypeOK, Slots, Dec
  <2>3. Depth' = 0 /\ DOMAIN frames' = {} /\ Slot(0)' = bottom'
    BY <2>1, <2>2 DEF Depth, Slot, Slots
  <2> QED
    BY <2>1, <2>2, <2>3 DEF IInv, TypeOK, Nested, FramesAreHeld, OverInv
<1>8. CASE OverBegins
  <2>1. /\ UNCHANGED <<pc, p, s, memory, frames, bottom>>
        /\ over' = [next |-> After(pc, 3), s |-> s,
                    depth |-> Len(frames), called |-> FALSE]
        /\ pc \in CallSites
    BY <1>8 DEF OverBegins
  <2>2. After(pc, 3) \in Addresses /\ Len(frames) \in Nat /\ s = Slot(Beneath(Len(frames)))
    BY AfterIs, DepthIsBeneath DEF IInv, TypeOK, FramesAreHeld
  <2>3. over' \in Overs
    BY <2>1, <2>2 DEF Overs, IInv, TypeOK
  <2>4. TypeOK' /\ Nested' /\ FramesAreHeld'
    BY <2>1, <2>3 DEF IInv, TypeOK, Nested, FramesAreHeld, Depth, Top, Beneath, End, Holds, Slot
  <2>5. OverInv'
    BY <2>1, <2>2 DEF OverInv, Beneath, End, Slot
  <2> QED
    BY <2>4, <2>5 DEF IInv
<1>9. CASE OverEnds \/ OverBreaksOff
  BY <1>9 DEF OverEnds, OverBreaksOff, IInv, TypeOK, Nested, FramesAreHeld, OverInv,
              Depth, Top, Beneath, End, Holds, Slot
<1>10. CASE UNCHANGED vars
  BY <1>10 DEF vars, IInv, TypeOK, Nested, FramesAreHeld, OverInv,
              Depth, Top, Beneath, End, Holds, Slot
<1> QED
  BY <1>1, <1>2, <1>3, <1>4, <1>5, <1>6, <1>7, <1>8, <1>9, <1>10 DEF Next, Instruction

(* Every variable of the stack and of over stays in its type.              *)
THEOREM TypeCorrect == Spec => []TypeOK
<1>1. Spec => []IInv
  BY InitIInv, NextIInv, PTL DEF Spec
<1>2. IInv => TypeOK
  BY DEF IInv
<1> QED
  BY <1>1, <1>2, PTL

(* Every frame stays on the page byte for byte, for a page of any size, as *)
(* long as the program keeps fewer bytes than the page has.                *)
THEOREM FramesStayHeld == Spec => []FramesAreHeld
<1>1. Spec => []IInv
  BY InitIInv, NextIInv, PTL DEF Spec
<1>2. IInv => FramesAreHeld
  BY DEF IInv
<1> QED
  BY <1>1, <1>2, PTL

(* over's test of PC and S is true exactly when its call has returned.     *)
THEOREM OverIsExact == Spec => []BackIsReturned
<1>1. Spec => []IInv
  BY InitIInv, NextIInv, PTL DEF Spec
<1> QED
  BY <1>1, IInvBack, PTL

-----------------------------------------------------------------------------
(* CallStack implements CallContract. *)

LEMMA MapInit == Init => Contract!Init
<1> SUFFICES ASSUME Init  PROVE Contract!Init
  OBVIOUS
<1>1. MappedFrames = <<>> /\ MappedOver = None
  BY DEF Init, MappedFrames, MappedOver
<1> QED
  BY <1>1 DEF Init, Contract!Init, Addresses, Contract!Addresses

ContractFrames ==
  [kind : {"CALL", "INTERRUPT", "BYTE"}, ret : Addresses \cup {None}, value : Bytes \cup {None}]

LEMMA MappedLength ==
  ASSUME IInv
  PROVE  /\ MappedFrames \in Seq(ContractFrames)
         /\ Len(MappedFrames) = Len(frames) /\ Len(frames) \in Nat
         /\ \A i \in 1..Len(frames) : MappedFrames[i] = Mapped(frames[i])
         /\ frames # <<>> => /\ MappedFrames # <<>>
                             /\ MappedFrames[Len(MappedFrames)] = Mapped(Top)
<1>1. frames \in Seq(Frames)
  BY DEF IInv, TypeOK
<1> PICK n \in Nat : n = Len(frames)
  BY <1>1
<1>2. DOMAIN frames = 1..n /\ \A i \in 1..n : frames[i] \in Frames
  BY <1>1
<1>3. \A f \in Frames : Mapped(f) \in ContractFrames
  BY DEF Frames, Bytes, Mapped, ContractFrames
<1>4. MappedFrames = [i \in 1..n |-> Mapped(frames[i])]
  BY <1>2 DEF MappedFrames
<1>5. MappedFrames \in [1..n -> ContractFrames]
  BY <1>2, <1>3, <1>4
<1>6. MappedFrames \in Seq(ContractFrames) /\ Len(MappedFrames) = n
  BY <1>5
<1>7. frames # <<>> => n \in 1..n
  BY <1>1
<1> QED
  BY <1>4, <1>6, <1>7 DEF Top

LEMMA MapNew ==
  ASSUME IInv, NEW f \in Frames, frames' = Append(frames, f)
  PROVE  MappedFrames' = Append(MappedFrames, Mapped(f))
<1> PICK n \in Nat : n = Len(frames)
  BY MappedLength
<1>1. /\ frames \in Seq(Frames) /\ Len(MappedFrames) = n
      /\ MappedFrames \in Seq(ContractFrames)
      /\ \A i \in 1..n : MappedFrames[i] = Mapped(frames[i])
  BY MappedLength DEF IInv, TypeOK
<1>2. /\ DOMAIN frames' = 1..(n + 1) /\ frames'[n + 1] = f
      /\ \A i \in 1..n : frames'[i] = frames[i]
  BY <1>1
<1>3. MappedFrames' = [i \in 1..(n + 1) |-> Mapped(frames'[i])]
  BY <1>2 DEF MappedFrames
<1>4. Append(MappedFrames, Mapped(f)) =
        [i \in 1..(n + 1) |-> IF i = n + 1 THEN Mapped(f) ELSE MappedFrames[i]]
  <2>1. Mapped(f) \in ContractFrames
    BY DEF Mapped, ContractFrames, Frames, Bytes
  <2> DEFINE m == MappedFrames
             g == Mapped(f)
  <2>2. m \in Seq(ContractFrames) /\ g \in ContractFrames /\ Len(m) = n
    BY <1>1, <2>1
  <2> HIDE DEF m, g
  <2>3. Append(m, g) = [i \in 1..(n + 1) |-> IF i = n + 1 THEN g ELSE m[i]]
    <3>1. Append(m, g) \in Seq(ContractFrames) /\ Len(Append(m, g)) = n + 1
      BY <2>2
    <3>2. \A i \in 1..(n + 1) : Append(m, g)[i] = IF i = n + 1 THEN g ELSE m[i]
      BY <2>2
    <3>3. Append(m, g) \in [1..(n + 1) -> ContractFrames]
      BY <3>1, LenProperties
    <3> QED
      BY <3>2, <3>3
  <2> QED
    BY <2>3 DEF m, g
<1>5. \A i \in 1..(n + 1) :
        Mapped(frames'[i]) = IF i = n + 1 THEN Mapped(f) ELSE MappedFrames[i]
  BY <1>1, <1>2
<1> QED
  BY <1>3, <1>4, <1>5

LEMMA MapPop ==
  ASSUME IInv, frames # <<>>, PopFrame
  PROVE  MappedFrames' = SubSeq(MappedFrames, 1, Len(MappedFrames) - 1)
<1> PICK n \in Nat : n = Len(frames) /\ n > 0
  BY MappedLength DEF IInv, TypeOK
<1>1. /\ frames \in Seq(Frames) /\ Len(MappedFrames) = n
      /\ MappedFrames \in Seq(ContractFrames)
      /\ \A i \in 1..n : MappedFrames[i] = Mapped(frames[i])
  BY MappedLength DEF IInv, TypeOK
<1>2. /\ DOMAIN frames' = 1..(n - 1)
      /\ \A i \in 1..(n - 1) : frames'[i] = frames[i]
  BY <1>1 DEF PopFrame
<1>3. MappedFrames' = [i \in 1..(n - 1) |-> Mapped(frames'[i])]
  BY <1>2 DEF MappedFrames
<1>4. SubSeq(MappedFrames, 1, n - 1) = [i \in 1..(n - 1) |-> MappedFrames[i]]
  BY <1>1
<1> QED
  BY <1>1, <1>2, <1>3, <1>4

(* A frame pushed is the one the contract pushes. *)
LEMMA MapNewFrame ==
  ASSUME IInv, NEW kind, NEW ret, NEW value, NewFrame(kind, ret, value),
         [kind |-> kind, ret |-> ret, value |-> value, at |-> Depth] \in Frames
  PROVE  MappedFrames' = Append(MappedFrames, [kind |-> kind, ret |-> ret, value |-> value])
<1> DEFINE f == [kind |-> kind, ret |-> ret, value |-> value, at |-> Depth]
<1>1. frames' = Append(frames, f) /\ f \in Frames
  BY DEF NewFrame
<1>2. MappedFrames' = Append(MappedFrames, Mapped(f))
  BY <1>1, MapNew
<1>3. Mapped(f) = [kind |-> kind, ret |-> ret, value |-> value]
  BY DEF Mapped
<1> QED
  BY <1>2, <1>3

(* The frame on top is the one the contract sees there. *)
LEMMA MapTop ==
  ASSUME IInv, frames # <<>>
  PROVE  /\ MappedFrames # <<>>
         /\ Contract!Top.kind = Top.kind /\ Contract!Top.ret = Top.ret
         /\ Contract!Top.value = Top.value
<1>1. MappedFrames # <<>> /\ Contract!Top = Mapped(Top)
  BY MappedLength DEF Contract!Top
<1> QED
  BY <1>1 DEF Mapped

(* over looks no further exactly when the contract's over does not. *)
LEMMA MapOver ==
  ASSUME IInv
  PROVE  /\ (MappedOver = None) <=> (over = None)
         /\ over # None => MappedOver.depth = over.depth /\ MappedOver.called = over.called
         /\ Contract!Runs <=> Runs
         /\ Contract!Returned <=> Back
<1>1. over \in Overs \cup {None} /\ None \notin Overs
  BY DEF IInv, TypeOK
<1>2. over # None => /\ MappedOver = [depth |-> over.depth, called |-> over.called]
                     /\ MappedOver.depth = over.depth /\ MappedOver.called = over.called
  BY DEF MappedOver
<1>3. MappedOver = None <=> over = None
  <2>1. over # None => over.depth \in Nat /\ over.called \in BOOLEAN
    BY <1>1 DEF Overs
  <2>2. over # None => MappedOver \in [depth : Nat, called : BOOLEAN]
    BY <1>2, <2>1
  <2>3. over = None => MappedOver = None
    BY DEF MappedOver
  <2> HIDE DEF MappedOver
  <2> QED
    BY <2>2, <2>3
<1>4. Contract!Returned <=> Returned
  BY <1>2, <1>3, MappedLength DEF Contract!Returned, Returned
<1>5. Back <=> Returned
  BY IInvBack DEF BackIsReturned
<1> QED
  BY <1>2, <1>3, <1>4, <1>5 DEF Contract!Runs, Runs

LEMMA MapCall == ASSUME IInv, JSR  PROVE Contract!JSR
<1>1. /\ Runs /\ pc \in CallSites /\ pc \in Addresses /\ p' = p /\ pc' \in Addresses
      /\ NewFrame("CALL", After(pc, 3), None)
      /\ over' = IF over # None /\ Len(frames) = over.depth
                 THEN [over EXCEPT !.called = TRUE] ELSE over
  BY DEF IInv, TypeOK, JSR
<1>2. Depth \in 0..MaxBytes /\ After(pc, 3) \in Addresses
  BY <1>1, AfterIs DEF IInv, Nested
<1>3. [kind |-> "CALL", ret |-> After(pc, 3), value |-> None, at |-> Depth] \in Frames
  BY <1>2 DEF Frames
<1>4. MappedFrames' = Append(MappedFrames, Contract!Call(Contract!After(pc, 3)))
  BY <1>1, <1>3, MapNewFrame DEF Contract!Call, Contract!After, After
<1>5. MappedOver' = IF MappedOver # None /\ Len(MappedFrames) = MappedOver.depth
                    THEN [MappedOver EXCEPT !.called = TRUE] ELSE MappedOver
  <2>1. over \in Overs \cup {None} /\ None \notin Overs
    BY DEF IInv, TypeOK
  <2>2. Len(MappedFrames) = Len(frames)
    BY MappedLength
  <2>3. CASE over # None /\ Len(frames) = over.depth
    <3>1. over' = [over EXCEPT !.called = TRUE] /\ over \in Overs
      BY <1>1, <2>1, <2>3
    <3>2. over' # None /\ over'.depth = over.depth /\ over'.called = TRUE
      BY <2>1, <3>1 DEF Overs
    <3>3. MappedOver' = [depth |-> over.depth, called |-> TRUE]
      BY <3>2 DEF MappedOver
    <3>4. MappedOver = [depth |-> over.depth, called |-> over.called]
      BY <2>3 DEF MappedOver
    <3> QED
      BY <2>2, <2>3, <3>3, <3>4, MapOver
  <2>4. CASE ~ (over # None /\ Len(frames) = over.depth)
    BY <1>1, <2>2, <2>4, MapOver DEF MappedOver
  <2> QED
    BY <2>3, <2>4
<1> HIDE DEF MappedFrames, MappedOver
<1>6. Contract!Runs
  BY <1>1, MapOver
<1> QED
  BY <1>1, <1>4, <1>5, <1>6 DEF Contract!JSR, Addresses, Contract!Addresses

LEMMA MapInterrupt ==
  ASSUME IInv, NEW ret \in Addresses, Interrupt(ret)
  PROVE  Contract!Interrupt(ret)
<1>1. /\ Runs /\ p \in {0, 1} /\ p' = 1 /\ pc' \in Addresses /\ over' = over
      /\ NewFrame("INTERRUPT", ret, p)
  BY DEF IInv, TypeOK, Interrupt
<1>2. Depth \in 0..MaxBytes
  BY DEF IInv, Nested
<1>3. [kind |-> "INTERRUPT", ret |-> ret, value |-> p, at |-> Depth] \in Frames
  BY <1>1, <1>2 DEF Frames
<1>4. MappedFrames' = Append(MappedFrames, Contract!Interrupted(ret))
  BY <1>1, <1>3, MapNewFrame DEF Contract!Interrupted
<1>5. MappedOver' = MappedOver
  BY <1>1 DEF MappedOver
<1>6. Contract!Runs
  BY <1>1, MapOver
<1> HIDE DEF MappedFrames, MappedOver
<1> QED
  BY <1>1, <1>4, <1>5, <1>6 DEF Contract!Interrupt, Addresses, Contract!Addresses

LEMMA MapPush ==
  ASSUME IInv, NEW value \in Bytes, Push(value)
  PROVE  Contract!Push(value)
<1>1. /\ Runs /\ pc \notin CallSites /\ p' = p /\ pc' = After(pc, 1) /\ over' = over
      /\ NewFrame("BYTE", None, value)
  BY DEF Push
<1>2. Depth \in 0..MaxBytes
  BY DEF IInv, Nested
<1>3. [kind |-> "BYTE", ret |-> None, value |-> value, at |-> Depth] \in Frames
  BY <1>1, <1>2 DEF Frames
<1>4. MappedFrames' = Append(MappedFrames, Contract!Kept(value))
  BY <1>1, <1>3, MapNewFrame DEF Contract!Kept
<1>5. MappedOver' = MappedOver
  BY <1>1 DEF MappedOver
<1>6. Contract!Runs
  BY <1>1, MapOver
<1> HIDE DEF MappedFrames, MappedOver
<1> QED
  BY <1>1, <1>4, <1>5, <1>6 DEF Contract!Push, After, Contract!After

LEMMA MapPulled ==
  ASSUME IInv, RTS \/ RTI \/ Pull
  PROVE  Contract!RTS \/ Contract!RTI \/ Contract!Pull
<1>1. /\ TypeOK /\ Nested /\ FramesAreHeld
      /\ Runs /\ pc \notin CallSites /\ frames # <<>> /\ PopFrame /\ over' = over
  BY DEF IInv, RTS, RTI, Pull, OnTop
<1>2. MappedFrames' = Contract!Below
  BY <1>1, MapPop DEF Contract!Below
<1>3. MappedOver' = MappedOver
  BY <1>1 DEF MappedOver
<1>4. Contract!Runs
  BY <1>1, MapOver
<1>5. Top \in Frames
  BY <1>1, PulledIs
<1>6. \A kind : OnTop(kind) => Contract!OnTop(kind)
  BY <1>1, MapTop DEF OnTop, Contract!OnTop
<1> HIDE DEF MappedFrames, MappedOver
<1>7. CASE RTS
  <2>1. pc' = Contract!Top.ret /\ p' = p /\ Contract!OnTop("CALL")
    BY <1>1, <1>6, <1>7, PulledIs, MapTop DEF RTS, OnTop
  <2> QED
    BY <1>1, <1>2, <1>3, <1>4, <2>1 DEF Contract!RTS
<1>8. CASE RTI
  <2>1. Top.kind = "INTERRUPT" /\ Top.value \in {0, 1}
    BY <1>5, <1>8 DEF RTI, OnTop, Frames
  <2>2. p' = Top.value % 2 /\ pc' = Top.ret /\ Contract!OnTop("INTERRUPT")
    BY <1>1, <1>6, <1>8, <2>1, PulledIs DEF RTI
  <2>3. p' = Contract!Top.value /\ pc' = Contract!Top.ret
    BY <1>1, <2>1, <2>2, MapTop
  <2> QED
    BY <1>1, <1>2, <1>3, <1>4, <2>2, <2>3 DEF Contract!RTI
<1>9. CASE Pull
  <2>1. Top.kind = "BYTE" /\ pc' = After(pc, 1) /\ p' \in {p, memory[Inc(s)] % 2}
        /\ Contract!OnTop("BYTE")
    BY <1>6, <1>9 DEF Pull, OnTop
  <2>2. p' \in {p, Contract!Top.value % 2}
    BY <1>1, <2>1, PulledIs, MapTop
  <2> QED
    BY <1>1, <1>2, <1>3, <1>4, <2>1, <2>2 DEF Contract!Pull, After, Contract!After
<1> QED
  BY <1>7, <1>8, <1>9

LEMMA MapCommand ==
  ASSUME IInv, OverBegins \/ OverEnds \/ OverBreaksOff
  PROVE  Contract!OverBegins \/ Contract!OverEnds \/ Contract!OverBreaksOff
<1>1. pc' = pc /\ p' = p /\ frames' = frames
  BY DEF OverBegins, OverEnds, OverBreaksOff
<1>2. MappedFrames' = MappedFrames
  BY <1>1 DEF MappedFrames
<1>3. over' = None => MappedOver' = None
  BY DEF MappedOver
<1>4. CASE OverBegins
  <2>1. /\ over = None /\ pc \in CallSites
        /\ over' = [next |-> After(pc, 3), s |-> s, depth |-> Len(frames), called |-> FALSE]
    BY <1>4 DEF OverBegins
  <2>2. After(pc, 3) \in Addresses /\ Len(frames) \in Nat /\ s \in Slots
    BY AfterIs, MappedLength DEF IInv, TypeOK
  <2>3. over' \in Overs
    BY <2>1, <2>2 DEF Overs
  <2>4. MappedOver' = [depth |-> Len(MappedFrames), called |-> FALSE]
    <3>1. over' # None
      BY <2>3
    <3>2. over'.depth = Len(frames) /\ over'.called = FALSE
      BY <2>1
    <3> QED
      BY <3>1, <3>2, MappedLength DEF MappedOver
  <2>5. MappedOver = None
    BY <2>1 DEF MappedOver
  <2> HIDE DEF MappedFrames, MappedOver
  <2> QED
    BY <1>1, <1>2, <2>1, <2>4, <2>5 DEF Contract!OverBegins
<1>5. CASE OverEnds
  <2>1. Contract!Returned /\ MappedOver' = None
    BY <1>3, <1>5, MapOver DEF OverEnds
  <2> HIDE DEF MappedFrames, MappedOver
  <2> QED
    BY <1>1, <1>2, <2>1 DEF Contract!OverEnds
<1>6. CASE OverBreaksOff
  <2>1. MappedOver # None /\ MappedOver' = None
    BY <1>3, <1>6, MapOver DEF OverBreaksOff
  <2> HIDE DEF MappedFrames, MappedOver
  <2> QED
    BY <1>1, <1>2, <2>1 DEF Contract!OverBreaksOff
<1> QED
  BY <1>4, <1>5, <1>6

LEMMA MapNext == IInv /\ [Next]_vars => [Contract!Next]_(Contract!vars)
<1> SUFFICES ASSUME IInv, [Next]_vars  PROVE [Contract!Next]_(Contract!vars)
  OBVIOUS
<1> HIDE DEF MappedFrames, MappedOver
<1>1. pc \in Addresses /\ Addresses = Contract!Addresses
  BY DEF IInv, TypeOK, Addresses, Contract!Addresses
<1>2. CASE JSR
  BY <1>2, MapCall DEF Contract!Next
<1>3. CASE RTS \/ RTI \/ Pull
  BY <1>3, MapPulled DEF Contract!Next
<1>4. CASE \E value \in Bytes : Push(value)
  BY <1>4, MapPush DEF Contract!Next, Bytes, Contract!Bytes
<1>5. CASE EnterInterrupt
  BY <1>1, <1>5, MapInterrupt DEF EnterInterrupt, Contract!EnterInterrupt, Contract!Next
<1>6. CASE BRK
  <2>1. After(pc, 2) \in Addresses /\ After(pc, 2) = Contract!After(pc, 2)
    BY <1>1, AfterIs DEF After, Contract!After
  <2>2. Contract!Interrupt(Contract!After(pc, 2)) /\ pc \notin CallSites
    BY <1>6, <2>1, MapInterrupt DEF BRK
  <2> QED
    BY <2>2 DEF Contract!BRK, Contract!Next
<1>7. CASE Other
  <2>1. /\ Runs /\ pc \notin CallSites /\ pc' \in Addresses /\ p' \in {0, 1}
        /\ frames' = frames /\ over' = over
    BY <1>7 DEF Other
  <2>2. MappedFrames' = MappedFrames /\ MappedOver' = MappedOver
    BY <2>1 DEF MappedFrames, MappedOver
  <2> QED
    BY <1>1, <2>1, <2>2, MapOver DEF Contract!Other, Contract!Next
<1>8. CASE Reset
  <2>1. pc' \in Addresses /\ p' = 1 /\ frames' = <<>> /\ over' = None
    BY <1>8 DEF Reset
  <2>2. MappedFrames' = <<>> /\ MappedOver' = None
    BY <2>1 DEF MappedFrames, MappedOver
  <2> QED
    BY <1>1, <2>1, <2>2 DEF Contract!Reset, Contract!Next
<1>9. CASE OverBegins \/ OverEnds \/ OverBreaksOff
  BY <1>9, MapCommand DEF Contract!Next
<1>10. CASE UNCHANGED vars
  <2>1. pc' = pc /\ p' = p /\ frames' = frames /\ over' = over
    BY <1>10 DEF vars
  <2>2. MappedFrames' = MappedFrames /\ MappedOver' = MappedOver
    BY <2>1 DEF MappedFrames, MappedOver
  <2> QED
    BY <2>1, <2>2 DEF Contract!vars
<1> QED
  BY <1>2, <1>3, <1>4, <1>5, <1>6, <1>7, <1>8, <1>9, <1>10 DEF Next, Instruction

(* The stack page, bytes and S implement the nesting of calls and          *)
(* interrupts, and over's test the return of its call.                     *)
THEOREM Implements == Spec => ImplementsContract
<1>1. Spec => []IInv
  BY InitIInv, NextIInv, PTL DEF Spec
<1>2. Contract!Init /\ [][Contract!Next]_(Contract!vars) => ImplementsContract
  BY DEF ImplementsContract, Contract!Spec
<1> QED
  BY <1>1, <1>2, MapInit, MapNext, PTL DEF Spec
=============================================================================
