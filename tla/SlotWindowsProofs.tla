-------------------------- MODULE SlotWindowsProofs --------------------------
(***************************************************************************)
(* slot_windows tiles every range of every u64-like type: the walk of      *)
(* SlotWindows for any MaxU64, start, end and max.                         *)
(***************************************************************************)
EXTENDS SlotWindows, TLAPS

\* Every window pushed lies in the range and fits the cap.
InRange ==
  \A i \in DOMAIN windows :
    /\ start <= windows[i][1] /\ windows[i][1] <= windows[i][2] /\ windows[i][2] <= end
    /\ windows[i][2] - windows[i][1] < max

Ordered == \A i, j \in DOMAIN windows : i < j => windows[i][2] < windows[j][1]

\* The slots dealt with so far: below the next window, or the whole range.
Behind(slot) ==
  /\ start <= slot
  /\ pc = "guard" => FALSE
  /\ pc = "loop" => slot < windowStart
  /\ pc = "return" => max # 0 /\ slot <= end

AllBehindCovered ==
  \A slot \in Nat : Behind(slot) => \E i \in DOMAIN windows : Covers(windows[i], slot)

AtGuard == pc = "guard" => windows = << >> /\ windowStart = start

InLoop ==
  pc = "loop" =>
    /\ max # 0 /\ start <= windowStart /\ windowStart <= end
    /\ Len(windows) <= windowStart - start
    /\ \A i \in DOMAIN windows : windows[i][2] < windowStart

IInv == TypeOK /\ InRange /\ Ordered /\ AllBehindCovered /\ AtGuard /\ InLoop

(* The end of a window, whether MaxU64, `end` or `max` decides it: at or   *)
(* after its start, no later than `end`, at most `max` slots.              *)
LEMMA WindowEndBounds ==
  ASSUME NEW from \in Heights, NEW last \in Heights, NEW size \in Heights,
         from <= last, size # 0
  PROVE  /\ WindowEnd(from, last, size) \in Heights
         /\ from <= WindowEnd(from, last, size)
         /\ WindowEnd(from, last, size) <= last
         /\ WindowEnd(from, last, size) - from < size
  BY MaxU64Assumption DEF WindowEnd, SaturatingAdd, Lower, Heights

(* Before the guard no window has been pushed.                             *)
LEMMA InitIInv == Init => IInv
<1> SUFFICES ASSUME Init PROVE IInv
  OBVIOUS
<1>1. windows = << >> /\ DOMAIN windows = {} /\ Len(windows) = 0 /\ pc = "guard"
  BY DEF Init
<1>2. TypeOK
  BY <1>1 DEF Init, TypeOK
<1>3. InRange /\ Ordered /\ AllBehindCovered /\ AtGuard /\ InLoop
  BY <1>1 DEF Init, InRange, Ordered, AllBehindCovered, Behind, AtGuard, InLoop
<1> QED
  BY <1>2, <1>3 DEF IInv

(* One turn of the loop: the new window begins where the last one ended,   *)
(* stays in the range, and leaves nothing behind it uncovered.             *)
LEMMA PushKeepsIInv == IInv /\ PushWindow => IInv'
<1> SUFFICES ASSUME IInv, PushWindow PROVE IInv'
  OBVIOUS
<1> DEFINE we == WindowEnd(windowStart, end, max)
           n == Len(windows)
<1>1. /\ start \in Heights /\ end \in Heights /\ max \in Heights /\ max # 0
      /\ windowStart \in Heights /\ start <= windowStart /\ windowStart <= end
      /\ windows \in Seq(Window) /\ n <= windowStart - start
      /\ \A i \in 1..n : windows[i][2] < windowStart
  BY DEF IInv, TypeOK, InLoop, PushWindow
<1>2. we \in Heights /\ windowStart <= we /\ we <= end /\ we - windowStart < max
  BY <1>1, WindowEndBounds
<1>3. /\ windows' = Append(windows, <<windowStart, we>>)
      /\ start' = start /\ end' = end /\ max' = max
      /\ \/ we = end /\ pc' = "return" /\ windowStart' = windowStart
         \/ we # end /\ pc' = "loop" /\ windowStart' = we + 1
  BY DEF PushWindow
<1> HIDE DEF we
<1>4. /\ windows' \in Seq(Window) /\ Len(windows') = n + 1 /\ DOMAIN windows' = 1..(n + 1)
      /\ n \in Nat
      /\ \A i \in 1..n : windows'[i] = windows[i] /\ windows[i] \in Window
      /\ windows'[n + 1] = <<windowStart, we>>
      /\ DOMAIN windows = 1..n
  BY <1>1, <1>2, <1>3 DEF Window
<1>5. Heights \subseteq Nat /\ \A h \in Heights : h <= MaxU64
  BY MaxU64Assumption DEF Heights
<1>6. TypeOK'
  <2>1. windowStart' \in Heights
    BY <1>1, <1>2, <1>3, MaxU64Assumption DEF Heights
  <2> QED
    BY <2>1, <1>1, <1>3, <1>4 DEF TypeOK
<1>7. InRange'
  <2>1. \A i \in 1..n : /\ start <= windows[i][1] /\ windows[i][1] <= windows[i][2]
                        /\ windows[i][2] <= end /\ windows[i][2] - windows[i][1] < max
    BY <1>4 DEF IInv, InRange
  <2>2. \A i \in 1..(n + 1) : i \in 1..n \/ i = n + 1
    BY <1>4
  <2> QED
    BY <2>1, <2>2, <1>1, <1>2, <1>3, <1>4 DEF InRange
<1>8. Ordered'
  <2> SUFFICES ASSUME NEW i \in 1..(n + 1), NEW j \in 1..(n + 1), i < j
               PROVE  windows'[i][2] < windows'[j][1]
    BY <1>4 DEF Ordered
  <2>1. i \in 1..n
    BY <1>4
  <2>2. CASE j \in 1..n
    BY <2>1, <2>2, <1>4 DEF IInv, Ordered
  <2>3. CASE j = n + 1
    BY <2>1, <2>3, <1>1, <1>4
  <2> QED
    BY <2>2, <2>3, <1>4
<1>9. AllBehindCovered'
  <2> SUFFICES ASSUME NEW slot \in Nat, Behind(slot)'
               PROVE  \E i \in 1..(n + 1) : Covers(windows'[i], slot)
    BY <1>4 DEF AllBehindCovered, Covers
  <2>1. start <= slot /\ slot <= we
    BY <1>1, <1>2, <1>3, <1>5 DEF Behind
  <2>2. CASE slot < windowStart
    <3>1. Behind(slot)
      BY <2>1, <2>2 DEF Behind, PushWindow
    <3>2. PICK i \in 1..n : Covers(windows[i], slot)
      BY <3>1, <1>4 DEF IInv, AllBehindCovered
    <3> QED
      BY <3>2, <1>4 DEF Covers
  <2>3. CASE windowStart <= slot
    <3>1. Covers(windows'[n + 1], slot)
      BY <2>1, <2>3, <1>4 DEF Covers
    <3> QED
      BY <3>1, <1>4
  <2> QED
    BY <2>2, <2>3, <1>1, <1>5
<1>10. AtGuard'
  BY <1>3 DEF AtGuard
<1>11. InLoop'
  <2> SUFFICES ASSUME pc' = "loop" PROVE InLoop'
    BY DEF InLoop
  <2>1. we # end /\ windowStart' = we + 1
    BY <1>3
  <2>2. start' <= windowStart' /\ windowStart' <= end' /\ Len(windows') <= windowStart' - start'
    BY <2>1, <1>1, <1>2, <1>3, <1>4, <1>5
  <2>3. \A i \in 1..(n + 1) : windows'[i][2] < windowStart'
    <3> TAKE i \in 1..(n + 1)
    <3>1. CASE i \in 1..n
      <4>1. windows[i][2] < windowStart /\ windows[i][2] \in Nat
        BY <3>1, <1>1, <1>4, <1>5 DEF Window
      <4> QED
        BY <4>1, <3>1, <2>1, <1>1, <1>2, <1>4, <1>5
    <3>2. CASE i = n + 1
      BY <3>2, <2>1, <1>2, <1>4, <1>5
    <3> QED
      BY <3>1, <3>2, <1>4
  <2> QED
    BY <2>2, <2>3, <1>1, <1>3, <1>4 DEF InLoop
<1> QED
  BY <1>6, <1>7, <1>8, <1>9, <1>10, <1>11 DEF IInv

(* Returning early or entering the loop leaves the windows alone.          *)
LEMMA NextKeepsIInv == IInv /\ [Next]_vars => IInv'
<1> SUFFICES ASSUME IInv, [Next]_vars PROVE IInv'
  OBVIOUS
<1>1. CASE ReturnEmpty
  <2>1. UNCHANGED <<start, end, max, windowStart, windows>> /\ pc = "guard" /\ pc' = "return"
    BY <1>1 DEF ReturnEmpty
  <2>2. \A slot \in Nat : ~Behind(slot)'
    <3>1. end < start \/ max = 0
      BY <1>1 DEF ReturnEmpty
    <3> QED
      BY <3>1, <2>1, MaxU64Assumption DEF Behind, IInv, TypeOK, Heights
  <2> QED
    BY <2>1, <2>2 DEF IInv, TypeOK, InRange, Ordered, AllBehindCovered, AtGuard, InLoop
<1>2. CASE EnterLoop
  <2>1. /\ UNCHANGED <<start, end, max, windowStart, windows>> /\ pc = "guard" /\ pc' = "loop"
        /\ start <= end /\ max # 0 /\ windows = << >> /\ windowStart = start
    BY <1>2 DEF EnterLoop, IInv, AtGuard
  <2>2. \A slot \in Nat : ~Behind(slot)'
    BY <2>1, MaxU64Assumption DEF Behind, IInv, TypeOK, Heights
  <2>3. InLoop'
    BY <2>1, MaxU64Assumption DEF InLoop, IInv, TypeOK, Heights
  <2> QED
    BY <2>1, <2>2, <2>3 DEF IInv, TypeOK, InRange, Ordered, AllBehindCovered, AtGuard
<1>3. CASE PushWindow
  BY <1>3, PushKeepsIInv
<1>4. CASE UNCHANGED vars
  BY <1>4 DEF vars, IInv, TypeOK, InRange, Ordered, AllBehindCovered, Behind, AtGuard, InLoop
<1> QED
  BY <1>1, <1>2, <1>3, <1>4 DEF Next

(* The strengthened invariant holds throughout the walk.                   *)
LEMMA IInvHolds == Spec => []IInv
  BY InitIInv, NextKeepsIInv, PTL DEF Spec

(* Every value stays a u64, the start of the next window included: the     *)
(* `+ 1` of the loop never leaves the type.                                *)
THEOREM SlotWindowsTypeCorrect == Spec => []TypeOK
<1>1. IInv => TypeOK
  BY DEF IInv
<1> QED
  BY <1>1, IInvHolds, PTL

(* The windows of any range of any unsigned type tile it exactly: the      *)
(* claim in the comment on slot_windows, no slot lost or asked for twice,   *)
(* and none of them is longer than the cap.                                *)
THEOREM WindowsTileExactly == Spec => []TilesExactly
<1>1. IInv => TilesExactly
  <2> SUFFICES ASSUME IInv, pc = "return", max # 0 PROVE TilesExactly
    BY DEF TilesExactly
  <2>1. \A slot \in start..end : slot \in Nat /\ Behind(slot)
    BY MaxU64Assumption DEF IInv, TypeOK, Heights, Behind
  <2> QED
    BY <2>1 DEF IInv, InRange, Ordered, AllBehindCovered, TilesExactly
<1> QED
  BY <1>1, IInvHolds, PTL

(* The increment never overflows and the loop takes at most end - start    *)
(* turns before its last, wherever saturating_add steps in.                *)
THEOREM WalkStaysInRange == Spec => []WalkBounded
<1>1. IInv => WalkBounded
  BY DEF IInv, InLoop, WalkBounded
<1> QED
  BY <1>1, IInvHolds, PTL
=============================================================================
