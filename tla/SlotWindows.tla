----------------------------- MODULE SlotWindows -----------------------------
(***************************************************************************)
(* slot_windows: the walk that cuts [start, end] into getBlocks windows of *)
(* at most `max` slots.  One step is one turn of the loop; start, end and  *)
(* max are the caller's and may be any u64, the last one included.         *)
(***************************************************************************)
EXTENDS SlotMath, Sequences

VARIABLES start, end, max,   \* the arguments
          windowStart,       \* where the next window begins
          windows,           \* the windows pushed so far
          pc                 \* "guard", "loop" or "return"

vars == <<start, end, max, windowStart, windows, pc>>

Window == Heights \X Heights

Init ==
  /\ start \in Heights /\ end \in Heights /\ max \in Heights
  /\ windowStart = start
  /\ windows = << >>
  /\ pc = "guard"

ReturnEmpty ==
  /\ pc = "guard"
  /\ end < start \/ max = 0
  /\ pc' = "return"
  /\ UNCHANGED <<start, end, max, windowStart, windows>>

EnterLoop ==
  /\ pc = "guard"
  /\ start <= end /\ max # 0
  /\ pc' = "loop"
  /\ UNCHANGED <<start, end, max, windowStart, windows>>

\* Slip: the increment after a window is left out.
PushWindowShared ==
  LET windowEnd == WindowEnd(windowStart, end, max) IN
  /\ pc = "loop"
  /\ windows' = Append(windows, <<windowStart, windowEnd>>)
  /\ IF windowEnd = end THEN pc' = "return" /\ UNCHANGED windowStart
                        ELSE windowStart' = windowEnd /\ UNCHANGED pc
  /\ UNCHANGED <<start, end, max>>

\* Slip: the loop is left once the next window would begin at or after `end`.
PushWindowDropsLast ==
  LET windowEnd == WindowEnd(windowStart, end, max) IN
  /\ pc = "loop"
  /\ windows' = Append(windows, <<windowStart, windowEnd>>)
  /\ IF windowEnd + 1 >= end THEN pc' = "return" /\ UNCHANGED windowStart
                             ELSE windowStart' = windowEnd + 1 /\ UNCHANGED pc
  /\ UNCHANGED <<start, end, max>>

\* Slip: the loop tests for `end` only after it has moved on.
PushWindowRunsOn ==
  LET windowEnd == WindowEnd(windowStart, end, max) IN
  /\ pc = "loop"
  /\ windows' = Append(windows, <<windowStart, windowEnd>>)
  /\ windowStart' = windowEnd + 1
  /\ pc' = IF windowStart > end THEN "return" ELSE pc
  /\ UNCHANGED <<start, end, max>>

PushWindow ==
  LET windowEnd == WindowEnd(windowStart, end, max) IN
  /\ pc = "loop"
  /\ windows' = Append(windows, <<windowStart, windowEnd>>)
  /\ \/ /\ windowEnd = end
        /\ pc' = "return"
        /\ UNCHANGED windowStart
     \/ /\ windowEnd # end
        /\ windowStart' = windowEnd + 1
        /\ UNCHANGED pc
  /\ UNCHANGED <<start, end, max>>

Next == ReturnEmpty \/ EnterLoop \/ PushWindow

Spec == Init /\ [][Next]_vars
-----------------------------------------------------------------------------
TypeOK ==
  /\ start \in Heights /\ end \in Heights /\ max \in Heights
  /\ windowStart \in Heights
  /\ windows \in Seq(Window)
  /\ pc \in {"guard", "loop", "return"}

Covers(w, slot) == w[1] <= slot /\ slot <= w[2]

(* No slot of the range falls between two windows and none is asked for    *)
(* twice, and no window asks the RPC for more than `max` slots, which it   *)
(* would refuse, nor for none: what "they tile the range exactly" promises *)
(* every caller of slot_windows, for any start, end and max that are u64.  *)
TilesExactly ==
  pc = "return" /\ max # 0 =>
    /\ \A slot \in start..end : \E i \in DOMAIN windows : Covers(windows[i], slot)
    /\ \A i, j \in DOMAIN windows : i < j => windows[i][2] < windows[j][1]
    /\ \A i \in DOMAIN windows : start <= windows[i][1] /\ windows[i][2] <= end
    /\ \A i \in DOMAIN windows : windows[i][1] <= windows[i][2] /\ windows[i][2] - windows[i][1] < max

(* The comment on `window_start = window_end + 1`: the increment cannot    *)
(* overflow, because the next window still begins inside the range.  Every *)
(* turn moves on by a slot at least, so there are at most end - start      *)
(* turns before the last: the loop ends even where saturation stops it.    *)
WalkBounded ==
  pc = "loop" =>
    /\ windowStart <= end
    /\ Len(windows) <= windowStart - start
=============================================================================
