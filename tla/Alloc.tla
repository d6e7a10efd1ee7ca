-------------------------------- MODULE Alloc -------------------------------
(***************************************************************************)
(* The global allocator of alloc.rs, which counts what every thread        *)
(* allocates in four atomic counters and, in builds with a memory limit,   *)
(* refuses what goes beyond.  Every atomic operation is a step of its own, *)
(* and so is every call of the system allocator.                           *)
(***************************************************************************)
EXTENDS Integers, FiniteSets, FiniteSetsExt, Functions

CONSTANTS Threads,
          Blocks,     \* addresses
          Nowhere,    \* no address
          Sizes,
          Limits,     \* what LIMIT may be; above all that can be allocated if it is None
          MaxCalls    \* bound on the number of calls that count

ASSUME AllocAssumption ==
  /\ IsFiniteSet(Threads) /\ Threads # {}
  /\ IsFiniteSet(Blocks) /\ Nowhere \notin Blocks
  /\ IsFiniteSet(Sizes) /\ Sizes # {} /\ Sizes \subseteq Nat \ {0}
  /\ Limits \subseteq Nat /\ MaxCalls \in Nat

VARIABLES limit,                         \* of this build
          blocks,                        \* address -> size of what is there, 0 if nothing
          count, total, current, peak,   \* the counters
          pc, op,                        \* the place and the locals of each thread
          refused,                       \* sizes refused after they were added to current
          highest                        \* the highest value current has had
vars == <<limit, blocks, count, total, current, peak, pc, op, refused, highest>>

Idle == [block |-> Nowhere, size |-> 0, old |-> 0, prev |-> 0, moved |-> FALSE]

Larger(m, n) == IF m > n THEN m ELSE n

Init ==
  /\ limit \in Limits
  /\ blocks = [b \in Blocks |-> 0]
  /\ count = 0 /\ total = 0 /\ current = 0 /\ peak = 0
  /\ pc = [t \in Threads |-> "idle"]
  /\ op = [t \in Threads |-> Idle]
  /\ refused = 0
  /\ highest = 0

Goto(t, from, to) == pc[t] = from /\ pc' = [pc EXCEPT ![t] = to]

\* fetch_add and fetch_sub of current; prev is the value they return.
Add(t, n) ==
  /\ current' = current + n
  /\ op' = [op EXCEPT ![t].prev = current]
  /\ highest' = Larger(highest, current + n)

Held(b) == \E t \in Threads : op[t].block = b

-----------------------------------------------------------------------------
(* alloc and alloc_zeroed *)

CallAlloc(t, size) ==
  /\ Goto(t, "idle", "reserve")
  /\ count < MaxCalls
  /\ count' = count + 1
  /\ op' = [op EXCEPT ![t].size = size]
  /\ UNCHANGED <<limit, blocks, total, current, peak, refused, highest>>

\* Mutant: current is left to dealloc.
ReserveNothing(t) ==
  /\ Goto(t, "reserve", "total")
  /\ Add(t, 0)
  /\ UNCHANGED <<limit, blocks, count, total, peak, refused>>

Reserve(t) ==
  /\ Goto(t, "reserve", "total")
  /\ Add(t, op[t].size)
  /\ UNCHANGED <<limit, blocks, count, total, peak, refused>>

AddTotal(t) ==
  /\ Goto(t, "total", "peak")
  /\ total' = total + op[t].size
  /\ UNCHANGED <<limit, blocks, count, current, peak, op, refused, highest>>

\* Mutant: what current is now, not what it was after the addition.
ReachedNow(t) == current

\* What the thread's addition brought current to.
Reached(t) == op[t].prev + op[t].size

RaisePeak(t) ==
  /\ pc[t] = "peak"
  /\ peak' = Larger(peak, Reached(t))
  /\ IF Larger(peak, Reached(t)) > limit
       THEN /\ Goto(t, "peak", "idle")
            /\ op' = [op EXCEPT ![t] = Idle]
            /\ refused' = refused + op[t].size
       ELSE Goto(t, "peak", "take") /\ UNCHANGED <<limit, op, refused>>
  /\ UNCHANGED <<limit, blocks, count, total, current, highest>>

TakeBlock(t, b) ==
  /\ Goto(t, "take", "idle")
  /\ blocks[b] = 0
  /\ blocks' = [blocks EXCEPT ![b] = op[t].size]
  /\ op' = [op EXCEPT ![t] = Idle]
  /\ UNCHANGED <<limit, count, total, current, peak, refused, highest>>

-----------------------------------------------------------------------------
(* dealloc: the block may come from any thread *)

CallDealloc(t, b) ==
  /\ Goto(t, "idle", "release")
  /\ blocks[b] > 0 /\ ~Held(b)
  /\ blocks' = [blocks EXCEPT ![b] = 0]
  /\ op' = [op EXCEPT ![t].size = blocks[b]]
  /\ UNCHANGED <<limit, count, total, current, peak, refused, highest>>

Release(t) ==
  /\ Goto(t, "release", "idle")
  /\ current' = current - op[t].size
  /\ op' = [op EXCEPT ![t] = Idle]
  /\ UNCHANGED <<limit, blocks, count, total, peak, refused, highest>>

-----------------------------------------------------------------------------
(* realloc *)

CallRealloc(t, b, size) ==
  /\ Goto(t, "idle", "check")
  /\ count < MaxCalls
  /\ blocks[b] > 0 /\ ~Held(b)
  /\ count' = count + 1
  /\ op' = [op EXCEPT ![t] = [Idle EXCEPT !.block = b, !.size = size, !.old = blocks[b]]]
  /\ UNCHANGED <<limit, blocks, total, current, peak, refused, highest>>

\* Mutant: realloc asks for nothing.
NeverTooMuch(t) == FALSE

TooMuch(t) == current + op[t].size > limit

CheckLimit(t) ==
  /\ pc[t] = "check"
  /\ IF TooMuch(t)
       THEN Goto(t, "check", "idle") /\ op' = [op EXCEPT ![t] = Idle]
       ELSE Goto(t, "check", "resize") /\ UNCHANGED op
  /\ UNCHANGED <<limit, blocks, count, total, current, peak, refused, highest>>

\* The system allocator moves the block or not; shrinking in place is not counted in total.
Resize(t) ==
  /\ pc[t] = "resize"
  /\ blocks' = [blocks EXCEPT ![op[t].block] = op[t].size]
  /\ \E moved \in BOOLEAN :
       /\ Goto(t, "resize", IF moved \/ op[t].size > op[t].old THEN "grow" ELSE "adjust")
       /\ op' = [op EXCEPT ![t].moved = moved]
  /\ UNCHANGED <<limit, count, total, current, peak, refused, highest>>

Added(t) == IF op[t].moved THEN op[t].size ELSE op[t].size - op[t].old

Grow(t) ==
  /\ Goto(t, "grow", "adjust")
  /\ total' = total + Added(t)
  /\ UNCHANGED <<limit, blocks, count, current, peak, op, refused, highest>>

\* Mutant: the old size is kept.
DifferenceForgotten(t) == op[t].size

Difference(t) == op[t].size - op[t].old

Adjust(t) ==
  /\ Goto(t, "adjust", "top")
  /\ Add(t, Difference(t))
  /\ UNCHANGED <<limit, blocks, count, total, peak, refused>>

\* While a block moves both of its places are in use.
RaiseTop(t) ==
  /\ Goto(t, "top", "idle")
  /\ peak' = IF op[t].moved \/ op[t].size > op[t].old
               THEN Larger(peak, op[t].prev + Added(t)) ELSE peak
  /\ op' = [op EXCEPT ![t] = Idle]
  /\ UNCHANGED <<limit, blocks, count, total, current, refused, highest>>

-----------------------------------------------------------------------------
Thread(t) ==
  \/ \E size \in Sizes : CallAlloc(t, size)
  \/ Reserve(t)
  \/ AddTotal(t)
  \/ RaisePeak(t)
  \/ \E b \in Blocks : TakeBlock(t, b)
  \/ \E b \in Blocks : CallDealloc(t, b)
  \/ Release(t)
  \/ \E b \in Blocks, size \in Sizes : CallRealloc(t, b, size)
  \/ CheckLimit(t)
  \/ Resize(t)
  \/ Grow(t)
  \/ Adjust(t)
  \/ RaiseTop(t)

Next == \E t \in Threads : Thread(t)

Spec == Init /\ [][Next]_vars

-----------------------------------------------------------------------------
(***************************************************************************)
(* The type invariant; the counters are unsigned, so none may be lowered   *)
(* below zero.                                                             *)
(***************************************************************************)
TypeOK ==
  /\ limit \in Limits
  /\ blocks \in [Blocks -> {0} \cup Sizes]
  /\ count \in 0 .. MaxCalls
  /\ total \in Nat /\ current \in Nat /\ peak \in Nat
  /\ pc \in [Threads -> {"idle", "reserve", "total", "peak", "take", "release",
                         "check", "resize", "grow", "adjust", "top"}]

Live == SumFunction(blocks)

\* What current is ahead of the blocks on behalf of a thread.
Ahead(t) ==
  CASE pc[t] \in {"total", "peak", "take", "release"} -> op[t].size
    [] pc[t] \in {"grow", "adjust"} -> op[t].old - op[t].size
    [] OTHER -> 0

(***************************************************************************)
(* Nothing is lost between the threads: current is what is allocated, but  *)
(* for the calls under way and for what was refused, which stays counted.  *)
(***************************************************************************)
Accounting ==
  current = Live + refused + SumFunction([t \in Threads |-> Ahead(t)])

Quiet == \A t \in Threads : pc[t] = "idle"

(***************************************************************************)
(* When no call is under way, the peak is one: current has never been      *)
(* above it, however the additions and the updates of peak interleaved.    *)
(***************************************************************************)
PeakCovers == Quiet => peak >= highest

(***************************************************************************)
(* realloc checks the limit first and counts later, so the limit can be    *)
(* overrun, but by no more than what the other threads are growing.        *)
(***************************************************************************)
LargestGrowth == Max({ m - n : m, n \in Sizes })

OverrunIsBounded == Live <= limit + (Cardinality(Threads) - 1) * LargestGrowth
=============================================================================
