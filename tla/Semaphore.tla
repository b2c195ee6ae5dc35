----------------------------- MODULE Semaphore ------------------------------
(***************************************************************************)
(* The counting semaphore that the harness gives the emulator's threads    *)
(* (tools/harness/platform.cpp): a count, a mutex and a condition          *)
(* variable.  A wait tests the count with the mutex held and gives the     *)
(* mutex up in the same step as it falls asleep; a post adds with the      *)
(* mutex held and notifies after it has released it.  The emulator may     *)
(* call any operation from any thread.                                     *)
(***************************************************************************)
EXTENDS Integers

CONSTANTS
  Threads,      \* the emulator's threads
  NoThread,     \* nobody, for the mutex
  MaxPost,      \* the most one Semaphore_Post adds
  MaxPosted     \* bound: how much is posted in a whole behaviour

ASSUME SemaphoreAssumption ==
  NoThread \notin Threads /\ MaxPost \in Nat /\ MaxPosted \in Nat

Ops == {"wait", "trywait", "post", "reset"}

VARIABLES
  count,        \* Semaphore::count
  holder,       \* who has Semaphore::m
  pc, op,
  amount,       \* what a post adds
  expired,      \* a TryWait's time is up
  posted, taken, dropped     \* history: added, taken by waits, reset away
history == <<posted, taken, dropped>>
vars == <<count, holder, pc, op, amount, expired, history>>

\* "lock": wants the mutex; "held": has it; "take": and has found a count;
\* "asleep": on the condition variable; "notify": has added and released, and
\* has not notified yet.
Labels == {"out", "lock", "held", "take", "asleep", "notify"}

Init ==
  /\ count = 0 /\ holder = NoThread
  /\ pc = [t \in Threads |-> "out"]
  /\ op = [t \in Threads |-> "wait"]
  /\ amount = [t \in Threads |-> 0]
  /\ expired = [t \in Threads |-> FALSE]
  /\ posted = 0 /\ taken = 0 /\ dropped = 0

Goto(t, l) == pc' = [pc EXCEPT ![t] = l]

\* One of the four calls.
Enter(t, o, n) ==
  /\ pc[t] = "out"
  /\ op' = [op EXCEPT ![t] = o]
  /\ amount' = [amount EXCEPT ![t] = n]
  /\ expired' = [expired EXCEPT ![t] = FALSE]
  /\ Goto(t, "lock")
  /\ UNCHANGED <<count, holder, history>>

Call(t) ==
  \/ \E o \in {"wait", "trywait", "reset"} : Enter(t, o, 0)
  \/ \E n \in 1 .. MaxPost : posted + n <= MaxPosted /\ Enter(t, "post", n)

\* Mutant: a reset does without the mutex.
LocksOrResets(t) == holder = NoThread \/ op[t] = "reset"
Locks(t)         == holder = NoThread

\* std::lock_guard, std::unique_lock, and the way out of cv.wait.
Lock(t) ==
  /\ pc[t] = "lock" /\ Locks(t)
  /\ holder' = t /\ Goto(t, "held")
  /\ UNCHANGED <<count, op, amount, expired, history>>

Waits(t) == pc[t] = "held" /\ op[t] \in {"wait", "trywait"}

\* The predicate holds; then one is taken, and the mutex released.
Find(t) ==
  /\ Waits(t) /\ count > 0
  /\ Goto(t, "take")
  /\ UNCHANGED <<count, holder, op, amount, expired, history>>
Take(t) ==
  /\ pc[t] = "take"
  /\ count' = count - 1 /\ taken' = taken + 1
  /\ holder' = NoThread /\ Goto(t, "out")
  /\ UNCHANGED <<op, amount, expired, posted, dropped>>

\* The predicate fails and there is time left: sleep, the mutex released.
Sleep(t) ==
  /\ Waits(t) /\ count = 0 /\ ~ expired[t]
  /\ holder' = NoThread /\ Goto(t, "asleep")
  /\ UNCHANGED <<count, op, amount, expired, history>>

\* TryWait after its time: false, nothing taken.
GiveUp(t) ==
  /\ Waits(t) /\ count = 0 /\ expired[t]
  /\ holder' = NoThread /\ Goto(t, "out")
  /\ UNCHANGED <<count, op, amount, expired, history>>

\* A condition variable wakes on its own at times; a TryWait's when its time
\* is up.
Spurious(t) ==
  /\ pc[t] = "asleep" /\ Goto(t, "lock")
  /\ UNCHANGED <<count, holder, op, amount, expired, history>>
Expire(t) ==
  /\ pc[t] = "asleep" /\ op[t] = "trywait"
  /\ expired' = [expired EXCEPT ![t] = TRUE] /\ Goto(t, "lock")
  /\ UNCHANGED <<count, holder, op, amount, history>>

Add(t) ==
  /\ pc[t] = "held" /\ op[t] = "post"
  /\ count' = count + amount[t] /\ posted' = posted + amount[t]
  /\ holder' = NoThread /\ Goto(t, "notify")
  /\ UNCHANGED <<op, amount, expired, taken, dropped>>

\* Mutants: notify_one for all of a post's counts; no notification when the
\* count is gone again, or there was one already.
WokenOne(t)  == LET asleep == {u \in Threads : pc[u] = "asleep"}
                IN  IF asleep = {} THEN {} ELSE {CHOOSE u \in asleep : TRUE}
WokenOnlyFirst(t) == {u \in Threads : pc[u] = "asleep" /\ count = amount[t]}
Woken(t)     == {u \in Threads : pc[u] = "asleep"}

NotifyAll(t) ==
  /\ pc[t] = "notify"
  /\ pc' = [u \in Threads |-> IF u = t THEN "out"
                              ELSE IF u \in Woken(t) THEN "lock" ELSE pc[u]]
  /\ UNCHANGED <<count, holder, op, amount, expired, history>>

Reset(t) ==
  /\ pc[t] = "held" /\ op[t] = "reset"
  /\ count' = 0 /\ dropped' = dropped + count
  /\ holder' = NoThread /\ Goto(t, "out")
  /\ UNCHANGED <<op, amount, expired, posted, taken>>

\* What a thread that is in an operation does by itself.
Proceed(t) ==
  \/ Lock(t) \/ Find(t) \/ Take(t) \/ Sleep(t) \/ GiveUp(t) \/ Add(t)
  \/ NotifyAll(t) \/ Reset(t)
Next == \E t \in Threads : Call(t) \/ Proceed(t) \/ Spurious(t) \/ Expire(t)

Spec == Init /\ [][Next]_vars

\* The host runs every thread that can run.  Nobody has to call anything, no
\* condition variable has to wake by itself, and no time has to run out.
Fairness == \A t \in Threads : WF_vars(Proceed(t))
FairSpec == Spec /\ Fairness

-----------------------------------------------------------------------------
(***************************************************************************)
(* Properties.                                                             *)
(***************************************************************************)

\* Every count that is posted lets one wait through, is still there, or was
\* reset away; and there are never fewer than none.
NothingLost == count >= 0 /\ posted = taken + dropped + count

\* A thread sleeps on a count that is there only while the one who posted it
\* is still about to wake everybody.
NoLostWakeup ==
  (count > 0 /\ \E t \in Threads : pc[t] = "asleep") =>
     \E t \in Threads : pc[t] = "notify"

\* While there is a count and somebody waits for it, somebody gets it: a wait
\* does not hang on a semaphore that has been posted.
Waiting == \E t \in Threads : pc[t] # "out" /\ op[t] = "wait"
PostedIsTaken == (count > 0 /\ Waiting) ~> (count = 0 \/ ~ Waiting)

==============================================================================
