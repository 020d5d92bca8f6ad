------------------------------ MODULE Resource ------------------------------
(***************************************************************************)
(* The shared-resource manager of src/resource.c: one sBSP430resource, the *)
(* subsystems that share it, and the wait queue through which a subsystem  *)
(* is told of a release.                                                   *)
(*                                                                         *)
(* Every entry point runs with interrupts disabled, so a call is one       *)
(* atomic step, with one exception: Release and CancelWait may end by      *)
(* calling the head waiter's callback, which may call back into the API.   *)
(* `calling' is the waiter whose callback is on the stack.  While it is    *)
(* set no other actor runs, so the callback's step is forced to be next.   *)
(***************************************************************************)
EXTENDS Naturals, Sequences

CONSTANTS Clients,        \* the subsystems; each has one sBSP430resourceWaiter
          Anonymous,      \* the clients that pass a null self
          CallbackKinds,  \* what a client's callback_ni may do
          WaitTypes,      \* eBSP430resourceWait values in use
          MaxClaims,      \* bound on the nesting of claims of one client
          Null,           \* the null pointer
          TheResource     \* the address of the resource itself

ASSUME ClientsAssumption ==
    /\ Null \notin Clients /\ TheResource \notin Clients /\ Null # TheResource
    /\ Anonymous \subseteq Clients
    /\ MaxClaims \in Nat \ {0}
    /\ WaitTypes \subseteq {"NONE", "FIFO", "LIFO"}
    /\ CallbackKinds \in [Clients -> SUBSET {"flag", "claim", "cancel"}]

VARIABLES holder,   \* resource->holder
          count,    \* resource->count
          waiter,   \* resource->waiter, the queue linked through next
          flag,     \* the flag iBSP430resourceSetFlagOnRelease sets, per client
          retry,    \* the client has seen its flag and is about to claim again
          owned,    \* claims a client was granted less those it released
          calling   \* the waiter whose callback is running, or Null

vars == <<holder, count, waiter, flag, retry, owned, calling>>

\* The self argument of client c, and what a first claim stores in holder.
SelfOf(c) == IF c \in Anonymous THEN Null ELSE c
HolderFor(c) == IF c \in Anonymous THEN TheResource ELSE c

Queued(c) == \E i \in 1..Len(waiter) : waiter[i] = c

\* remove_waiter_ni: unlink c wherever it is in the queue.
Without(q, i) == [j \in 1..(Len(q) - 1) |-> IF j < i THEN q[j] ELSE q[j + 1]]

RemoveWaiter(q, c) ==
    IF \E i \in 1..Len(q) : q[i] = c
    THEN Without(q, CHOOSE i \in 1..Len(q) : q[i] = c)
    ELSE q

\* The waiter whose callback a call that leaves queue q has to run.
Notified(q) == IF q = <<>> THEN Null ELSE Head(q)

-----------------------------------------------------------------------------
(* iBSP430resourceClaim_ni.  own is TRUE when c passes its waiter record   *)
(* and FALSE when it passes a null pointer.                                *)

\* Nobody holds the resource: record the holder, leave the queue.
ClaimFirst(c, own) ==
    /\ count = 0
    /\ holder' = HolderFor(c)
    /\ waiter' = IF own THEN RemoveWaiter(waiter, c) ELSE waiter
    /\ count' = count + 1
    /\ owned' = [owned EXCEPT ![c] = @ + 1]

\* Mutant: a null self is taken for the resource when holders are compared.
ClaimAgainIfRecorded(c, own) ==
    /\ count # 0
    /\ HolderFor(c) = holder
    /\ count' = count + 1
    /\ owned' = [owned EXCEPT ![c] = @ + 1]
    /\ UNCHANGED <<holder, waiter>>

\* The holder claims again: only the count changes.
ClaimAgain(c, own) ==
    /\ count # 0
    /\ SelfOf(c) = holder
    /\ count' = count + 1
    /\ owned' = [owned EXCEPT ![c] = @ + 1]
    /\ UNCHANGED <<holder, waiter>>

\* Mutant: a waiter already queued is moved to where it would go now.
ClaimFailsRequeues(c, type, own) ==
    /\ count # 0
    /\ SelfOf(c) # holder
    /\ \/ (~own \/ type = "NONE") /\ UNCHANGED waiter
       \/ own /\ type = "LIFO" /\ waiter' = <<c>> \o RemoveWaiter(waiter, c)
       \/ own /\ type = "FIFO" /\ waiter' = Append(RemoveWaiter(waiter, c), c)
    /\ UNCHANGED <<holder, count, owned>>

\* Somebody else holds it: register the waiter unless it is queued already.
ClaimFails(c, type, own) ==
    /\ count # 0
    /\ SelfOf(c) # holder
    /\ \/ (~own \/ type = "NONE" \/ Queued(c)) /\ UNCHANGED waiter
       \/ own /\ type = "LIFO" /\ ~Queued(c) /\ waiter' = <<c>> \o waiter
       \/ own /\ type = "FIFO" /\ ~Queued(c) /\ waiter' = Append(waiter, c)
    /\ UNCHANGED <<holder, count, owned>>

Claim(c, type, own) ==
    ClaimFirst(c, own) \/ ClaimAgain(c, own) \/ ClaimFails(c, type, own)

-----------------------------------------------------------------------------
(* iBSP430resourceRelease_ni and iBSP430resourceCancelWait_ni              *)

\* Mutant: the queue is not told.
LastReleaseSilently(c) ==
    /\ count = 1
    /\ holder' = Null
    /\ calling' = Null

\* The release that frees the resource tells the head of the queue.
LastRelease(c) ==
    /\ count = 1
    /\ holder' = Null
    /\ calling' = Notified(waiter)

\* An inner release only counts down.
InnerRelease(c) ==
    /\ count > 1
    /\ UNCHANGED <<holder, calling>>

\* A self other than the holder spins (or returns -1 with NDEBUG), changing
\* nothing.  The code cannot tell one null self from another: a client that
\* claims with a null self releases only what it owns.
Release(c) ==
    /\ calling = Null
    /\ c \in Anonymous => owned[c] > 0
    /\ HolderFor(c) = holder
    /\ LastRelease(c) \/ InnerRelease(c)
    /\ count' = count - 1
    /\ owned' = [owned EXCEPT ![c] = @ - 1]
    /\ UNCHANGED <<waiter, flag, retry>>

\* Mutant: the new head is not told.
CancelWaitSilently(c) ==
    /\ waiter' = RemoveWaiter(waiter, c)
    /\ calling' = Null
    /\ UNCHANGED <<holder, count, owned>>

\* Leaving the head of the queue passes the notification on to the new head.
CancelWait(c) ==
    /\ waiter' = RemoveWaiter(waiter, c)
    /\ calling' = IF Notified(waiter) = c THEN Notified(waiter') ELSE Null
    /\ UNCHANGED <<holder, count, owned>>

-----------------------------------------------------------------------------
(* The subsystems outside a callback.                                      *)

\* Claiming, for the first time, recursively, or after a notification.
TryClaim(c) ==
    /\ calling = Null
    /\ owned[c] < MaxClaims
    /\ \E type \in WaitTypes, own \in BOOLEAN : Claim(c, type, own)
    /\ retry' = [retry EXCEPT ![c] = FALSE]
    /\ UNCHANGED <<flag, calling>>

\* The subsystem no longer needs the resource.
GiveUp(c) ==
    /\ calling = Null
    /\ CancelWait(c)
    /\ retry' = [retry EXCEPT ![c] = FALSE]
    /\ UNCHANGED flag

\* The main loop collects the flag the callback left.
FetchFlag(c) ==
    /\ calling = Null
    /\ flag[c]
    /\ flag' = [flag EXCEPT ![c] = FALSE]
    /\ retry' = [retry EXCEPT ![c] = TRUE]
    /\ UNCHANGED <<holder, count, waiter, owned, calling>>

-----------------------------------------------------------------------------
(* The callback of waiter `calling', one of the uses resource.h allows.    *)

\* iBSP430resourceSetFlagOnRelease
SetFlagOnRelease(c) ==
    /\ calling = c
    /\ "flag" \in CallbackKinds[c]
    /\ flag' = [flag EXCEPT ![c] = TRUE]
    /\ calling' = Null
    /\ UNCHANGED <<holder, count, waiter, retry, owned>>

CallbackClaims(c) ==
    /\ calling = c
    /\ "claim" \in CallbackKinds[c]
    /\ \/ /\ owned[c] < MaxClaims
          /\ \E type \in WaitTypes : Claim(c, type, TRUE)
       \/ /\ owned[c] >= MaxClaims    \* enough: it returns at once
          /\ UNCHANGED <<holder, count, waiter, owned>>
    /\ calling' = Null
    /\ UNCHANGED <<flag, retry>>

CallbackCancels(c) ==
    /\ calling = c
    /\ "cancel" \in CallbackKinds[c]
    /\ CancelWait(c)
    /\ UNCHANGED <<flag, retry>>

Callback(c) == SetFlagOnRelease(c) \/ CallbackClaims(c) \/ CallbackCancels(c)

Init ==
    /\ holder = Null
    /\ count = 0
    /\ waiter = <<>>
    /\ flag = [c \in Clients |-> FALSE]
    /\ retry = [c \in Clients |-> FALSE]
    /\ owned = [c \in Clients |-> 0]
    /\ calling = Null

Next ==
    \E c \in Clients :
        TryClaim(c) \/ Release(c) \/ GiveUp(c) \/ FetchFlag(c) \/ Callback(c)

\* A callback runs at once; a main loop goes round and collects its flags,
\* and a subsystem that asked to be told claims again.
Retry(c) == retry[c] /\ TryClaim(c)

Fairness ==
    \A c \in Clients :
        WF_vars(Callback(c)) /\ WF_vars(FetchFlag(c)) /\ WF_vars(Retry(c))

Spec == Init /\ [][Next]_vars
FairSpec == Spec /\ Fairness

-----------------------------------------------------------------------------
\* Every variable has its type.
TypeOK ==
    /\ holder \in Clients \cup {Null, TheResource}
    /\ count \in Nat
    /\ waiter \in Seq(Clients)
    /\ flag \in [Clients -> BOOLEAN]
    /\ retry \in [Clients -> BOOLEAN]
    /\ owned \in [Clients -> Nat]
    /\ calling \in Clients \cup {Null}

\* Two subsystems never both believe they have the resource, whatever they
\* learnt it from: a claim's return value or a claim made in a callback.
MutualExclusion ==
    \A c, d \in Clients : owned[c] > 0 /\ owned[d] > 0 => c = d

\* The resource's own record agrees with what its clients were told: it is
\* free exactly when nobody owns it, and the owner's nesting is its count.
\* So a rightful release never reaches the diagnostic spin of
\* iBSP430resourceRelease_ni.
OwnerRecorded ==
    /\ count = 0 <=> holder = Null
    /\ count = 0 <=> \A c \in Clients : owned[c] = 0
    /\ \A c \in Clients : owned[c] > 0 => holder = HolderFor(c) /\ count = owned[c]

\* A waiter is queued at most once, or remove_waiter_ni would spin and the
\* list, linked through one next field, would close on itself.
QueuedOnce ==
    \A i, j \in 1..Len(waiter) : waiter[i] = waiter[j] => i = j

\* No lost wakeup: a free resource with waiters has told the first of them,
\* who has yet to act on it.  Barging claims, cancellations by the head and
\* cancellations inside a callback must all keep it so.
NoLostWakeup ==
    calling = Null /\ count = 0 /\ waiter # <<>>
        => flag[Head(waiter)] \/ retry[Head(waiter)]

\* A step that leaves two waiters queued leaves them in the same order: a
\* failed claim, also one with another wait type, does not reprioritise.
Before(q, c, d) == \E i, j \in 1..Len(q) : i < j /\ q[i] = c /\ q[j] = d

OrderKept ==
    [][\A c, d \in Clients :
          Before(waiter, c, d) /\ Before(waiter', d, c) => FALSE]_vars

\* A free resource somebody waits for is taken again, or nobody waits.
FreeIsTaken ==
    count = 0 /\ waiter # <<>> ~> count > 0 \/ waiter = <<>>

\* The clients see a recursive mutex.
Mutex == INSTANCE RecursiveMutex

ImplementsMutex == Mutex!Spec

\* resource.h:180 says of a claim that succeeds that any appearance of the
\* waiter it was given is removed from the queue.
ClaimDequeues ==
    [][\A c \in Clients :
          ClaimFirst(c, TRUE) \/ ClaimAgain(c, TRUE)
              => \A i \in 1..Len(waiter') : waiter'[i] # c]_vars

=============================================================================
