-------------------------- MODULE CancellationToken --------------------------
(***************************************************************************)
(* The cancellation token (crates/agentive/src/tool/context.rs): a reason  *)
(* behind a mutex, a flag that is read without it, and a notifier.  Callers *)
(* of cancel() race one another and the callers of cancelled(); each of    *)
(* them may be a thread of its own, so every access of shared state is a   *)
(* step.  The notifier is tokio's Notify: a future it hands out completes  *)
(* when notify_waiters is called after the future was created, whether or  *)
(* not it was polled before.                                               *)
(***************************************************************************)
EXTENDS Integers

CONSTANTS
    Canceller,  \* the calls of cancel
    Waiter,     \* the calls of cancelled
    Reason,     \* CancellationReason
    Runtime,    \* the reason given when none is recorded
    Why,        \* the reason each canceller gives
    Unset, Nobody

ASSUME TokenAssumption ==
    /\ Runtime \in Reason
    /\ Why \in [Canceller -> Reason]
    /\ Unset \notin Reason
    /\ Nobody \notin Canceller

VARIABLES
    reason,     \* what the mutex protects
    flag,       \* the cancelled flag
    holder,     \* the canceller that holds the mutex
    notified,   \* calls of notify_waiters so far
    canceller,  \* how far each cancel() is
    waiter,     \* how far each cancelled() is
    seen,       \* the value of notified when its future was created
    answer      \* what it returned

tokenVars == <<reason, flag, holder, notified, canceller, waiter, seen, answer>>

CancelStage == {"idle", "locked", "recorded", "stored", "unlocked", "returned"}

WaitStage == {"idle", "registered", "asleep", "awake", "asking", "returned", "left"}

TokenInit ==
    /\ reason = Unset
    /\ flag = FALSE
    /\ holder = Nobody
    /\ notified = 0
    /\ canceller = [c \in Canceller |-> "idle"]
    /\ waiter = [w \in Waiter |-> "idle"]
    /\ seen = [w \in Waiter |-> 0]
    /\ answer = [w \in Waiter |-> Unset]

-----------------------------------------------------------------------------
(* cancel *)

SameWaiters == UNCHANGED <<waiter, seen, answer>>

LockReason(c) ==
    /\ canceller[c] = "idle"
    /\ holder = Nobody
    /\ holder' = c
    /\ canceller' = [canceller EXCEPT ![c] = "locked"]
    /\ SameWaiters /\ UNCHANGED <<reason, flag, notified>>

\* Another caller was first: the lock is dropped and nothing happens.
FindRecorded(c) ==
    /\ canceller[c] = "locked"
    /\ reason # Unset
    /\ holder' = Nobody
    /\ canceller' = [canceller EXCEPT ![c] = "returned"]
    /\ SameWaiters /\ UNCHANGED <<reason, flag, notified>>

\* Faulty variant: the last caller wins.
RecordAlways(c) ==
    /\ canceller[c] = "locked"
    /\ reason' = Why[c]
    /\ canceller' = [canceller EXCEPT ![c] = "recorded"]
    /\ SameWaiters /\ UNCHANGED <<flag, holder, notified>>

\* Faulty variant: the lock covers the reason only.
RecordAndUnlock(c) ==
    /\ canceller[c] = "locked"
    /\ reason = Unset
    /\ reason' = Why[c]
    /\ holder' = Nobody
    /\ canceller' = [canceller EXCEPT ![c] = "recorded"]
    /\ SameWaiters /\ UNCHANGED <<flag, notified>>

Record(c) ==
    /\ canceller[c] = "locked"
    /\ reason = Unset
    /\ reason' = Why[c]
    /\ canceller' = [canceller EXCEPT ![c] = "recorded"]
    /\ SameWaiters /\ UNCHANGED <<flag, holder, notified>>

StoreFlag(c) ==
    /\ canceller[c] = "recorded"
    /\ flag' = TRUE
    /\ canceller' = [canceller EXCEPT ![c] = "stored"]
    /\ SameWaiters /\ UNCHANGED <<reason, holder, notified>>

Unlock(c) ==
    /\ canceller[c] = "stored"
    /\ holder' = Nobody
    /\ canceller' = [canceller EXCEPT ![c] = "unlocked"]
    /\ SameWaiters /\ UNCHANGED <<reason, flag, notified>>

\* Faulty variant: one of the sleepers is woken.
NotifyOne(c) ==
    /\ canceller[c] = "unlocked"
    /\ canceller' = [canceller EXCEPT ![c] = "returned"]
    /\ IF \E w \in Waiter : waiter[w] = "asleep"
       THEN \E w \in Waiter : /\ waiter[w] = "asleep"
                              /\ waiter' = [waiter EXCEPT ![w] = "awake"]
       ELSE UNCHANGED waiter
    /\ UNCHANGED <<reason, flag, holder, notified, seen, answer>>

NotifyWaiters(c) ==
    /\ canceller[c] = "unlocked"
    /\ notified' = notified + 1
    /\ canceller' = [canceller EXCEPT ![c] = "returned"]
    /\ SameWaiters /\ UNCHANGED <<reason, flag, holder>>

-----------------------------------------------------------------------------
(* cancelled *)

SameCancellers == UNCHANGED <<reason, flag, holder, notified, canceller>>

\* The future is created at the head of every turn of the loop.
Register(w) ==
    /\ waiter[w] \in {"idle", "awake"}
    /\ waiter' = [waiter EXCEPT ![w] = "registered"]
    /\ seen' = [seen EXCEPT ![w] = notified]
    /\ SameCancellers /\ UNCHANGED answer

CheckFlag(w) ==
    /\ waiter[w] = "registered"
    /\ waiter' = [waiter EXCEPT ![w] = IF flag THEN "asking" ELSE "asleep"]
    /\ SameCancellers /\ UNCHANGED <<seen, answer>>

Wake(w) ==
    /\ waiter[w] = "asleep"
    /\ notified # seen[w]
    /\ waiter' = [waiter EXCEPT ![w] = "awake"]
    /\ SameCancellers /\ UNCHANGED <<seen, answer>>

\* Faulty variant: the reader does not wait for the lock.
TryReason(w) ==
    /\ waiter[w] = "asking"
    /\ answer' = [answer EXCEPT ![w] =
                     IF holder = Nobody /\ reason # Unset THEN reason ELSE Runtime]
    /\ waiter' = [waiter EXCEPT ![w] = "returned"]
    /\ SameCancellers /\ UNCHANGED seen

TakeReason(w) ==
    /\ waiter[w] = "asking"
    /\ holder = Nobody
    /\ answer' = [answer EXCEPT ![w] = IF reason # Unset THEN reason ELSE Runtime]
    /\ waiter' = [waiter EXCEPT ![w] = "returned"]
    /\ SameCancellers /\ UNCHANGED seen

\* Another branch of the caller's select! completes: the future is dropped
\* where it waits.
Leave(w) ==
    /\ waiter[w] = "asleep"
    /\ waiter' = [waiter EXCEPT ![w] = "left"]
    /\ SameCancellers /\ UNCHANGED <<seen, answer>>

\* Nobody is in the middle of a call.
TokenQuiet ==
    /\ \A c \in Canceller : canceller[c] \in {"idle", "returned"}
    /\ \A w \in Waiter : waiter[w] \in {"asleep", "returned", "left"}
    /\ UNCHANGED tokenVars

-----------------------------------------------------------------------------

\* Nobody has to cancel, but a call that has begun goes on.
CancelGoesOn(c) ==
    \/ FindRecorded(c) \/ Record(c) \/ StoreFlag(c) \/ Unlock(c) \/ NotifyWaiters(c)

WaitGoesOn(w) == Register(w) \/ CheckFlag(w) \/ Wake(w) \/ TakeReason(w)

TokenNext ==
    \/ \E c \in Canceller : LockReason(c) \/ CancelGoesOn(c)
    \/ \E w \in Waiter : WaitGoesOn(w) \/ Leave(w)
    \/ TokenQuiet

TokenSpec == TokenInit /\ [][TokenNext]_tokenVars

TokenLiveSpec ==
    /\ TokenSpec
    /\ \A c \in Canceller : WF_tokenVars(CancelGoesOn(c))
    /\ \A w \in Waiter : WF_tokenVars(WaitGoesOn(w))

-----------------------------------------------------------------------------
(* Properties. *)

\* The token keeps its types, and only the first request notifies the waiters.
TokenTypeOK ==
    /\ reason \in Reason \cup {Unset}
    /\ flag \in BOOLEAN
    /\ holder \in Canceller \cup {Nobody}
    /\ notified \in {0, 1}
    /\ canceller \in [Canceller -> CancelStage]
    /\ waiter \in [Waiter -> WaitStage]
    /\ seen \in [Waiter -> {0, 1}]
    /\ answer \in [Waiter -> Reason \cup {Unset}]

\* A request that returned has taken effect, also when another caller was first
\* and has not returned; and whoever is notified finds the flag set.  The loops
\* that poll is_cancelled() and the providers that own the notifier rely on it.
CancelTakesEffect ==
    (notified > 0 \/ \E c \in Canceller : canceller[c] = "returned") => flag

\* The token is one atomic signal: it appears with the first reason recorded,
\* never changes, and every call of cancelled() returns it, never the default.
Atomic == INSTANCE AtomicToken WITH signal <- IF flag THEN reason ELSE Unset

Implements == Atomic!Spec

\* A cancellation is never missed: every call of cancelled() that was made
\* before or after it returns, unless its caller drops it.
WaitersWake ==
    \A w \in Waiter : flag ~> waiter[w] \in {"returned", "left"}
=============================================================================
