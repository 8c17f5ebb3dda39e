--------------------------- MODULE RequestBudget ---------------------------
(***************************************************************************)
(* The request budget of a scan: take() of RequestBudget (custom engine,   *)
(* app/engines/custom.py) and, line for line the same, of ProxyJob (engine *)
(* runner, engine_runner/main.py), and what its callers do with a grant:   *)
(* ScopedHttpClient.request (app/security/scope.py), which may follow      *)
(* redirects.                                                              *)
(*                                                                         *)
(* One event loop runs every caller, so that what happens between two      *)
(* awaits is one step.  take() awaits twice: for the lock, and, holding    *)
(* it, for the rest of the interval since the last grant.  Times are ages, *)
(* in ticks, rather than readings of the clock.                            *)
(***************************************************************************)
EXTENDS Integers, Sequences, SequencesExt

CONSTANTS
    Callers,       \* coroutines that send requests under the budget
    Followers,     \* those whose client follows redirects (the proxy's)
    Maximum,       \* max_requests
    Interval,      \* 1 / rate_limit, in ticks
    MaxRedirects   \* max_redirects of the client

ASSUME ParametersAssumption ==
    /\ Followers \subseteq Callers
    /\ Maximum \in Nat
    /\ Interval \in Nat
    /\ MaxRedirects \in Nat

Nobody == "nobody"

ASSUME NobodyAssumption == Nobody \notin Callers

Caller == [pc : {"idle", "waiting", "sleeping", "sending", "cancelled"},
           left : 0 .. Interval,        \* of its sleep
           hops : 0 .. MaxRedirects]    \* redirects followed by its request

CallerAt(pc, left) == [pc |-> pc, left |-> left, hops |-> 0]

IdleCaller == CallerAt("idle", 0)

VARIABLES
    count,    \* grants so far
    since,    \* age of last_request, no further than Interval
    holder,   \* of the lock, while it sleeps
    waiters,  \* callers queued for the lock
    caller,
    sent      \* HTTP requests that have gone out to the target

lock == <<holder, waiters>>
vars == <<count, since, lock, caller, sent>>

TypeOK ==
    /\ count \in Nat
    /\ since \in 0 .. Interval
    /\ holder \in Callers \union {Nobody}
    /\ waiters \in Seq(Callers)
    /\ caller \in [Callers -> Caller]
    /\ sent \in Nat

\* The clock that last_request is compared with has an arbitrary origin.
Init ==
    /\ count = 0
    /\ since \in 0 .. Interval
    /\ holder = Nobody
    /\ waiters = << >>
    /\ caller = [c \in Callers |-> IdleCaller]
    /\ sent = 0

-----------------------------------------------------------------------------
(* take().                                                                  *)

\* The lock (asyncio.Lock) is free, and c is the one to have it: nobody was queued, or
\* it is the first in the queue.
MayEnter(c) ==
    /\ holder = Nobody
    /\ \/ caller[c].pc = "idle" /\ waiters = << >>
       \/ caller[c].pc = "waiting" /\ waiters # << >> /\ Head(waiters) = c

Leave(c) == waiters' = IF caller[c].pc = "waiting" THEN Tail(waiters) ELSE waiters

Moves(c, new) == caller' = [caller EXCEPT ![c] = new]

Wait(c) ==
    /\ caller[c].pc = "idle"
    /\ holder # Nobody \/ waiters # << >>
    /\ waiters' = Append(waiters, c)
    /\ Moves(c, CallerAt("waiting", 0))
    /\ UNCHANGED <<count, since, holder, sent>>

Refuse(c) ==
    /\ MayEnter(c)
    /\ count >= Maximum
    /\ Leave(c)
    /\ Moves(c, IdleCaller)
    /\ UNCHANGED <<count, since, holder, sent>>

\* Mutant: the lock is not held across the sleep.
SleepUnlocked(c) ==
    /\ MayEnter(c)
    /\ count < Maximum
    /\ since < Interval
    /\ Leave(c)
    /\ Moves(c, CallerAt("sleeping", Interval - since))
    /\ UNCHANGED <<count, since, holder, sent>>

Sleep(c) ==
    /\ MayEnter(c)
    /\ count < Maximum
    /\ since < Interval
    /\ Leave(c)
    /\ holder' = c
    /\ Moves(c, CallerAt("sleeping", Interval - since))
    /\ UNCHANGED <<count, since, sent>>

Grant(c) ==
    /\ count' = count + 1
    /\ since' = 0
    /\ Moves(c, CallerAt("sending", 0))
    /\ UNCHANGED sent

GrantAtOnce(c) ==
    /\ MayEnter(c)
    /\ count < Maximum
    /\ since = Interval
    /\ Leave(c)
    /\ Grant(c)
    /\ UNCHANGED holder

\* asyncio.sleep ends, late perhaps but not early.
GrantAfterSleep(c) ==
    /\ caller[c].pc = "sleeping"
    /\ caller[c].left = 0
    /\ holder' = Nobody
    /\ Grant(c)
    /\ UNCHANGED waiters

-----------------------------------------------------------------------------
(* The request that follows a grant.                                        *)

\* Mutant: one redirect more than max_redirects is followed.
RequestOneMore(c) ==
    /\ caller[c].pc = "sending"
    /\ sent' = sent + 1
    /\ \E redirected \in BOOLEAN :
         Moves(c, IF redirected /\ c \in Followers /\ caller[c].hops <= MaxRedirects
                  THEN [caller[c] EXCEPT !.hops = @ + 1]
                  ELSE IdleCaller)
    /\ UNCHANGED <<count, since, lock>>

\* One pass of the loop of ScopedHttpClient.request: the request goes out, and a
\* redirect is followed unless the limit is reached.
Request(c) ==
    /\ caller[c].pc = "sending"
    /\ sent' = sent + 1
    /\ \E redirected \in BOOLEAN :
         Moves(c, IF redirected /\ c \in Followers /\ caller[c].hops < MaxRedirects
                  THEN [caller[c] EXCEPT !.hops = @ + 1]
                  ELSE IdleCaller)
    /\ UNCHANGED <<count, since, lock>>

\* The guard refuses the address, or nothing could be sent.
RequestFails(c) ==
    /\ caller[c].pc = "sending"
    /\ Moves(c, IdleCaller)
    /\ UNCHANGED <<count, since, lock, sent>>

-----------------------------------------------------------------------------

\* Mutant: a cancelled sleeper keeps the lock.
CancelLocked(c) ==
    /\ caller[c].pc # "cancelled"
    /\ Moves(c, CallerAt("cancelled", 0))
    /\ waiters' = RemoveFirst(waiters, c)
    /\ UNCHANGED <<count, since, holder, sent>>

\* The deadline of the engine cancels the coroutine wherever it awaits.
Cancel(c) ==
    /\ caller[c].pc # "cancelled"
    /\ Moves(c, CallerAt("cancelled", 0))
    /\ waiters' = RemoveFirst(waiters, c)
    /\ holder' = IF holder = c THEN Nobody ELSE holder
    /\ UNCHANGED <<count, since, sent>>

Tick ==
    /\ since' = IF since < Interval THEN since + 1 ELSE since
    /\ caller' = [c \in Callers |->
                    [caller[c] EXCEPT !.left = IF @ > 0 THEN @ - 1 ELSE @]]
    /\ UNCHANGED <<count, lock, sent>>

Enter(c) == Refuse(c) \/ Sleep(c) \/ GrantAtOnce(c)

Next ==
    \/ \E c \in Callers : Wait(c)
    \/ \E c \in Callers : Enter(c)
    \/ \E c \in Callers : GrantAfterSleep(c)
    \/ \E c \in Callers : Request(c)
    \/ \E c \in Callers : RequestFails(c)
    \/ \E c \in Callers : Cancel(c)
    \/ Tick

Spec == Init /\ [][Next]_vars

\* The event loop runs whoever may go on, and time passes.
Fairness ==
    /\ \A c \in Callers : WF_vars(Enter(c)) /\ WF_vars(GrantAfterSleep(c))
    /\ WF_vars(Tick)

FairSpec == Spec /\ Fairness

-----------------------------------------------------------------------------
(* Properties.                                                              *)

\* take() grants no more than max_requests and keeps the interval of rate_limit between
\* grants, although it decides before it sleeps and several callers decide at once.
Promise == INSTANCE PacedBudget

KeepsPromise == Promise!Spec

\* A grant stands for at most one request and max_redirects redirects to the target.
RedirectsBounded == sent <= (MaxRedirects + 1) * count

\* Whoever waits for the lock gets its answer or is cancelled: a sleeper that is
\* cancelled, and a caller that is refused, pass the lock on.
WaitersServed == \A c \in Callers : caller[c].pc = "waiting" ~> caller[c].pc # "waiting"
=============================================================================
