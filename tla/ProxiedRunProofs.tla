-------------------------- MODULE ProxiedRunProofs --------------------------
(***************************************************************************)
(* The proxy keeps the promise of its budget, and the requests that its    *)
(* report leaves out are bounded by those that were under way: a request   *)
(* that may still be granted is one that held the job when it was removed, *)
(* and a grant makes it one that may not.  What redirects add to the       *)
(* budget is bounded by the hops that granted requests may still take.     *)
(* The queue of the lock is the callers that wait, so it is never left to  *)
(* nobody, and the types of the proxy follow.                              *)
(***************************************************************************)
EXTENDS ProxiedRun, FiniteSetTheorems, WellFoundedInduction, SequenceTheorems, TLAPS

(* The budget.  The test of the budget and the length of the sleep are     *)
(* still right when the sleeper wakes, because nobody else is granted      *)
(* anything while it holds the lock.                                       *)

\* The part of the type invariant that the argument needs.
Typed ==
    /\ count \in Nat
    /\ since \in 0 .. Interval
    /\ caller \in [Callers -> Caller]

\* Whoever sleeps holds the lock, there is budget left for it, and what is left of its
\* sleep makes up the interval.
SleeperHolds ==
    \A c \in Callers :
        caller[c].pc = "sleeping" =>
            /\ holder = c
            /\ count < Maximum
            /\ caller[c].left + since >= Interval

BudgetInv == Typed /\ SleeperHolds

-----------------------------------------------------------------------------

LEMMA CallerTyped ==
    ASSUME NEW pc \in {"idle", "waiting", "sleeping", "sending", "cancelled"},
           NEW left \in 0 .. Interval
    PROVE  /\ CallerAt(pc, left) \in Caller
           /\ CallerAt(pc, left).pc = pc
           /\ CallerAt(pc, left).left = left
BY ParametersAssumption DEF CallerAt, Caller

LEMMA AwakeTyped ==
    /\ IdleCaller \in Caller /\ IdleCaller.pc = "idle"
    /\ \A pc \in {"waiting", "sending", "cancelled"} :
         CallerAt(pc, 0) \in Caller /\ CallerAt(pc, 0).pc = pc
<1>1. 0 \in 0 .. Interval
  BY ParametersAssumption
<1> QED
  BY <1>1, CallerTyped DEF IdleCaller

\* One caller moves to a state in which it does not sleep, and the lock stays with whoever
\* else holds it.
LEMMA AwakeMoves ==
    ASSUME BudgetInv, NEW c \in Callers, NEW new \in Caller, Moves(c, new),
           new.pc # "sleeping", UNCHANGED <<count, since>>,
           holder' = holder \/ holder = c
    PROVE  BudgetInv'
<1>1. Typed'
  BY DEF BudgetInv, Typed, Moves
<1>2. \A d \in Callers : caller'[d] = IF d = c THEN new ELSE caller[d]
  BY DEF BudgetInv, Typed, Moves
<1>3. SleeperHolds'
  BY <1>2 DEF BudgetInv, SleeperHolds
<1> QED
  BY <1>1, <1>3 DEF BudgetInv

\* One caller is granted its request while no other sleeps.
LEMMA GrantMoves ==
    ASSUME BudgetInv, NEW c \in Callers, Grant(c), holder = Nobody \/ holder = c
    PROVE  BudgetInv'
<1>1. Typed'
  <2>1. CallerAt("sending", 0) \in Caller
    BY AwakeTyped, ParametersAssumption
  <2> QED
    BY <2>1, ParametersAssumption DEF BudgetInv, Typed, Grant, Moves
<1>2. \A d \in Callers : caller'[d].pc # "sleeping"
  <2>1. CallerAt("sending", 0).pc = "sending"
    BY AwakeTyped, ParametersAssumption
  <2>2. \A d \in Callers \ {c} : caller'[d] = caller[d] /\ caller[d].pc # "sleeping"
    BY NobodyAssumption DEF BudgetInv, Typed, SleeperHolds, Grant, Moves
  <2> QED
    BY <2>1, <2>2 DEF BudgetInv, Typed, Grant, Moves
<1> QED
  BY <1>1, <1>2 DEF BudgetInv, SleeperHolds

LEMMA InitHolds == Init => BudgetInv
<1> SUFFICES ASSUME Init PROVE BudgetInv
  OBVIOUS
<1>1. IdleCaller \in Caller /\ IdleCaller.pc # "sleeping"
  BY AwakeTyped
<1>2. caller = [c \in Callers |-> IdleCaller]
  BY DEF Init
<1>3. Typed
  BY <1>1, <1>2 DEF Init, Typed
<1>4. \A c \in Callers : caller[c].pc # "sleeping"
  BY <1>1, <1>2
<1> QED
  BY <1>3, <1>4 DEF BudgetInv, SleeperHolds

LEMMA SleepHolds ==
    ASSUME BudgetInv, NEW c \in Callers, Sleep(c)
    PROVE  BudgetInv'
<1> DEFINE new == CallerAt("sleeping", Interval - since)
<1>1. Interval - since \in 0 .. Interval
  BY ParametersAssumption DEF BudgetInv, Typed
<1>2. new \in Caller /\ new.pc = "sleeping" /\ new.left = Interval - since
  BY <1>1, CallerTyped
<1>3. Moves(c, new)
  BY DEF Sleep
<1> HIDE DEF new
<1>4. Typed'
  BY <1>2, <1>3 DEF BudgetInv, Typed, Sleep, Moves
<1>5. \A d \in Callers \ {c} : caller'[d] = caller[d] /\ caller[d].pc # "sleeping"
  BY <1>3, NobodyAssumption DEF BudgetInv, Typed, SleeperHolds, Sleep, MayEnter, Moves
<1>6. caller'[c] = new
  BY <1>3 DEF BudgetInv, Typed, Moves
<1>7. holder' = c /\ count' < Maximum /\ new.left + since' >= Interval
  BY <1>2, ParametersAssumption DEF Sleep, BudgetInv, Typed
<1> QED
  BY <1>4, <1>5, <1>6, <1>7 DEF BudgetInv, SleeperHolds

LEMMA TickHolds == BudgetInv /\ Tick => BudgetInv'
<1> SUFFICES ASSUME BudgetInv, Tick PROVE BudgetInv'
  OBVIOUS
<1>1. \A c \in Callers :
        /\ caller[c] \in Caller
        /\ caller'[c] \in Caller
        /\ caller'[c].pc = caller[c].pc
        /\ caller[c].left > 0 => caller'[c].left = caller[c].left - 1
        /\ caller[c].left = 0 => caller'[c].left = 0
  BY ParametersAssumption DEF BudgetInv, Typed, Tick, Caller
<1>2. /\ since' \in 0 .. Interval
      /\ since' = Interval \/ since' = since + 1
  BY ParametersAssumption DEF BudgetInv, Typed, Tick
<1>3. Typed'
  BY <1>1, <1>2 DEF BudgetInv, Typed, Tick
<1>4. ASSUME NEW c \in Callers, caller'[c].pc = "sleeping"
      PROVE  holder' = c /\ count' < Maximum /\ caller'[c].left + since' >= Interval
  <2>1. holder = c /\ count < Maximum /\ caller[c].left + since >= Interval
    BY <1>1, <1>4 DEF BudgetInv, SleeperHolds
  <2>2. caller[c].left \in 0 .. Interval /\ caller'[c].left \in 0 .. Interval
    BY <1>1 DEF Caller
  <2>3. caller'[c].left + since' >= Interval
    BY <1>1, <1>2, <2>1, <2>2, ParametersAssumption DEF BudgetInv, Typed
  <2> QED
    BY <2>1, <2>3 DEF Tick, lock
<1> QED
  BY <1>3, <1>4 DEF BudgetInv, SleeperHolds

LEMMA StepHolds == BudgetInv /\ [Next]_vars => BudgetInv'
<1> SUFFICES ASSUME BudgetInv, [Next]_vars PROVE BudgetInv'
  OBVIOUS
<1>a. IdleCaller \in Caller /\ IdleCaller.pc # "sleeping"
  BY AwakeTyped
<1>b. \A pc \in {"waiting", "cancelled"} : /\ CallerAt(pc, 0) \in Caller
                                          /\ CallerAt(pc, 0).pc # "sleeping"
  BY AwakeTyped, ParametersAssumption
<1>1. CASE \E c \in Callers : Wait(c)
  BY <1>1, <1>b, AwakeMoves DEF Wait
<1>2. ASSUME NEW c \in Callers, Enter(c) PROVE BudgetInv'
  <2>1. CASE Refuse(c)
    BY <2>1, <1>a, AwakeMoves DEF Refuse
  <2>2. CASE Sleep(c)
    BY <2>2, SleepHolds
  <2>3. CASE GrantAtOnce(c)
    BY <2>3, GrantMoves DEF GrantAtOnce, MayEnter
  <2> QED
    BY <1>2, <2>1, <2>2, <2>3 DEF Enter
<1>3. ASSUME NEW c \in Callers, GrantAfterSleep(c) PROVE BudgetInv'
  BY <1>3, GrantMoves DEF GrantAfterSleep, BudgetInv, SleeperHolds
<1>4. ASSUME NEW c \in Callers, Request(c) PROVE BudgetInv'
  <2>1. PICK redirected \in BOOLEAN :
          Moves(c, IF redirected /\ c \in Followers /\ caller[c].hops < MaxRedirects
                   THEN [caller[c] EXCEPT !.hops = @ + 1]
                   ELSE IdleCaller)
    BY <1>4 DEF Request
  <2>2. CASE redirected /\ c \in Followers /\ caller[c].hops < MaxRedirects
    <3>1. /\ [caller[c] EXCEPT !.hops = @ + 1] \in Caller
          /\ [caller[c] EXCEPT !.hops = @ + 1].pc = caller[c].pc
      BY <2>2, ParametersAssumption DEF BudgetInv, Typed, Caller
    <3> QED
      BY <1>4, <2>1, <2>2, <3>1, AwakeMoves DEF Request, lock
  <2>3. CASE ~ (redirected /\ c \in Followers /\ caller[c].hops < MaxRedirects)
    BY <1>4, <1>a, <2>1, <2>3, AwakeMoves DEF Request, lock
  <2> QED
    BY <2>2, <2>3
<1>5. CASE \E c \in Callers : RequestFails(c)
  BY <1>5, <1>a, AwakeMoves DEF RequestFails, lock
<1>6. CASE \E c \in Callers : Cancel(c)
  BY <1>6, <1>b, AwakeMoves DEF Cancel
<1>7. CASE UNCHANGED vars
  BY <1>7 DEF vars, lock, BudgetInv, Typed, SleeperHolds
<1> QED
  BY <1>1, <1>2, <1>3, <1>4, <1>5, <1>6, <1>7, TickHolds DEF Next

-----------------------------------------------------------------------------
(* The refinement.                                                          *)

LEMMA StepPromised ==
    BudgetInv /\ [Next]_vars => [Promise!Grant \/ Promise!Tick]_<<count, since>>
<1> SUFFICES ASSUME BudgetInv, [Next]_vars
             PROVE  Promise!Grant \/ Promise!Tick \/ UNCHANGED <<count, since>>
  OBVIOUS
<1>1. ASSUME NEW c \in Callers, GrantAtOnce(c) PROVE Promise!Grant
  BY <1>1 DEF GrantAtOnce, Grant, Promise!Grant
<1>2. ASSUME NEW c \in Callers, GrantAfterSleep(c) PROVE Promise!Grant
  <2>1. count < Maximum /\ caller[c].left + since >= Interval /\ caller[c].left = 0
    BY <1>2 DEF GrantAfterSleep, BudgetInv, SleeperHolds
  <2>2. since = Interval
    BY <2>1, ParametersAssumption DEF BudgetInv, Typed
  <2> QED
    BY <1>2, <2>1, <2>2 DEF GrantAfterSleep, Grant, Promise!Grant
<1>3. CASE Tick
  BY <1>3 DEF Tick, Promise!Tick, BudgetInv, Typed
<1>4. ASSUME NEW c \in Callers,
             \/ Wait(c) \/ Refuse(c) \/ Sleep(c)
             \/ Request(c) \/ RequestFails(c) \/ Cancel(c)
      PROVE  UNCHANGED <<count, since>>
  BY <1>4 DEF Wait, Refuse, Sleep, Request, RequestFails, Cancel
<1> QED
  BY <1>1, <1>2, <1>3, <1>4 DEF Next, Enter, vars

\* However many coroutines ask, and whichever of them are cancelled on the way, take()
\* grants at most max_requests, and Interval apart (RequestBudget.take, ProxyJob.take).
THEOREM BudgetIsKept == Spec => KeepsPromise
<1>1. Init => Promise!Init
  BY DEF Init, Promise!Init
<1> QED
  BY <1>1, InitHolds, StepHolds, StepPromised, PTL DEF Spec, KeepsPromise, Promise!Spec

-----------------------------------------------------------------------------
(* The proxy.                                                               *)

Unserved == {"idle", "waiting", "sleeping"}

\* The requests that hold the job and have not been granted anything yet.
Pending == {c \in admitted : caller[c].pc \in Unserved}

ProxyTyped ==
    /\ BudgetInv
    /\ count <= Maximum
    /\ job \in {"registered", "removed"}
    /\ admitted \subseteq Callers
    /\ IsFiniteSet(admitted)

Accounted ==
    job = "removed" =>
        /\ IsFiniteSet(held)
        /\ reported \in Nat
        /\ count + Cardinality(Pending) <= reported + Cardinality(held)

ProxyInv == ProxyTyped /\ Accounted

-----------------------------------------------------------------------------
(* What a step under the budget does to a request.                          *)

\* Nobody is granted anything, and no request becomes one that may be.
Keeps(c) ==
    /\ count' = count
    /\ caller'[c].pc \in Unserved \ {"idle"} => caller[c].pc \in Unserved

\* An unserved request is granted.
Serves(c) ==
    /\ count' = count + 1
    /\ count < Maximum
    /\ caller[c].pc \in Unserved
    /\ caller'[c].pc = "sending"

Moved(c) == \A d \in Callers \ {c} : caller'[d] = caller[d]

LEMMA MovesOne ==
    ASSUME BudgetInv, NEW c \in Callers, NEW new, Moves(c, new)
    PROVE  Moved(c) /\ caller'[c] = new
BY DEF BudgetInv, Typed, Moves, Moved

LEMMA EnterEffect ==
    ASSUME BudgetInv, NEW c \in Callers, Enter(c)
    PROVE  Moved(c) /\ (Keeps(c) \/ Serves(c))
<1>1. caller[c].pc \in Unserved
  BY DEF Enter, Refuse, Sleep, GrantAtOnce, MayEnter, Unserved
<1>2. CASE Refuse(c)
  BY <1>1, <1>2, MovesOne DEF Refuse, Keeps
<1>3. CASE Sleep(c)
  BY <1>1, <1>3, MovesOne DEF Sleep, Keeps
<1>4. CASE GrantAtOnce(c)
  <2>1. Moved(c) /\ caller'[c] = CallerAt("sending", 0)
    BY <1>4, MovesOne DEF GrantAtOnce, Grant
  <2> QED
    BY <1>1, <1>4, <2>1 DEF GrantAtOnce, Grant, Serves, CallerAt
<1> QED
  BY <1>2, <1>3, <1>4 DEF Enter

LEMMA WakeEffect ==
    ASSUME BudgetInv, NEW c \in Callers, GrantAfterSleep(c)
    PROVE  Moved(c) /\ Serves(c)
<1>1. Moved(c) /\ caller'[c] = CallerAt("sending", 0)
  BY MovesOne DEF GrantAfterSleep, Grant
<1>2. caller[c].pc = "sleeping" /\ count < Maximum
  BY DEF GrantAfterSleep, BudgetInv, SleeperHolds
<1> QED
  BY <1>1, <1>2 DEF GrantAfterSleep, Grant, Serves, CallerAt, Unserved

LEMMA WaitEffect ==
    ASSUME BudgetInv, NEW c \in Callers, Wait(c) \/ Cancel(c)
    PROVE  Moved(c) /\ Keeps(c)
<1>1. CASE Wait(c)
  BY <1>1, MovesOne DEF Wait, Keeps, Unserved
<1>2. CASE Cancel(c)
  BY <1>2, MovesOne DEF Cancel, Keeps, Unserved, CallerAt
<1> QED
  BY <1>1, <1>2

LEMMA SendEffect ==
    ASSUME BudgetInv, NEW c \in Callers, Send(c)
    PROVE  Moved(c) /\ Keeps(c)
<1>1. PICK new \in {IdleCaller, [caller[c] EXCEPT !.hops = @ + 1]} :
        Moves(c, new) /\ caller[c].pc = "sending" /\ count' = count
  BY DEF Send, Request, RequestFails
<1>2. new.pc \in {"idle", "sending"}
  <2>1. CASE new = IdleCaller
    BY <2>1, AwakeTyped
  <2>2. CASE new = [caller[c] EXCEPT !.hops = @ + 1]
    <3>1. caller[c] \in Caller
      BY DEF BudgetInv, Typed
    <3> QED
      BY <1>1, <2>2, <3>1 DEF Caller
  <2> QED
    BY <1>1, <2>1, <2>2
<1>3. Moved(c) /\ caller'[c] = new
  BY <1>1, MovesOne
<1> QED
  BY <1>1, <1>2, <1>3 DEF Keeps, Unserved

\* The four kinds of step that Handle stands for.
HandleSome(c) ==
    \/ Handle(c, Wait(c)) \/ Handle(c, Enter(c)) \/ Handle(c, GrantAfterSleep(c))
    \/ Handle(c, Send(c)) \/ Handle(c, Cancel(c))

LEMMA HandleEffect ==
    ASSUME BudgetInv, NEW c \in Callers, HandleSome(c)
    PROVE  /\ c \in admitted
           /\ admitted' = IF caller'[c].pc \in {"idle", "cancelled"}
                          THEN admitted \ {c} ELSE admitted
           /\ UNCHANGED <<job, reported, held>>
           /\ Moved(c)
           /\ Keeps(c) \/ Serves(c)
<1>1. /\ c \in admitted
      /\ admitted' = IF caller'[c].pc \in {"idle", "cancelled"}
                     THEN admitted \ {c} ELSE admitted
      /\ UNCHANGED <<job, reported, held>>
  BY DEF HandleSome, Handle
<1>2. Wait(c) \/ Enter(c) \/ GrantAfterSleep(c) \/ Send(c) \/ Cancel(c)
  BY DEF HandleSome, Handle
<1>3. Moved(c) /\ (Keeps(c) \/ Serves(c))
  BY <1>2, EnterEffect, WakeEffect, WaitEffect, SendEffect
<1> QED
  BY <1>1, <1>3

-----------------------------------------------------------------------------
(* A step of the proxy is a step of the budget.                             *)

LEMMA ProxyStepIsBudgetStep == [ProxiedNext]_proxiedVars => [Next]_vars
<1> SUFFICES ASSUME [ProxiedNext]_proxiedVars PROVE [Next]_vars
  OBVIOUS
<1>1. CASE \E c \in Callers : Admit(c) \/ RejectBody(c)
  BY <1>1 DEF Admit, RejectBody
<1>2. CASE \E c \in Callers : HandleSome(c)
  BY <1>2 DEF HandleSome, Handle, Send, Next
<1>3. CASE RemoveJob \/ ProxyTick
  BY <1>3 DEF RemoveJob, ProxyTick, Next
<1>4. CASE UNCHANGED proxiedVars
  BY <1>4 DEF proxiedVars
<1> QED
  BY <1>1, <1>2, <1>3, <1>4 DEF ProxiedNext, HandleSome

\* The requests of the tool share the budget of their job as the coroutines of the
\* custom engine share theirs, for any number of connections (wuppie_proxy, ProxyJob).
THEOREM ProxyKeepsPromise == ProxiedSpec => KeepsPromise
<1>1. ProxiedInit => Init
  BY DEF ProxiedInit
<1>2. ProxiedSpec => Spec
  BY <1>1, ProxyStepIsBudgetStep, PTL DEF ProxiedSpec, Spec
<1> QED
  BY <1>2, BudgetIsKept

-----------------------------------------------------------------------------
(* The account.                                                             *)

LEMMA ProxyInitHolds == ProxiedInit => ProxyInv
<1> SUFFICES ASSUME ProxiedInit PROVE ProxyInv
  OBVIOUS
<1>1. BudgetInv
  BY InitHolds DEF ProxiedInit
<1>2. IsFiniteSet({})
  BY FS_EmptySet
<1> QED
  BY <1>1, <1>2, ParametersAssumption
     DEF ProxiedInit, Init, ProxyInv, ProxyTyped, Accounted

LEMMA PendingFinite ==
    ASSUME ProxyTyped
    PROVE  /\ IsFiniteSet(Pending) /\ Cardinality(Pending) \in Nat
           /\ Pending \subseteq admitted
           /\ Cardinality(Pending) <= Cardinality(admitted)
           /\ Cardinality(admitted) \in Nat
BY FS_Subset, FS_CardinalityType DEF ProxyTyped, Pending

\* A grant takes at least its request out of the pending ones.
LEMMA AccountKept ==
    ASSUME ProxyTyped, ProxyTyped', Accounted, job' = job, UNCHANGED <<reported, held>>,
           \/ count' = count /\ Pending' \subseteq Pending
           \/ count' = count + 1 /\ \E c \in Pending : Pending' \subseteq Pending \ {c}
    PROVE  Accounted'
<1> SUFFICES ASSUME job = "removed"
             PROVE  count' + Cardinality(Pending') <= reported + Cardinality(held)
  BY DEF Accounted
<1>1. /\ IsFiniteSet(Pending) /\ Cardinality(Pending) \in Nat
      /\ count \in Nat /\ reported \in Nat /\ Cardinality(held) \in Nat
      /\ count + Cardinality(Pending) <= reported + Cardinality(held)
  BY PendingFinite, FS_CardinalityType DEF Accounted, ProxyTyped, BudgetInv, Typed
<1>2. CASE count' = count /\ Pending' \subseteq Pending
  <2>1. Cardinality(Pending') \in Nat /\ Cardinality(Pending') <= Cardinality(Pending)
    BY <1>1, <1>2, FS_Subset, FS_CardinalityType
  <2> QED
    BY <1>1, <1>2, <2>1
<1>3. ASSUME NEW c \in Pending, count' = count + 1, Pending' \subseteq Pending \ {c}
      PROVE  count' + Cardinality(Pending') <= reported + Cardinality(held)
  <2>1. IsFiniteSet(Pending \ {c}) /\ Cardinality(Pending \ {c}) = Cardinality(Pending) - 1
    BY <1>1, FS_RemoveElement
  <2>2. Cardinality(Pending') \in Nat /\ Cardinality(Pending') <= Cardinality(Pending) - 1
    BY <1>3, <2>1, FS_Subset, FS_CardinalityType
  <2> QED
    BY <1>1, <1>3, <2>2
<1> QED
  BY <1>2, <1>3

LEMMA HandleAccounted ==
    ASSUME ProxyInv, BudgetInv', NEW c \in Callers, HandleSome(c)
    PROVE  ProxyInv'
<1>1. /\ c \in admitted
      /\ admitted' = IF caller'[c].pc \in {"idle", "cancelled"}
                     THEN admitted \ {c} ELSE admitted
      /\ UNCHANGED <<job, reported, held>>
      /\ Moved(c)
      /\ Keeps(c) \/ Serves(c)
  BY HandleEffect DEF ProxyInv, ProxyTyped
<1>2. count \in Nat /\ count' \in Nat
  BY DEF ProxyInv, ProxyTyped, BudgetInv, Typed
<1>3. ProxyTyped'
  <2>1. admitted' \subseteq admitted /\ IsFiniteSet(admitted')
    BY <1>1, FS_Subset DEF ProxyInv, ProxyTyped
  <2> QED
    BY <1>1, <1>2, <2>1, ParametersAssumption DEF ProxyInv, ProxyTyped, Keeps, Serves
<1>4. \A d \in Pending' : d # c => d \in Pending
  BY <1>1 DEF Pending, Moved, ProxyInv, ProxyTyped
<1>5. CASE Keeps(c)
  <2>1. c \in Pending' => c \in Pending
    BY <1>1, <1>5 DEF Pending, Keeps, Unserved
  <2> QED
    BY <1>1, <1>3, <1>4, <1>5, <2>1, AccountKept DEF Keeps, ProxyInv
<1>6. CASE Serves(c)
  <2>1. c \in Pending /\ c \notin Pending'
    BY <1>1, <1>6 DEF Pending, Serves, Unserved
  <2>2. Pending' \subseteq Pending \ {c}
    BY <1>4, <2>1
  <2> QED
    BY <1>1, <1>3, <1>6, <2>1, <2>2, AccountKept DEF Serves, ProxyInv
<1> QED
  BY <1>1, <1>5, <1>6

LEMMA ProxyStepHolds == ProxyInv /\ [ProxiedNext]_proxiedVars => ProxyInv'
<1> SUFFICES ASSUME ProxyInv, [ProxiedNext]_proxiedVars PROVE ProxyInv'
  OBVIOUS
<1>0. BudgetInv'
  BY ProxyStepIsBudgetStep, StepHolds DEF ProxyInv, ProxyTyped
<1>1. ASSUME NEW c \in Callers, Admit(c) PROVE ProxyInv'
  <2>1. ProxyTyped'
    BY <1>0, <1>1, FS_AddElement DEF ProxyInv, ProxyTyped, Admit, vars
  <2> QED
    BY <1>1, <2>1 DEF ProxyInv, Accounted, Admit
<1>2. ASSUME NEW c \in Callers, RejectBody(c) PROVE ProxyInv'
  <2>1. ProxyTyped'
    BY <1>0, <1>2, FS_Subset DEF ProxyInv, ProxyTyped, RejectBody, vars
  <2>2. Pending' \subseteq Pending
    BY <1>2 DEF RejectBody, Pending, vars
  <2> QED
    BY <1>2, <2>1, <2>2, AccountKept DEF RejectBody, ProxyInv, vars
<1>3. CASE RemoveJob
  <2>1. ProxyTyped'
    BY <1>0, <1>3 DEF ProxyInv, ProxyTyped, RemoveJob, vars
  <2>2. count' = count /\ reported' = count /\ held' = admitted /\ Pending' = Pending
    BY <1>3, ParametersAssumption
       DEF RemoveJob, vars, Pending, ProxyInv, ProxyTyped, BudgetInv, Typed
  <2>3. count \in Nat
    BY DEF ProxyInv, ProxyTyped, BudgetInv, Typed
  <2> QED
    BY <2>1, <2>2, <2>3, PendingFinite DEF ProxyInv, ProxyTyped, Accounted
<1>4. CASE ProxyTick
  <2>1. ProxyTyped'
    BY <1>0, <1>4 DEF ProxyInv, ProxyTyped, ProxyTick, proxy, Tick
  <2>2. \A c \in Callers : caller'[c].pc = caller[c].pc
    BY <1>4 DEF ProxyTick, Tick, ProxyInv, ProxyTyped, BudgetInv, Typed, Caller
  <2>3. Pending' = Pending /\ count' = count
    BY <1>4, <2>2 DEF ProxyTick, proxy, Tick, Pending, ProxyInv, ProxyTyped
  <2> QED
    BY <1>4, <2>1, <2>3, AccountKept DEF ProxyTick, proxy, ProxyInv
<1>5. CASE UNCHANGED proxiedVars
  BY <1>0, <1>5 DEF proxiedVars, vars, proxy, ProxyInv, ProxyTyped, Accounted, Pending
<1> QED
  BY <1>0, <1>1, <1>2, <1>3, <1>4, <1>5, HandleAccounted DEF ProxiedNext, HandleSome

\* Whatever the tool sends and whenever it ends, the requests that reach the target and
\* are missing in request_count are no more than those that held the job when run took
\* it out of PROXY_JOBS.
THEOREM UncountedAreBounded == ProxiedSpec => []UncountedIsBounded
<1>1. ProxyInv => UncountedIsBounded
  <2> SUFFICES ASSUME ProxyInv, job = "removed"
               PROVE  count <= reported + Cardinality(held)
    BY DEF UncountedIsBounded
  <2>1. Cardinality(Pending) \in Nat /\ count \in Nat /\ reported \in Nat
        /\ Cardinality(held) \in Nat
        /\ count + Cardinality(Pending) <= reported + Cardinality(held)
    BY PendingFinite, FS_CardinalityType
       DEF ProxyInv, ProxyTyped, Accounted, BudgetInv, Typed
  <2> QED
    BY <2>1
<1> QED
  BY <1>1, ProxyInitHolds, ProxyStepHolds, PTL DEF ProxiedSpec

-----------------------------------------------------------------------------
(* The redirects.  A grant pays for every hop its request may take: what   *)
(* was sent and what may still be sent never exceed what was granted.      *)

Hops == 0 .. MaxRedirects

\* The hops that the requests under way may still take to the target.
Owed == {hop \in Callers \X Hops :
            caller[hop[1]].pc = "sending" /\ hop[2] >= caller[hop[1]].hops}

Covered ==
    /\ IsFiniteSet(Owed)
    /\ sent + Cardinality(Owed) <= (MaxRedirects + 1) * count

RedirectInv == BudgetInv /\ sent \in Nat /\ Covered

LEMMA OwedCounts ==
    ASSUME RedirectInv
    PROVE  /\ Cardinality(Owed) \in Nat /\ sent \in Nat /\ count \in Nat
           /\ MaxRedirects + 1 \in Nat /\ (MaxRedirects + 1) * count \in Nat
BY FS_CardinalityType, ParametersAssumption
   DEF RedirectInv, Covered, BudgetInv, Typed

\* Who else has hops left has the same ones.
LEMMA OwedMoves ==
    ASSUME BudgetInv, NEW c \in Callers, NEW new, Moves(c, new)
    PROVE  /\ \A hop \in Owed' : hop[1] # c => hop \in Owed
           /\ \A hop \in Owed' : hop[1] = c => new.pc = "sending" /\ hop[2] >= new.hops
BY MovesOne DEF Owed, Moved

\* A step that sends nothing and gives nobody more hops.
LEMMA NothingSent ==
    ASSUME RedirectInv, BudgetInv', UNCHANGED <<count, sent>>, Owed' \subseteq Owed
    PROVE  RedirectInv'
<1>1. /\ IsFiniteSet(Owed') /\ Cardinality(Owed') \in Nat
      /\ Cardinality(Owed') <= Cardinality(Owed)
  BY FS_Subset, FS_CardinalityType DEF RedirectInv, Covered
<1>2. Covered'
  BY <1>1, OwedCounts DEF RedirectInv, Covered
<1> QED
  BY <1>2 DEF RedirectInv

\* One caller stops, or waits, without sending anything.
LEMMA OtherwiseMoves ==
    ASSUME RedirectInv, BudgetInv', NEW c \in Callers, NEW new, Moves(c, new),
           new.pc # "sending", UNCHANGED <<count, sent>>
    PROVE  RedirectInv'
<1>1. Owed' \subseteq Owed
  BY OwedMoves DEF RedirectInv
<1> QED
  BY <1>1, NothingSent

\* A request that goes out takes the next of the hops it may take.
LEMMA HopTaken ==
    ASSUME RedirectInv, BudgetInv', NEW c \in Callers, Request(c)
    PROVE  RedirectInv'
<1> DEFINE next == <<c, caller[c].hops>>
<1>1. caller[c] \in Caller /\ caller[c].pc = "sending" /\ caller[c].hops \in Hops
  BY DEF RedirectInv, BudgetInv, Typed, Request, Caller, Hops
<1>2. next \in Owed
  BY <1>1, ParametersAssumption DEF Owed, Hops
<1>3. PICK new \in {IdleCaller, [caller[c] EXCEPT !.hops = @ + 1]} : Moves(c, new)
  BY DEF Request
<1>4. new.pc = "sending" => new.hops = caller[c].hops + 1
  <2>1. IdleCaller.pc # "sending"
    BY AwakeTyped
  <2>2. [caller[c] EXCEPT !.hops = @ + 1].hops = caller[c].hops + 1
    BY <1>1 DEF Caller
  <2> QED
    BY <1>3, <2>1, <2>2
<1>5. Owed' \subseteq Owed \ {next}
  <2> SUFFICES ASSUME NEW hop \in Owed' PROVE hop \in Owed /\ hop # next
    OBVIOUS
  <2>1. CASE hop[1] # c
    BY <1>3, <2>1, OwedMoves DEF RedirectInv
  <2>2. CASE hop[1] = c
    <3>1. hop[2] >= caller[c].hops + 1
      BY <1>3, <1>4, <2>2, OwedMoves DEF RedirectInv
    <3>2. hop \in Callers \X Hops /\ hop[2] \in Int /\ caller[c].hops \in Int
      BY <1>1, ParametersAssumption DEF Owed, Hops
    <3> QED
      BY <1>1, <2>2, <3>1, <3>2 DEF Owed
  <2> QED
    BY <2>1, <2>2
<1> HIDE DEF next
<1>6. IsFiniteSet(Owed \ {next}) /\ Cardinality(Owed \ {next}) = Cardinality(Owed) - 1
  BY <1>2, FS_RemoveElement DEF RedirectInv, Covered
<1>7. /\ IsFiniteSet(Owed') /\ Cardinality(Owed') \in Nat
      /\ Cardinality(Owed') <= Cardinality(Owed) - 1
  BY <1>5, <1>6, FS_Subset, FS_CardinalityType
<1>8. sent' = sent + 1 /\ count' = count
  BY DEF Request
<1>9. Covered' /\ sent' \in Nat
  BY <1>7, <1>8, OwedCounts DEF RedirectInv, Covered
<1> QED
  BY <1>9 DEF RedirectInv

\* A grant pays for one request and max_redirects redirects.
LEMMA GrantPays ==
    ASSUME RedirectInv, BudgetInv', NEW c \in Callers, Grant(c)
    PROVE  RedirectInv'
<1>1. count' = count + 1 /\ sent' = sent /\ Moves(c, CallerAt("sending", 0))
  BY DEF Grant
<1>2. Owed' \subseteq Owed \union ({c} \X Hops)
  <2> SUFFICES ASSUME NEW hop \in Owed', hop \notin Owed PROVE hop \in {c} \X Hops
    OBVIOUS
  <2>1. hop \in Callers \X Hops
    BY DEF Owed
  <2>2. hop[1] = c
    BY <1>1, OwedMoves DEF RedirectInv
  <2> QED
    BY <2>1, <2>2
<1>3. IsFiniteSet({c} \X Hops) /\ Cardinality({c} \X Hops) = MaxRedirects + 1
  <2>1. IsFiniteSet(Hops) /\ Cardinality(Hops) = MaxRedirects + 1
    BY FS_Interval, ParametersAssumption DEF Hops
  <2>2. IsFiniteSet({c}) /\ Cardinality({c}) = 1
    BY FS_Singleton
  <2>3. /\ IsFiniteSet({c} \X Hops)
        /\ Cardinality({c} \X Hops) = Cardinality({c}) * Cardinality(Hops)
    BY <2>1, <2>2, FS_Product
  <2> QED
    BY <2>1, <2>2, <2>3, ParametersAssumption
<1> DEFINE granted == {c} \X Hops
<1>4. IsFiniteSet(granted) /\ Cardinality(granted) = MaxRedirects + 1
  BY <1>3
<1>5. Owed' \subseteq Owed \union granted
  BY <1>2
<1> HIDE DEF granted
<1>6. /\ IsFiniteSet(Owed \union granted)
      /\ Cardinality(Owed \union granted) <= Cardinality(Owed) + (MaxRedirects + 1)
  <2>1. IsFiniteSet(Owed) /\ Cardinality(Owed) \in Nat
    BY OwedCounts DEF RedirectInv, Covered
  <2>2. /\ IsFiniteSet(Owed \union granted)
        /\ Cardinality(Owed \union granted)
             = Cardinality(Owed) + Cardinality(granted) - Cardinality(Owed \intersect granted)
    BY <1>4, <2>1, FS_Union
  <2>3. Cardinality(Owed \intersect granted) \in Nat
    BY <1>4, FS_Subset, FS_CardinalityType
  <2> QED
    BY <1>4, <2>1, <2>2, <2>3, OwedCounts
<1>7. /\ IsFiniteSet(Owed') /\ Cardinality(Owed') \in Nat
      /\ Cardinality(Owed') <= Cardinality(Owed \union granted)
  BY <1>5, <1>6, FS_Subset, FS_CardinalityType
<1>8. Cardinality(Owed \union granted) \in Nat
  BY <1>6, FS_CardinalityType
<1>9. (MaxRedirects + 1) * (count + 1) = (MaxRedirects + 1) * count + (MaxRedirects + 1)
  BY OwedCounts
<1>10. Covered'
  <2>1. sent + Cardinality(Owed) <= (MaxRedirects + 1) * count
    BY DEF RedirectInv, Covered
  <2>2. sent + Cardinality(Owed') <= (MaxRedirects + 1) * (count + 1)
    BY <1>6, <1>7, <1>8, <1>9, <2>1, OwedCounts
  <2> QED
    BY <1>1, <1>7, <2>2 DEF Covered
<1> QED
  BY <1>1, <1>10 DEF RedirectInv

LEMMA RedirectInit == Init => RedirectInv
<1> SUFFICES ASSUME Init PROVE RedirectInv
  OBVIOUS
<1>1. IdleCaller.pc # "sending"
  BY AwakeTyped
<1>2. Owed = {}
  BY <1>1 DEF Init, Owed
<1>3. IsFiniteSet(Owed) /\ Cardinality(Owed) = 0
  BY <1>2, FS_EmptySet
<1> QED
  BY <1>3, InitHolds, ParametersAssumption DEF Init, RedirectInv, Covered

LEMMA RedirectStep == RedirectInv /\ [Next]_vars => RedirectInv'
<1> SUFFICES ASSUME RedirectInv, [Next]_vars PROVE RedirectInv'
  OBVIOUS
<1>0. BudgetInv'
  BY StepHolds DEF RedirectInv
<1>a. IdleCaller.pc # "sending"
  BY AwakeTyped
<1>b. /\ CallerAt("waiting", 0).pc # "sending" /\ CallerAt("cancelled", 0).pc # "sending"
      /\ CallerAt("sleeping", Interval - since).pc # "sending"
  BY DEF CallerAt
<1>1. CASE \E c \in Callers : Wait(c) \/ Cancel(c)
  BY <1>0, <1>1, <1>b, OtherwiseMoves DEF Wait, Cancel
<1>2. ASSUME NEW c \in Callers, Enter(c) PROVE RedirectInv'
  <2>1. CASE Refuse(c)
    BY <1>0, <2>1, <1>a, OtherwiseMoves DEF Refuse
  <2>2. CASE Sleep(c)
    BY <1>0, <2>2, <1>b, OtherwiseMoves DEF Sleep
  <2>3. CASE GrantAtOnce(c)
    BY <1>0, <2>3, GrantPays DEF GrantAtOnce
  <2> QED
    BY <1>2, <2>1, <2>2, <2>3 DEF Enter
<1>3. CASE \E c \in Callers : GrantAfterSleep(c)
  BY <1>0, <1>3, GrantPays DEF GrantAfterSleep
<1>4. CASE \E c \in Callers : Request(c)
  BY <1>0, <1>4, HopTaken
<1>5. CASE \E c \in Callers : RequestFails(c)
  BY <1>0, <1>5, <1>a, OtherwiseMoves DEF RequestFails
<1>6. CASE Tick
  <2>1. \A c \in Callers : caller'[c].pc = caller[c].pc /\ caller'[c].hops = caller[c].hops
    BY <1>6 DEF Tick, RedirectInv, BudgetInv, Typed, Caller
  <2>2. Owed' \subseteq Owed
    BY <2>1 DEF Owed
  <2> QED
    BY <1>0, <1>6, <2>2, NothingSent DEF Tick
<1>7. CASE UNCHANGED vars
  <2>1. Owed' \subseteq Owed
    BY <1>7 DEF vars, Owed
  <2> QED
    BY <1>0, <1>7, <2>1, NothingSent DEF vars
<1> QED
  BY <1>1, <1>2, <1>3, <1>4, <1>5, <1>6, <1>7 DEF Next

\* A grant of the budget stands for at most one request and max_redirects redirects,
\* for any number of callers whose requests are under way at once
\* (ScopedHttpClient.request).
THEOREM RedirectsAreBounded == Spec => []RedirectsBounded
<1>1. RedirectInv => RedirectsBounded
  <2> SUFFICES ASSUME RedirectInv PROVE sent <= (MaxRedirects + 1) * count
    BY DEF RedirectsBounded
  <2>1. sent + Cardinality(Owed) <= (MaxRedirects + 1) * count
    BY DEF RedirectInv, Covered
  <2> QED
    BY <2>1, OwedCounts
<1> QED
  BY <1>1, RedirectInit, RedirectStep, PTL DEF Spec

\* The same of the requests of a tool that reach the target through the proxy
\* (wuppie_proxy).
THEOREM ProxyRedirectsAreBounded == ProxiedSpec => []RedirectsBounded
<1>1. ProxiedInit => Init
  BY DEF ProxiedInit
<1>2. ProxiedSpec => Spec
  BY <1>1, ProxyStepIsBudgetStep, PTL DEF ProxiedSpec, Spec
<1> QED
  BY <1>2, RedirectsAreBounded

-----------------------------------------------------------------------------
(* The lock and the types.                                                  *)

\* The callers that wait are those in the queue of the lock, each of them once.
Queued ==
    /\ waiters \in Seq(Callers)
    /\ \A c \in Callers : caller[c].pc = "waiting" <=> \E i \in DOMAIN waiters : waiters[i] = c
    /\ \A i, j \in DOMAIN waiters : waiters[i] = waiters[j] => i = j

QueueInv == BudgetInv /\ Queued

LEMMA Least ==
    ASSUME NEW T \in SUBSET Nat, T # {}
    PROVE  Min(T) \in T /\ \A y \in T : Min(T) <= y
<1> DEFINE below(n) == 0 .. n
           segments == {below(n) : n \in T}
           smaller == StrictSubsetOrdering(Nat)
<1>1. IsWellFoundedOn(smaller, FiniteSubsetsOf(Nat))
  BY FS_StrictSubsetOrderingWellFounded
<1>2. \A n \in Nat : below(n) \subseteq Nat /\ below(n) \in FiniteSubsetsOf(Nat)
  BY FS_Interval DEF FiniteSubsetsOf
<1>3. segments \subseteq FiniteSubsetsOf(Nat) /\ segments # {}
  BY <1>2
<1>4. PICK s \in segments : \A t \in segments : ~ (<<t, s>> \in smaller)
  BY <1>1, <1>3, WFMin
<1>5. PICK x \in T : s = below(x)
  OBVIOUS
<1>6. ASSUME NEW y \in T, y < x PROVE FALSE
  <2>1. below(y) \subseteq below(x) /\ x \in below(x) /\ x \notin below(y)
    BY <1>6
  <2>2. <<below(y), below(x)>> \in smaller
    BY <1>2, <2>1 DEF StrictSubsetOrdering
  <2> QED
    BY <1>4, <1>5, <2>2
<1>7. \E z \in T : \A y \in T : z <= y
  BY <1>6
<1> QED
  BY <1>7 DEF Min

\* A sequence loses one occurrence of e, if it has one.
LEMMA RemoveFirstIs ==
    ASSUME NEW S, NEW s \in Seq(S), NEW e
    PROVE  \/ /\ \E k \in DOMAIN s :
                   /\ s[k] = e
                   /\ Len(RemoveFirst(s, e)) = Len(s) - 1
                   /\ \A i \in 1 .. Len(s) - 1 :
                        RemoveFirst(s, e)[i] = IF i < k THEN s[i] ELSE s[i + 1]
              /\ RemoveFirst(s, e) \in Seq(S)
           \/ RemoveFirst(s, e) = s /\ \A k \in DOMAIN s : s[k] # e
<1>0. DOMAIN s = 1 .. Len(s) /\ Len(s) \in Nat
  OBVIOUS
<1>1. CASE \A k \in 1 .. Len(s) : s[k] # e
  <2>1. RemoveFirst(s, e) = s
    BY <1>1 DEF RemoveFirst
  <2> QED
    BY <1>0, <1>1, <2>1
<1>2. CASE \E k \in 1 .. Len(s) : s[k] = e
  <2> DEFINE places == {i \in 1 .. Len(s) : s[i] = e}
             k == Min(places)
             before == SubSeq(s, 1, k - 1)
             after == SubSeq(s, k + 1, Len(s))
  <2>1. k \in 1 .. Len(s) /\ s[k] = e
    <3>1. places \in SUBSET Nat /\ places # {}
      BY <1>2
    <3> QED
      BY <3>1, Least
  <2>2. RemoveFirst(s, e) = before \o after
    BY <1>2 DEF RemoveFirst, RemoveAt, SelectInSeq
  <2> HIDE DEF k
  <2>3. Len(s) \in Nat /\ k \in Nat /\ \A i \in 1 .. Len(s) : s[i] \in S
    BY <2>1
  <2>4. /\ before \in Seq(S) /\ Len(before) = k - 1
        /\ \A i \in 1 .. k - 1 : before[i] = s[i]
    BY <2>1, <2>3, SubSeqProperties
  <2>5. /\ after \in Seq(S) /\ Len(after) = Len(s) - k
        /\ \A i \in 1 .. Len(s) - k : after[i] = s[k + i]
    <3>1. \A i \in k + 1 .. Len(s) : s[i] \in S
      BY <2>1, <2>3
    <3>2. /\ after \in Seq(S)
          /\ Len(after) = IF k + 1 <= Len(s) THEN Len(s) - (k + 1) + 1 ELSE 0
          /\ \A i \in 1 .. Len(s) - (k + 1) + 1 : after[i] = s[k + 1 + i - 1]
      BY <2>3, <3>1, SubSeqProperties
    <3> QED
      BY <2>1, <2>3, <3>2
  <2> HIDE DEF before, after
  <2>6. /\ before \o after \in Seq(S)
        /\ Len(before \o after) = Len(before) + Len(after)
        /\ \A i \in 1 .. Len(before) + Len(after) :
             (before \o after)[i] = IF i <= Len(before) THEN before[i]
                                   ELSE after[i - Len(before)]
    BY <2>4, <2>5, ConcatProperties
  <2>7. Len(before) + Len(after) = Len(s) - 1
    BY <2>1, <2>3, <2>4, <2>5
  <2>8. \A i \in 1 .. Len(s) - 1 : (before \o after)[i] = IF i < k THEN s[i] ELSE s[i + 1]
    <3> SUFFICES ASSUME NEW i \in 1 .. Len(s) - 1
                 PROVE  (before \o after)[i] = IF i < k THEN s[i] ELSE s[i + 1]
      OBVIOUS
    <3>1. CASE i < k
      <4>1. i \in 1 .. k - 1 /\ i <= Len(before)
        BY <2>3, <2>4, <3>1
      <4> QED
        BY <2>4, <2>6, <2>7, <3>1, <4>1
    <3>2. CASE ~ (i < k)
      <4>1. /\ i - (k - 1) \in 1 .. Len(s) - k /\ k + (i - (k - 1)) = i + 1
            /\ ~ (i <= Len(before)) /\ Len(before) = k - 1
        BY <2>1, <2>3, <2>4, <3>2
      <4>2. (before \o after)[i] = after[i - (k - 1)]
        BY <2>6, <2>7, <4>1
      <4>3. after[i - (k - 1)] = s[i + 1]
        BY <2>5, <4>1
      <4> QED
        BY <3>2, <4>2, <4>3
    <3> QED
      BY <3>1, <3>2
  <2>9. k \in DOMAIN s
    BY <1>0, <2>1
  <2> QED
    BY <2>1, <2>2, <2>6, <2>7, <2>8, <2>9
<1> QED
  BY <1>1, <1>2

\* The queue without its place k.
Loses(s, t, k) ==
    /\ Len(t) = Len(s) - 1
    /\ \A i \in 1 .. Len(s) - 1 : t[i] = IF i < k THEN s[i] ELSE s[i + 1]

LEMMA LosesOne ==
    ASSUME NEW s \in Seq(Callers), NEW t \in Seq(Callers), NEW k \in DOMAIN s, Loses(s, t, k),
           \A i, j \in DOMAIN s : s[i] = s[j] => i = j
    PROVE  /\ \A i, j \in DOMAIN t : t[i] = t[j] => i = j
           /\ \A c : (\E i \in DOMAIN t : t[i] = c) <=> c # s[k] /\ \E i \in DOMAIN s : s[i] = c
<1> DEFINE old(i) == IF i < k THEN i ELSE i + 1
<1>1. /\ DOMAIN s = 1 .. Len(s) /\ Len(s) \in Nat
      /\ DOMAIN t = 1 .. Len(s) - 1
  BY DEF Loses
<1>2. \A i \in DOMAIN t : old(i) \in DOMAIN s \ {k} /\ t[i] = s[old(i)]
  BY <1>1 DEF Loses
<1>3. \A i, j \in DOMAIN t : old(i) = old(j) => i = j
  BY <1>1
<1>4. \A j \in DOMAIN s \ {k} : \E i \in DOMAIN t : old(i) = j
  <2> SUFFICES ASSUME NEW j \in DOMAIN s \ {k} PROVE \E i \in DOMAIN t : old(i) = j
    OBVIOUS
  <2>1. CASE j < k
    <3>1. j \in DOMAIN t /\ old(j) = j
      BY <1>1, <2>1
    <3> QED
      BY <3>1
  <2>2. CASE j > k
    <3>1. j - 1 \in DOMAIN t /\ old(j - 1) = j
      BY <1>1, <2>2
    <3> QED
      BY <3>1
  <2> QED
    BY <1>1, <2>1, <2>2
<1> HIDE DEF old
<1>5. \A i, j \in DOMAIN t : t[i] = t[j] => i = j
  BY <1>2, <1>3
<1>6. \A c : (\E i \in DOMAIN t : t[i] = c) => c # s[k] /\ \E i \in DOMAIN s : s[i] = c
  BY <1>2
<1>7. \A c : c # s[k] /\ (\E i \in DOMAIN s : s[i] = c) => \E i \in DOMAIN t : t[i] = c
  BY <1>2, <1>4
<1> QED
  BY <1>5, <1>6, <1>7

\* Nobody comes or goes.
LEMMA QueueStays ==
    ASSUME Queued, waiters' = waiters,
           \A c \in Callers : caller'[c].pc = "waiting" <=> caller[c].pc = "waiting"
    PROVE  Queued'
BY DEF Queued

\* A caller that moves on leaves the queue alone, if it neither waited nor will wait.
LEMMA OthersWait ==
    ASSUME QueueInv, NEW c \in Callers, NEW new, Moves(c, new), waiters' = waiters,
           caller[c].pc # "waiting", new.pc # "waiting"
    PROVE  Queued'
<1>1. \A d \in Callers : caller'[d] = IF d = c THEN new ELSE caller[d]
  BY DEF QueueInv, BudgetInv, Typed, Moves
<1> QED
  BY <1>1, QueueStays DEF QueueInv

\* A caller at place k of the queue leaves it.
LEMMA OneLeaves ==
    ASSUME QueueInv, NEW c \in Callers, NEW new, Moves(c, new), new.pc # "waiting",
           waiters' \in Seq(Callers),
           NEW k \in DOMAIN waiters, waiters[k] = c, Loses(waiters, waiters', k)
    PROVE  Queued'
<1>1. \A d \in Callers : caller'[d] = IF d = c THEN new ELSE caller[d]
  BY DEF QueueInv, BudgetInv, Typed, Moves
<1>2. /\ \A i, j \in DOMAIN waiters' : waiters'[i] = waiters'[j] => i = j
      /\ \A d : (\E i \in DOMAIN waiters' : waiters'[i] = d)
                 <=> d # c /\ \E i \in DOMAIN waiters : waiters[i] = d
  BY LosesOne DEF QueueInv, Queued
<1> QED
  BY <1>1, <1>2 DEF QueueInv, Queued

LEMMA EntererLeaves ==
    ASSUME QueueInv, NEW c \in Callers, NEW new, MayEnter(c), Leave(c), Moves(c, new),
           new.pc # "waiting"
    PROVE  Queued'
<1>1. CASE caller[c].pc # "waiting"
  <2>1. waiters' = waiters
    BY <1>1 DEF Leave
  <2> QED
    BY <1>1, <2>1, OthersWait
<1>2. CASE caller[c].pc = "waiting"
  <2>1. waiters # << >> /\ Head(waiters) = c /\ waiters' = Tail(waiters)
    BY <1>2 DEF MayEnter, Leave
  <2>2. waiters \in Seq(Callers)
    BY DEF QueueInv, Queued
  <2>3. /\ 1 \in DOMAIN waiters /\ waiters[1] = c /\ waiters' \in Seq(Callers)
        /\ Len(waiters') = Len(waiters) - 1 /\ Len(waiters) \in Nat
        /\ \A i \in 1 .. Len(waiters) - 1 : waiters'[i] = waiters[i + 1]
    BY <2>1, <2>2, HeadTailProperties
  <2>4. Loses(waiters, waiters', 1)
    BY <2>3 DEF Loses
  <2> QED
    BY <2>3, <2>4, OneLeaves
<1> QED
  BY <1>1, <1>2

LEMMA CancelLeaves ==
    ASSUME QueueInv, NEW c \in Callers, Cancel(c)
    PROVE  Queued'
<1>1. /\ Moves(c, CallerAt("cancelled", 0)) /\ waiters' = RemoveFirst(waiters, c)
      /\ CallerAt("cancelled", 0).pc # "waiting"
  BY DEF Cancel, CallerAt
<1>2. waiters \in Seq(Callers)
  BY DEF QueueInv, Queued
<1>3. CASE waiters' = waiters /\ \A k \in DOMAIN waiters : waiters[k] # c
  <2>1. caller[c].pc # "waiting"
    BY <1>3 DEF QueueInv, Queued
  <2> QED
    BY <1>1, <1>3, <2>1, OthersWait
<1>4. ASSUME NEW k \in DOMAIN waiters, waiters[k] = c, Loses(waiters, waiters', k),
             waiters' \in Seq(Callers)
      PROVE  Queued'
  BY <1>1, <1>4, OneLeaves
<1> QED
  BY <1>1, <1>2, <1>3, <1>4, RemoveFirstIs DEF Loses

LEMMA WaitJoins ==
    ASSUME QueueInv, NEW c \in Callers, Wait(c)
    PROVE  Queued'
<1>1. /\ waiters \in Seq(Callers) /\ waiters' = Append(waiters, c)
      /\ caller[c].pc # "waiting"
  BY DEF Wait, QueueInv, Queued
<1>2. /\ waiters' \in Seq(Callers) /\ Len(waiters) \in Nat
      /\ DOMAIN waiters = 1 .. Len(waiters) /\ DOMAIN waiters' = 1 .. Len(waiters) + 1
      /\ \A i \in 1 .. Len(waiters) : waiters'[i] = waiters[i]
      /\ waiters'[Len(waiters) + 1] = c
  BY <1>1, AppendProperties
<1>3. \A i \in DOMAIN waiters : waiters[i] # c
  BY <1>1 DEF QueueInv, Queued
<1>4. \A d \in Callers : caller'[d] = IF d = c THEN CallerAt("waiting", 0) ELSE caller[d]
  BY DEF Wait, QueueInv, BudgetInv, Typed, Moves
<1>5. CallerAt("waiting", 0).pc = "waiting"
  BY DEF CallerAt
<1>6. \A d \in Callers : caller'[d].pc = "waiting" <=> \E i \in DOMAIN waiters' : waiters'[i] = d
  <2>1. \A d : (\E i \in DOMAIN waiters' : waiters'[i] = d)
                 <=> d = c \/ \E i \in DOMAIN waiters : waiters[i] = d
    BY <1>2
  <2> QED
    BY <1>4, <1>5, <2>1 DEF QueueInv, Queued
<1>7. \A i, j \in DOMAIN waiters' : waiters'[i] = waiters'[j] => i = j
  BY <1>2, <1>3 DEF QueueInv, Queued
<1> QED
  BY <1>2, <1>6, <1>7 DEF Queued

LEMMA QueueInit == Init => QueueInv
<1> SUFFICES ASSUME Init PROVE QueueInv
  OBVIOUS
<1>1. IdleCaller.pc # "waiting"
  BY AwakeTyped
<1>2. waiters \in Seq(Callers) /\ DOMAIN waiters = {}
  BY DEF Init
<1> QED
  BY <1>1, <1>2, InitHolds DEF Init, QueueInv, Queued

LEMMA QueueStep == QueueInv /\ [Next]_vars => QueueInv'
<1> SUFFICES ASSUME QueueInv, [Next]_vars PROVE QueueInv'
  OBVIOUS
<1>0. BudgetInv'
  BY StepHolds DEF QueueInv
<1>a. IdleCaller.pc # "waiting" /\ CallerAt("sending", 0).pc # "waiting"
  BY AwakeTyped
<1>b. CallerAt("sleeping", Interval - since).pc # "waiting"
  BY DEF CallerAt
<1>1. ASSUME NEW c \in Callers, Wait(c) PROVE Queued'
  BY <1>1, WaitJoins
<1>2. ASSUME NEW c \in Callers, Enter(c) PROVE Queued'
  BY <1>2, <1>a, <1>b, EntererLeaves DEF Enter, Refuse, Sleep, GrantAtOnce, Grant
<1>3. ASSUME NEW c \in Callers, GrantAfterSleep(c) PROVE Queued'
  BY <1>3, <1>a, OthersWait DEF GrantAfterSleep, Grant
<1>4. ASSUME NEW c \in Callers, Request(c) \/ RequestFails(c) PROVE Queued'
  <2>1. PICK new \in {IdleCaller, [caller[c] EXCEPT !.hops = @ + 1]} :
          Moves(c, new) /\ caller[c].pc = "sending" /\ waiters' = waiters
    BY <1>4 DEF Request, RequestFails, lock
  <2>2. new.pc # "waiting"
    <3>1. caller[c] \in Caller
      BY DEF QueueInv, BudgetInv, Typed
    <3>2. [caller[c] EXCEPT !.hops = @ + 1].pc = caller[c].pc
      BY <3>1 DEF Caller
    <3> QED
      BY <1>a, <2>1, <3>2
  <2> QED
    BY <2>1, <2>2, OthersWait
<1>5. ASSUME NEW c \in Callers, Cancel(c) PROVE Queued'
  BY <1>5, CancelLeaves
<1>6. CASE Tick
  <2>1. \A c \in Callers : caller'[c].pc = caller[c].pc
    BY <1>6 DEF Tick, QueueInv, BudgetInv, Typed, Caller
  <2> QED
    BY <1>0, <1>6, <2>1, QueueStays DEF Tick, lock, QueueInv
<1>7. CASE UNCHANGED vars
  BY <1>0, <1>7, QueueStays DEF vars, lock, QueueInv
<1> QED
  BY <1>0, <1>1, <1>2, <1>3, <1>4, <1>5, <1>6, <1>7 DEF Next, QueueInv

\* The lock is free, or its holder sleeps.
HeldBySleeper ==
    holder # Nobody => holder \in Callers /\ caller[holder].pc = "sleeping"

LockInv == QueueInv /\ HeldBySleeper

LEMMA LockInit == Init => LockInv
BY QueueInit DEF Init, LockInv, HeldBySleeper

\* A step of a caller that is not asleep afterwards and does not hold the lock.
LEMMA HolderStays ==
    ASSUME LockInv, NEW c \in Callers, NEW new, Moves(c, new),
           holder' = Nobody \/ (holder' = holder /\ holder # c)
    PROVE  HeldBySleeper'
BY DEF LockInv, QueueInv, BudgetInv, Typed, HeldBySleeper, Moves

LEMMA LockStep == LockInv /\ [Next]_vars => LockInv'
<1> SUFFICES ASSUME LockInv, [Next]_vars PROVE LockInv'
  OBVIOUS
<1>0. QueueInv'
  BY QueueStep DEF LockInv
<1>a. \A c \in Callers : caller[c].pc # "sleeping" => holder # c
  BY NobodyAssumption DEF LockInv, HeldBySleeper
<1>1. ASSUME NEW c \in Callers, Wait(c) PROVE HeldBySleeper'
  BY <1>1, <1>a, HolderStays DEF Wait
<1>2. ASSUME NEW c \in Callers, Enter(c) PROVE HeldBySleeper'
  <2>1. CASE Sleep(c)
    <3>1. holder' = c /\ caller'[c].pc = "sleeping"
      BY <2>1 DEF Sleep, Moves, LockInv, QueueInv, BudgetInv, Typed, CallerAt
    <3> QED
      BY <3>1 DEF HeldBySleeper
  <2>2. CASE Refuse(c) \/ GrantAtOnce(c)
    BY <2>2 DEF Refuse, GrantAtOnce, MayEnter, HeldBySleeper, Nobody
  <2> QED
    BY <1>2, <2>1, <2>2 DEF Enter
<1>3. ASSUME NEW c \in Callers, GrantAfterSleep(c) PROVE HeldBySleeper'
  BY <1>3 DEF GrantAfterSleep, HeldBySleeper, Nobody
<1>4. ASSUME NEW c \in Callers, Request(c) \/ RequestFails(c) PROVE HeldBySleeper'
  <2>1. PICK new : Moves(c, new) /\ caller[c].pc = "sending" /\ holder' = holder
    BY <1>4 DEF Request, RequestFails, lock
  <2> QED
    BY <1>a, <2>1, HolderStays
<1>5. ASSUME NEW c \in Callers, Cancel(c) PROVE HeldBySleeper'
  <2>1. CASE holder = c
    BY <1>5, <2>1 DEF Cancel, HeldBySleeper, Nobody
  <2>2. CASE holder # c
    BY <1>5, <2>2, HolderStays DEF Cancel
  <2> QED
    BY <2>1, <2>2
<1>6. CASE Tick
  <2>1. \A c \in Callers : caller'[c].pc = caller[c].pc
    BY <1>6 DEF Tick, LockInv, QueueInv, BudgetInv, Typed, Caller
  <2> QED
    BY <1>0, <1>6, <2>1 DEF Tick, lock, LockInv, HeldBySleeper, Nobody
<1>7. CASE UNCHANGED vars
  BY <1>0, <1>7 DEF vars, lock, LockInv, HeldBySleeper, Nobody
<1> QED
  BY <1>0, <1>1, <1>2, <1>3, <1>4, <1>5, <1>6, <1>7 DEF Next, LockInv

\* While anybody waits, the holder of the lock sleeps and will release it, or the lock is
\* free for the first in the queue.
PassedOn ==
    waiters # << >> => \/ holder \in Callers /\ caller[holder].pc = "sleeping"
                       \/ Head(waiters) \in Callers /\ MayEnter(Head(waiters))

\* Whoever waits for the lock is in its queue, once, and nobody else is, since cancelled
\* callers have left it; and no cancellation, refusal or failure leaves a queue behind
\* that nobody will wake (take under asyncio.Lock).
THEOREM LockIsPassedOn == Spec => [](Queued /\ HeldBySleeper /\ PassedOn)
<1>1. LockInv => Queued /\ HeldBySleeper
  BY DEF LockInv, QueueInv
<1>2. ASSUME Queued, HeldBySleeper, waiters # << >>, holder = Nobody
      PROVE  Head(waiters) \in Callers /\ MayEnter(Head(waiters))
  <2>1. waiters \in Seq(Callers) /\ Len(waiters) > 0
    BY <1>2, EmptySeq, LenProperties DEF Queued
  <2>2. 1 \in DOMAIN waiters /\ Head(waiters) = waiters[1] /\ waiters[1] \in Callers
    BY <2>1, LenProperties, ElementOfSeq
  <2>3. caller[waiters[1]].pc = "waiting"
    BY <1>2, <2>2 DEF Queued
  <2> QED
    BY <1>2, <2>2, <2>3 DEF MayEnter
<1>3. Queued /\ HeldBySleeper => PassedOn
  BY <1>2 DEF HeldBySleeper, PassedOn
<1> QED
  BY <1>1, <1>3, LockInit, LockStep, PTL DEF Spec

\* Every request counts once, for any number of them.
LEMMA SentTyped == sent \in Nat /\ [Next]_vars => sent' \in Nat
<1>1. [Next]_vars => sent' = sent \/ sent' = sent + 1
  BY DEF Next, vars, Wait, Enter, Refuse, Sleep, GrantAtOnce, GrantAfterSleep, Grant,
         Request, RequestFails, Cancel, Tick
<1> QED
  BY <1>1

ProxyTypeInv ==
    /\ LockInv
    /\ ProxyInv
    /\ sent \in Nat
    /\ reported \in 0 .. Maximum
    /\ held \subseteq Callers

LEMMA ProxyTypeInit == ProxiedInit => ProxyTypeInv
BY LockInit, ProxyInitHolds, ParametersAssumption DEF ProxiedInit, Init, ProxyTypeInv

LEMMA ProxyTypeStep == ProxyTypeInv /\ [ProxiedNext]_proxiedVars => ProxyTypeInv'
<1> SUFFICES ASSUME ProxyTypeInv, [ProxiedNext]_proxiedVars PROVE ProxyTypeInv'
  OBVIOUS
<1>1. LockInv' /\ (sent \in Nat)'
  BY ProxyStepIsBudgetStep, LockStep, SentTyped DEF ProxyTypeInv
<1>2. ProxyInv'
  BY ProxyStepHolds DEF ProxyTypeInv
<1>3. (reported \in 0 .. Maximum)' /\ (held \subseteq Callers)'
  <2>1. CASE RemoveJob
    BY <2>1, ParametersAssumption
       DEF RemoveJob, ProxyTypeInv, ProxyInv, ProxyTyped, BudgetInv, Typed
  <2>2. CASE ~ RemoveJob
    <3>1. UNCHANGED <<reported, held>>
      BY <2>2 DEF ProxiedNext, proxiedVars, proxy, Admit, RejectBody, Handle, ProxyTick
    <3> QED
      BY <3>1 DEF ProxyTypeInv
  <2> QED
    BY <2>1, <2>2
<1> QED
  BY <1>1, <1>2, <1>3 DEF ProxyTypeInv

\* Every reachable state of the proxy and of its budget is typed; in particular no more is
\* reported than max_requests, and whoever holds the lock or waits for it is a connection.
THEOREM ProxyTypeCorrect == ProxiedSpec => []ProxyTypeOK
<1>1. ProxyTypeInv => ProxyTypeOK
  BY DEF ProxyTypeInv, ProxyTypeOK, TypeOK, LockInv, QueueInv, Queued, HeldBySleeper,
         BudgetInv, Typed, ProxyInv, ProxyTyped
<1> QED
  BY <1>1, ProxyTypeInit, ProxyTypeStep, PTL DEF ProxiedSpec
=============================================================================
