-------------------------------- MODULE Oast --------------------------------
(***************************************************************************)
(* One SSRF check of the custom engine (the ssrf loop of                   *)
(* _input_validation_tests in app/engines/custom.py) against the           *)
(* out-of-band collector (app/oast.py), which keeps one expiring Redis key *)
(* for every token, and a target that may call the callback URL of a       *)
(* mutation at any time after it got it.                                   *)
(*                                                                         *)
(* Every command of a handler to Redis is a step of its own, a handler     *)
(* goes on when its client has given up, and a callback runs between any   *)
(* two of them.                                                            *)
(***************************************************************************)
EXTENDS Integers

CONSTANTS
    MaxPoints,    \* bound: URL-like mutation points of the endpoint
    Polls,        \* how often _oast_hit asks for a token
    MaxCallbacks  \* bound: the callbacks the target may make for one token

ASSUME OastAssumption ==
    /\ MaxPoints \in Nat
    /\ Polls \in Nat \ {0}
    /\ MaxCallbacks \in Nat

Tokens == 1 .. MaxPoints    \* secrets.token_urlsafe: every point has a token of its own

VARIABLES
    configured,  \* both URLs and the key of the collector are set
    points,      \* the URL-like points of this endpoint
    key,         \* the Redis key of each token
    expired,     \* tokens whose key has ever expired
    request,     \* the engine's last request to the collector for each token
    callback,    \* for each token, how many callbacks are at which step of their handler
    mutated,     \* tokens whose URL was sent to the target
    heard,       \* tokens called back while the engine still had a poll to send
    pc,          \* where the engine is in the loop
    point,       \* the point it is at
    poll,        \* polls sent for this point
    verdict,     \* what it knows of each token
    row          \* the status of the ssrf row

collector == <<key, expired, request>>
target == <<callback, mutated, heard>>
engine == <<pc, point, poll, verdict, row>>
vars == <<configured, points, collector, target, engine>>

\* Of a callback: not made yet, on its way to the collector, its token found, stored.
Steps == {"left", "sent", "found", "stored"}

Locations == {"next", "registering", "mutate", "response", "poll", "polling", "sleep",
              "done"}

TypeOK ==
    /\ configured \in BOOLEAN
    /\ points \in 0 .. MaxPoints
    /\ key \in [Tokens -> {"absent", "0", "1"}]
    /\ expired \subseteq Tokens
    /\ request \in [Tokens -> {"none", "register", "registered", "get", "delete",
                               "hit", "miss", "failed"}]
    /\ callback \in [Tokens -> [Steps -> 0 .. MaxCallbacks]]
    /\ mutated \subseteq Tokens
    /\ heard \subseteq Tokens
    /\ pc \in Locations
    /\ point \in 1 .. MaxPoints + 1
    /\ poll \in 0 .. Polls
    /\ verdict \in [Tokens -> {"pending", "error", "clean", "hit"}]
    /\ row \in {"none", "NOT_APPLICABLE", "SKIPPED", "ERROR", "DETECTED", "TESTED"}

Init ==
    /\ configured \in BOOLEAN
    /\ points \in 0 .. MaxPoints
    /\ key = [t \in Tokens |-> "absent"]
    /\ expired = {}
    /\ request = [t \in Tokens |-> "none"]
    /\ callback = [t \in Tokens |->
                     [step \in Steps |-> IF step = "left" THEN MaxCallbacks ELSE 0]]
    /\ mutated = {}
    /\ heard = {}
    /\ pc = "next"
    /\ point = 1
    /\ poll = 0
    /\ verdict = [t \in Tokens |-> "pending"]
    /\ row = "none"

-----------------------------------------------------------------------------
(* The collector serves the engine: register, event. *)

\* A handler of a request of the engine takes a step.
Serve(t, from, to) ==
    /\ request[t] = from
    /\ request' = [request EXCEPT ![t] = to]
    /\ UNCHANGED <<configured, points, target, engine>>

StoreToken(t) ==
    /\ Serve(t, "register", "registered")
    /\ key' = [key EXCEPT ![t] = "0"]
    /\ UNCHANGED expired

\* Mutant: whether the key is there, not what it holds.
ReadEventPresent(t) ==
    /\ Serve(t, "get", IF key[t] # "absent" THEN "delete" ELSE "miss")
    /\ UNCHANGED <<key, expired>>

ReadEvent(t) ==
    /\ Serve(t, "get", IF key[t] = "1" THEN "delete" ELSE "miss")
    /\ UNCHANGED <<key, expired>>

DeleteEvent(t) ==
    /\ Serve(t, "delete", "hit")
    /\ key' = [key EXCEPT ![t] = "absent"]
    /\ UNCHANGED expired

\* Redis does not answer, or the request does not get through to the collector.
ServeFails(t) ==
    /\ request[t] \in {"register", "get", "delete"}
    /\ Serve(t, request[t], "failed")
    /\ UNCHANGED <<key, expired>>

\* The key is 600 seconds old.
Expire(t) ==
    /\ key[t] # "absent"
    /\ key' = [key EXCEPT ![t] = "absent"]
    /\ expired' = expired \union {t}
    /\ UNCHANGED <<configured, points, request, target, engine>>

-----------------------------------------------------------------------------
(* The collector serves the target: callback. *)

\* A callback ends its step "from"; it is answered, or goes on at the step "to".
Call(t, from, to) ==
    /\ callback[t][from] > 0
    /\ callback' = [callback EXCEPT ![t] =
         [step \in Steps |-> IF step = from THEN @[step] - 1
                             ELSE IF step = to THEN @[step] + 1 ELSE @[step]]]
    /\ UNCHANGED <<configured, points, request, mutated, engine>>

SendCallback(t) ==
    /\ t \in mutated
    /\ Call(t, "left", "sent")
    /\ UNCHANGED <<key, expired, heard>>

FindToken(t) ==
    /\ Call(t, "sent", IF key[t] # "absent" THEN "found" ELSE "answered")
    /\ UNCHANGED <<key, expired, heard>>

\* The key may have been consumed or have expired since FindToken: it comes back.
StoreCallback(t) ==
    /\ Call(t, "found", "stored")
    /\ key' = [key EXCEPT ![t] = "1"]
    /\ heard' = IF t = point /\ poll < Polls THEN heard \union {t} ELSE heard
    /\ UNCHANGED expired

CallbackFails(t) ==
    /\ \E step \in {"sent", "found"} : Call(t, step, "answered")
    /\ UNCHANGED <<key, expired, heard>>

-----------------------------------------------------------------------------
(* The engine: the loop over the points, _register_oast, _mutate, _oast_hit. *)

Engine(from, to) ==
    /\ pc = from
    /\ pc' = to
    /\ UNCHANGED <<configured, points, key, expired, callback, heard>>

\* The engine sends a request to the collector.
Ask(handler) ==
    /\ request' = [request EXCEPT ![point] = handler]
    /\ UNCHANGED <<mutated, point, verdict, row>>

\* Mutant: the polls of the next point go on from the count of this one.
JudgeKeepsCount(outcome) ==
    /\ verdict' = [verdict EXCEPT ![point] = outcome]
    /\ point' = point + 1
    /\ UNCHANGED <<request, mutated, poll, row>>

\* The engine is through with its point.
Judge(outcome) ==
    /\ verdict' = [verdict EXCEPT ![point] = outcome]
    /\ point' = point + 1
    /\ poll' = 0
    /\ UNCHANGED <<request, mutated, row>>

Register ==
    /\ configured
    /\ point <= points
    /\ Engine("next", "registering")
    /\ Ask("register")
    /\ UNCHANGED poll

Registered ==
    /\ Engine("registering", "mutate")
    /\ request[point] = "registered"
    /\ UNCHANGED <<request, mutated, point, poll, verdict, row>>

\* An error of the collector, or no answer within three seconds.
RegisterFails ==
    /\ Engine("registering", "next")
    /\ Judge("error")

Mutate ==
    /\ Engine("mutate", "response")
    /\ mutated' = mutated \union {point}
    /\ UNCHANGED <<request, point, poll, verdict, row>>

Respond ==
    /\ Engine("response", "poll")
    /\ UNCHANGED <<request, mutated, point, poll, verdict, row>>

\* The budget is spent, or the target does not answer: _mutate raises, and the rows of
\* this endpoint are made by the handler of the exception.
MutationRaises ==
    /\ pc \in {"mutate", "response"}
    /\ Engine(pc, "done")
    /\ UNCHANGED <<request, mutated, point, poll, verdict, row>>

\* Mutant: the polls are not counted.
PollEndlessly ==
    /\ Engine("poll", "polling")
    /\ Ask("get")
    /\ UNCHANGED poll

Poll ==
    /\ Engine("poll", "polling")
    /\ Ask("get")
    /\ poll' = poll + 1

PollHits ==
    /\ Engine("polling", "next")
    /\ request[point] = "hit"
    /\ Judge("hit")

PollMisses ==
    /\ Engine("polling", "sleep")
    /\ request[point] = "miss"
    /\ poll < Polls
    /\ UNCHANGED <<request, mutated, point, poll, verdict, row>>

Wake ==
    /\ Engine("sleep", "poll")
    /\ UNCHANGED <<request, mutated, point, poll, verdict, row>>

LastPollMisses ==
    /\ Engine("polling", "next")
    /\ request[point] = "miss"
    /\ poll = Polls
    /\ Judge("clean")

\* Mutant: a poll that fails counts as one that saw nothing.
PollFailsQuietly ==
    IF poll < Polls
    THEN /\ Engine("polling", "sleep")
         /\ UNCHANGED <<request, mutated, point, poll, verdict, row>>
    ELSE /\ Engine("polling", "next")
         /\ Judge("clean")

\* An error of the collector, or no answer within three seconds.
PollFails ==
    /\ Engine("polling", "next")
    /\ Judge("error")

Status ==
    IF points = 0 THEN "NOT_APPLICABLE"
    ELSE IF ~ configured THEN "SKIPPED"
    ELSE IF \E t \in 1 .. points : verdict[t] = "error" THEN "ERROR"
    ELSE IF \E t \in 1 .. points : verdict[t] = "hit" THEN "DETECTED"
    ELSE "TESTED"

Report ==
    /\ ~ configured \/ point > points
    /\ Engine("next", "done")
    /\ row' = Status
    /\ UNCHANGED <<request, mutated, point, poll, verdict>>

\* The deadline of the scan cancels the engine in whatever it awaits.
Cancel ==
    /\ pc \notin {"next", "done"}
    /\ Engine(pc, "done")
    /\ UNCHANGED <<request, mutated, point, poll, verdict, row>>

Finished == pc = "done" /\ UNCHANGED vars

-----------------------------------------------------------------------------

EngineStep ==
    \/ Register
    \/ Registered
    \/ RegisterFails
    \/ Mutate
    \/ Respond
    \/ MutationRaises
    \/ Poll
    \/ PollHits
    \/ PollMisses
    \/ Wake
    \/ LastPollMisses
    \/ PollFails
    \/ Report

CollectorStep(t) ==
    \/ StoreToken(t)
    \/ ReadEvent(t)
    \/ DeleteEvent(t)
    \/ ServeFails(t)
    \/ Expire(t)

TargetStep(t) ==
    \/ SendCallback(t)
    \/ FindToken(t)
    \/ StoreCallback(t)
    \/ CallbackFails(t)

Next ==
    \/ EngineStep
    \/ Cancel
    \/ \E t \in Tokens : CollectorStep(t) \/ TargetStep(t)
    \/ Finished

Spec == Init /\ [][Next]_vars

\* The event loop runs the engine, and every request of its clients times out.
FairSpec == Spec /\ WF_vars(EngineStep)

-----------------------------------------------------------------------------

\* A finding is never invented: a hit is reported of a token only after the target was
\* sent its URL and a callback for it was stored (event, callback, _oast_hit).
HitIsTrue ==
    \A t \in Tokens : verdict[t] = "hit" =>
        /\ t \in mutated
        /\ callback[t]["stored"] > 0

\* A callback that was stored before the last poll was sent is never reported as a
\* clean test, although reading the key consumes it and the answer may be lost: the
\* check says DETECTED or ERROR, unless the key expired unread.
NothingMissed == row = "TESTED" => heard \subseteq expired

\* The check always ends, whatever the collector and the target do.
ProbeEnds == <>(pc = "done")
=============================================================================
