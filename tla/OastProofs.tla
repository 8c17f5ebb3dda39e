----------------------------- MODULE OastProofs -----------------------------
(***************************************************************************)
(* HitIsTrue and NothingMissed for any number of points, polls and         *)
(* callbacks.                                                              *)
(*   - Heard: a key, an answer or a verdict that tells of a callback has   *)
(*     one behind it, and only tokens that were sent out are called back.  *)
(*   - InLoop: what the loop of the engine knows at each statement of its  *)
(*     point, of its requests and of its polls.                            *)
(*   - Kept: a callback in time is either in its verdict already, or it is *)
(*     still in its key or in the answer on its way, and the last poll     *)
(*     will not miss it.                                                   *)
(*   - Conserved: a callback is at one step of its handler, so that their  *)
(*     number stays within its bound.                                      *)
(***************************************************************************)
EXTENDS Oast, TLAPS

Waiting == {"response", "poll", "polling", "sleep"}

\* TypeOK without the number of callbacks, which no step needs.
Typed ==
    /\ configured \in BOOLEAN
    /\ points \in 0 .. MaxPoints
    /\ key \in [Tokens -> {"absent", "0", "1"}]
    /\ request \in [Tokens -> {"none", "register", "registered", "get", "delete",
                               "hit", "miss", "failed"}]
    /\ callback \in [Tokens -> [Steps -> Nat]]
    /\ mutated \subseteq Tokens
    /\ heard \subseteq Tokens
    /\ pc \in Locations
    /\ point \in 1 .. MaxPoints + 1
    /\ point > points => point = points + 1
    /\ pc \notin {"next", "done"} => point <= points
    /\ poll \in 0 .. Polls
    /\ pc \in {"poll", "sleep"} => poll < Polls
    /\ pc \in {"next", "registering", "mutate", "response"} => poll = 0
    /\ verdict \in [Tokens -> {"pending", "error", "clean", "hit"}]

Heard ==
    \A t \in Tokens :
        /\ key[t] = "1" => callback[t]["stored"] > 0
        /\ request[t] \in {"delete", "hit"} => callback[t]["stored"] > 0
        /\ verdict[t] = "hit" => callback[t]["stored"] > 0
        /\ \A step \in Steps \ {"left"} : callback[t][step] > 0 => t \in mutated

InLoop ==
    \A t \in Tokens :
        /\ t > point => request[t] = "none"
        /\ t >= point => verdict[t] = "pending"
        /\ t = point =>
             /\ pc = "next" => request[t] = "none"
             /\ pc = "registering" => request[t] \in {"register", "registered", "failed"}
             /\ pc \in {"mutate", "response"} => request[t] = "registered"
             /\ pc = "poll" => request[t] \in {"registered", "miss"}
             /\ pc = "polling" => request[t] \in {"get", "delete", "hit", "miss", "failed"}
             /\ pc = "sleep" => request[t] = "miss"
        /\ t \in mutated =>
             /\ t <= points
             /\ t <= point
             /\ t = point => pc \in Waiting \union {"done"}

Kept ==
    /\ row # "none" => pc = "done"
    /\ row = "TESTED" => point > points /\ heard \subseteq expired
    /\ \A t \in heard \ expired :
         /\ t \in mutated
         /\ pc # "done" =>
              \/ verdict[t] \in {"error", "hit"}
              \/ /\ t = point
                 /\ key[t] = "1" \/ request[t] = "hit"
                 /\ poll = Polls => request[t] # "miss"

-----------------------------------------------------------------------------
(* The two steps many actions share. *)

\* What becomes of the point when it is judged.
LEMMA Judged ==
    ASSUME Typed, pc \notin {"next", "done"}, NEW outcome \in {"error", "clean", "hit"},
           Judge(outcome)
    PROVE  /\ point \in Tokens
           /\ verdict' \in [Tokens -> {"pending", "error", "clean", "hit"}]
           /\ verdict'[point] = outcome
           /\ \A t \in Tokens : t # point => verdict'[t] = verdict[t]
           /\ point' = point + 1
           /\ point' \in 1 .. MaxPoints + 1
           /\ point' > points => point' = points + 1
           /\ poll' = 0 /\ 0 \in 0 .. Polls
<1>1. /\ point \in Tokens /\ point + 1 \in 1 .. MaxPoints + 1
      /\ point + 1 > points => point + 1 = points + 1
      /\ 0 \in 0 .. Polls
  BY OastAssumption DEF Typed, Tokens
<1> QED BY <1>1 DEF Typed, Judge

\* What becomes of the callbacks when one ends a step of its handler.
LEMMA Called ==
    ASSUME Typed, NEW t \in Tokens, NEW from \in Steps, NEW to, to # from, Call(t, from, to)
    PROVE  /\ callback' \in [Tokens -> [Steps -> Nat]]
           /\ \A u \in Tokens : u # t => callback'[u] = callback[u]
           /\ callback[t][from] > 0
           /\ \A step \in Steps :
                /\ callback'[t][step] > 0 => callback[t][step] > 0 \/ step = to
                /\ callback'[t][step] >= callback[t][step] \/ step = from
                /\ step = to => callback'[t][step] > 0
<1> DEFINE after == [step \in Steps |-> IF step = from THEN callback[t][step] - 1
                                       ELSE IF step = to THEN callback[t][step] + 1
                                       ELSE callback[t][step]]
<1>1. callback \in [Tokens -> [Steps -> Nat]] /\ callback[t] \in [Steps -> Nat]
  BY DEF Typed
<1>2. callback[t][from] > 0 /\ \A step \in Steps : callback[t][step] \in Nat
  BY <1>1 DEF Call
<1>3. after \in [Steps -> Nat]
  BY <1>2
<1>4. callback' = [callback EXCEPT ![t] = after]
  BY DEF Call
<1>5. callback'[t] = after /\ callback' \in [Tokens -> [Steps -> Nat]]
  BY <1>1, <1>3, <1>4
<1>6. \A step \in Steps :
        /\ after[step] > 0 => callback[t][step] > 0 \/ step = to
        /\ after[step] >= callback[t][step] \/ step = from
        /\ step = to => after[step] > 0
  BY <1>2
<1> HIDE DEF after
<1> QED BY <1>1, <1>2, <1>4, <1>5, <1>6

\* The ways in which the engine ends with a point.
Judges == RegisterFails \/ PollHits \/ LastPollMisses \/ PollFails

\* Each of them takes the engine to the next point and leaves the collector alone (callback_hit).
LEMMA JudgeEffects ==
    ASSUME Typed, Judges
    PROVE  /\ point \in Tokens /\ point <= points
           /\ pc' = "next" /\ poll' = 0 /\ 0 \in 0 .. Polls
           /\ point' = point + 1
           /\ point' \in 1 .. MaxPoints + 1
           /\ point' > points => point' = points + 1
           /\ verdict' \in [Tokens -> {"pending", "error", "clean", "hit"}]
           /\ \A t \in Tokens : t # point => verdict'[t] = verdict[t]
           /\ verdict'[point] = "hit" => request[point] = "hit"
           /\ \/ verdict'[point] \in {"error", "hit"}
              \/ request[point] = "miss" /\ poll = Polls
           /\ UNCHANGED <<configured, points, collector, target, row>>
<1>1. PICK outcome \in {"error", "clean", "hit"} :
        /\ Judge(outcome)
        /\ outcome = "hit" => request[point] = "hit"
        /\ outcome = "clean" => request[point] = "miss" /\ poll = Polls
  BY DEF Judges, RegisterFails, PollHits, LastPollMisses, PollFails
<1>2. pc \notin {"next", "done"} /\ pc' = "next"
  BY DEF Judges, RegisterFails, PollHits, LastPollMisses, PollFails, Engine
<1>3. UNCHANGED <<configured, points, collector, target, row>>
  BY <1>1 DEF Judges, RegisterFails, PollHits, LastPollMisses, PollFails, Engine, Judge,
     collector, target
<1>4. point <= points
  BY <1>2 DEF Typed
<1> QED BY <1>1, <1>2, <1>3, <1>4, Judged

\* What the target's callbacks change.
LEMMA TargetEffects ==
    ASSUME Typed, Heard, NEW t \in Tokens, TargetStep(t)
    PROVE  /\ callback' \in [Tokens -> [Steps -> Nat]]
           /\ \A u \in Tokens : \A step \in Steps \ {"left"} :
                callback'[u][step] > 0 => u \in mutated
           /\ \A u \in Tokens : callback[u]["stored"] > 0 => callback'[u]["stored"] > 0
           /\ \/ UNCHANGED <<key, heard>>
              \/ /\ key' = [key EXCEPT ![t] = "1"]
                 /\ callback'[t]["stored"] > 0
                 /\ t \in mutated
                 /\ heard' = (IF t = point /\ poll < Polls THEN heard \union {t} ELSE heard)
           /\ UNCHANGED <<configured, points, expired, request, mutated, engine>>
<1>1. PICK from \in Steps, to \in Steps \union {"answered"} :
        /\ Call(t, from, to)
        /\ from # to /\ from # "stored"
        /\ from = "left" => t \in mutated
        /\ to = "stored" <=> StoreCallback(t)
  BY DEF TargetStep, SendCallback, FindToken, StoreCallback, CallbackFails, Call, Steps
<1>2. t \in mutated
  BY <1>1, Called DEF Heard
<1>3. /\ callback' \in [Tokens -> [Steps -> Nat]]
      /\ \A u \in Tokens : u # t => callback'[u] = callback[u]
      /\ \A step \in Steps : callback'[t][step] > 0 => callback[t][step] > 0 \/ step = to
      /\ callback'[t]["stored"] >= callback[t]["stored"]
      /\ to = "stored" => callback'[t]["stored"] > 0
  BY <1>1, Called DEF Steps
<1>4. \A u \in Tokens : \A step \in Steps \ {"left"} : callback'[u][step] > 0 => u \in mutated
  BY <1>2, <1>3 DEF Heard
<1>5. \A u \in Tokens : callback[u]["stored"] > 0 => callback'[u]["stored"] > 0
  <2>1. \A u \in Tokens : callback[u]["stored"] \in Nat /\ callback'[u]["stored"] \in Nat
    BY <1>3 DEF Typed, Steps
  <2> QED BY <1>3, <2>1
<1>6. UNCHANGED <<configured, points, expired, request, mutated, engine>>
  BY DEF TargetStep, SendCallback, FindToken, StoreCallback, CallbackFails, Call
<1>7. \/ UNCHANGED <<key, heard>>
      \/ /\ key' = [key EXCEPT ![t] = "1"]
         /\ StoreCallback(t)
         /\ heard' = (IF t = point /\ poll < Polls THEN heard \union {t} ELSE heard)
  BY DEF TargetStep, SendCallback, FindToken, StoreCallback, CallbackFails
<1> QED BY <1>1, <1>2, <1>3, <1>4, <1>5, <1>6, <1>7

-----------------------------------------------------------------------------
\* Every step keeps the types, and the bounds of the loops.
LEMMA TypedStep ==
    ASSUME Typed, Heard, [Next]_vars
    PROVE  Typed'
<1> USE OastAssumption DEF Typed, Tokens, Steps, Locations
<1>1. CASE Register
  BY <1>1 DEF Register, Engine, Ask
<1>2. CASE Registered
  BY <1>2 DEF Registered, Engine
<1>3. CASE Mutate
  BY <1>3 DEF Mutate, Engine
<1>4. CASE Respond
  BY <1>4 DEF Respond, Engine
<1>5. CASE MutationRaises
  BY <1>5 DEF MutationRaises, Engine
<1>6. CASE Poll
  <2>1. point \in Tokens /\ poll + 1 \in 0 .. Polls
    BY <1>6 DEF Poll, Engine
  <2> QED BY <1>6, <2>1 DEF Poll, Engine, Ask
<1>7. CASE PollMisses
  BY <1>7 DEF PollMisses, Engine
<1>8. CASE Wake
  BY <1>8 DEF Wake, Engine
<1>9. CASE Report
  BY <1>9 DEF Report, Engine, Status
<1>10. CASE Cancel
  BY <1>10 DEF Cancel, Engine
<1>11. ASSUME NEW t \in Tokens, StoreToken(t) PROVE Typed'
  BY <1>11 DEF StoreToken, Serve, target, engine
<1>12. ASSUME NEW t \in Tokens, ReadEvent(t) PROVE Typed'
  BY <1>12 DEF ReadEvent, Serve, target, engine
<1>13. ASSUME NEW t \in Tokens, DeleteEvent(t) PROVE Typed'
  BY <1>13 DEF DeleteEvent, Serve, target, engine
<1>14. ASSUME NEW t \in Tokens, ServeFails(t) PROVE Typed'
  BY <1>14 DEF ServeFails, Serve, target, engine
<1>15. ASSUME NEW t \in Tokens, Expire(t) PROVE Typed'
  BY <1>15 DEF Expire, target, engine
<1>16. CASE Judges
  BY <1>16, JudgeEffects DEF collector, target
<1>17. ASSUME NEW t \in Tokens, TargetStep(t) PROVE Typed'
  <2>1. UNCHANGED <<configured, points, request, mutated, pc, point, poll, verdict>>
    BY <1>17, TargetEffects DEF engine
  <2>2. \/ UNCHANGED <<key, heard>>
        \/ key' = [key EXCEPT ![t] = "1"] /\ heard' \in {heard, heard \union {t}}
    BY <1>17, TargetEffects
  <2>3. key' \in [Tokens -> {"absent", "0", "1"}] /\ heard' \subseteq Tokens
    BY <2>2
  <2>4. callback' \in [Tokens -> [Steps -> Nat]]
    BY <1>17, TargetEffects
  <2> HIDE DEF Tokens, Steps, Locations
  <2> QED BY <2>1, <2>3, <2>4
<1>18. CASE UNCHANGED vars
  BY <1>18 DEF vars, collector, target, engine
<1> QED
  BY <1>1, <1>2, <1>3, <1>4, <1>5, <1>6, <1>7, <1>8, <1>9, <1>10, <1>11, <1>12, <1>13,
     <1>14, <1>15, <1>16, <1>17, <1>18
  DEF Next, EngineStep, CollectorStep, Judges, Finished

\* No step tells of a callback that was not made.
LEMMA HeardStep ==
    ASSUME Typed, Heard, [Next]_vars
    PROVE  Heard'
<1> USE OastAssumption DEF Typed, Heard, Tokens, Steps, Locations
<1>1. CASE Register
  BY <1>1 DEF Register, Engine, Ask
<1>2. CASE Registered
  BY <1>2 DEF Registered, Engine
<1>3. CASE Mutate
  BY <1>3 DEF Mutate, Engine
<1>4. CASE Respond
  BY <1>4 DEF Respond, Engine
<1>5. CASE MutationRaises
  BY <1>5 DEF MutationRaises, Engine
<1>6. CASE Poll
  BY <1>6 DEF Poll, Engine, Ask
<1>7. CASE PollMisses
  BY <1>7 DEF PollMisses, Engine
<1>8. CASE Wake
  BY <1>8 DEF Wake, Engine
<1>9. CASE Report
  BY <1>9 DEF Report, Engine, Status
<1>10. CASE Cancel
  BY <1>10 DEF Cancel, Engine
<1>11. ASSUME NEW t \in Tokens, StoreToken(t) PROVE Heard'
  BY <1>11 DEF StoreToken, Serve, target, engine
<1>12. ASSUME NEW t \in Tokens, ReadEvent(t) PROVE Heard'
  BY <1>12 DEF ReadEvent, Serve, target, engine
<1>13. ASSUME NEW t \in Tokens, DeleteEvent(t) PROVE Heard'
  BY <1>13 DEF DeleteEvent, Serve, target, engine
<1>14. ASSUME NEW t \in Tokens, ServeFails(t) PROVE Heard'
  BY <1>14 DEF ServeFails, Serve, target, engine
<1>15. ASSUME NEW t \in Tokens, Expire(t) PROVE Heard'
  BY <1>15 DEF Expire, target, engine
<1>16. CASE Judges
  BY <1>16, JudgeEffects DEF collector, target
<1>17. ASSUME NEW t \in Tokens, TargetStep(t) PROVE Heard'
  BY <1>17, TargetEffects DEF engine
<1>18. CASE UNCHANGED vars
  BY <1>18 DEF vars, collector, target, engine
<1> QED
  BY <1>1, <1>2, <1>3, <1>4, <1>5, <1>6, <1>7, <1>8, <1>9, <1>10, <1>11, <1>12, <1>13,
     <1>14, <1>15, <1>16, <1>17, <1>18
  DEF Next, EngineStep, CollectorStep, Judges, Finished

\* Every step of the loop leaves its point and its request where the next expects them.
LEMMA InLoopStep ==
    ASSUME Typed, InLoop, Heard, [Next]_vars
    PROVE  InLoop'
<1> USE OastAssumption DEF Typed, InLoop, Heard, Tokens, Locations, Waiting, Steps
<1>1. CASE Register
  BY <1>1 DEF Register, Engine, Ask
<1>2. CASE Registered
  BY <1>2 DEF Registered, Engine
<1>3. CASE Mutate
  BY <1>3 DEF Mutate, Engine
<1>4. CASE Respond
  BY <1>4 DEF Respond, Engine
<1>5. CASE MutationRaises
  BY <1>5 DEF MutationRaises, Engine
<1>6. CASE Poll
  BY <1>6 DEF Poll, Engine, Ask
<1>7. CASE PollMisses
  BY <1>7 DEF PollMisses, Engine
<1>8. CASE Wake
  BY <1>8 DEF Wake, Engine
<1>9. CASE Report
  BY <1>9 DEF Report, Engine, Status
<1>10. CASE Cancel
  BY <1>10 DEF Cancel, Engine
<1>11. ASSUME NEW t \in Tokens, StoreToken(t) PROVE InLoop'
  BY <1>11 DEF StoreToken, Serve, target, engine
<1>12. ASSUME NEW t \in Tokens, ReadEvent(t) PROVE InLoop'
  BY <1>12 DEF ReadEvent, Serve, target, engine
<1>13. ASSUME NEW t \in Tokens, DeleteEvent(t) PROVE InLoop'
  BY <1>13 DEF DeleteEvent, Serve, target, engine
<1>14. ASSUME NEW t \in Tokens, ServeFails(t) PROVE InLoop'
  BY <1>14 DEF ServeFails, Serve, target, engine
<1>15. ASSUME NEW t \in Tokens, Expire(t) PROVE InLoop'
  BY <1>15 DEF Expire, target, engine
<1>16. CASE Judges
  <2>1. /\ point' = point + 1 /\ pc' = "next"
        /\ UNCHANGED <<points, request, mutated>>
        /\ \A t \in Tokens : t # point => verdict'[t] = verdict[t]
    BY <1>16, JudgeEffects DEF collector, target
  <2>2. ASSUME NEW t \in Tokens
        PROVE  /\ t >= point' => t > point /\ t >= point /\ t # point
               /\ t <= point => t < point'
    BY <2>1
  <2> QED BY <2>1, <2>2
<1>17. ASSUME NEW t \in Tokens, TargetStep(t) PROVE InLoop'
  <2>1. UNCHANGED <<points, request, mutated, pc, point, verdict>>
    BY <1>17, TargetEffects DEF engine
  <2> QED BY <2>1
<1>18. CASE UNCHANGED vars
  BY <1>18 DEF vars, collector, target, engine
<1> QED
  BY <1>1, <1>2, <1>3, <1>4, <1>5, <1>6, <1>7, <1>8, <1>9, <1>10, <1>11, <1>12, <1>13,
     <1>14, <1>15, <1>16, <1>17, <1>18
  DEF Next, EngineStep, CollectorStep, Judges, Finished

\* No step loses a callback that was in time.
LEMMA KeptStep ==
    ASSUME Typed, Heard, InLoop, Kept, [Next]_vars
    PROVE  Kept'
<1> USE OastAssumption DEF Typed, Heard, InLoop, Kept, Tokens, Locations, Waiting, Steps
<1>1. CASE Register
  BY <1>1 DEF Register, Engine, Ask
<1>2. CASE Registered
  BY <1>2 DEF Registered, Engine
<1>3. CASE Mutate
  BY <1>3 DEF Mutate, Engine
<1>4. CASE Respond
  BY <1>4 DEF Respond, Engine
<1>5. CASE MutationRaises
  BY <1>5 DEF MutationRaises, Engine
<1>6. CASE Poll
  BY <1>6 DEF Poll, Engine, Ask
<1>7. CASE PollMisses
  BY <1>7 DEF PollMisses, Engine
<1>8. CASE Wake
  BY <1>8 DEF Wake, Engine
<1>9. CASE Report
  BY <1>9 DEF Report, Engine, Status
<1>10. CASE Cancel
  BY <1>10 DEF Cancel, Engine
<1>11. ASSUME NEW t \in Tokens, StoreToken(t) PROVE Kept'
  BY <1>11 DEF StoreToken, Serve, target, engine
<1>12. ASSUME NEW t \in Tokens, ReadEvent(t) PROVE Kept'
  BY <1>12 DEF ReadEvent, Serve, target, engine
<1>13. ASSUME NEW t \in Tokens, DeleteEvent(t) PROVE Kept'
  BY <1>13 DEF DeleteEvent, Serve, target, engine
<1>14. ASSUME NEW t \in Tokens, ServeFails(t) PROVE Kept'
  BY <1>14 DEF ServeFails, Serve, target, engine
<1>15. ASSUME NEW t \in Tokens, Expire(t) PROVE Kept'
  BY <1>15 DEF Expire, target, engine
<1>16. CASE Judges
  <2>1. /\ point \in Tokens /\ point <= points
        /\ pc # "done" /\ pc' = "next"
        /\ UNCHANGED <<points, key, expired, request, mutated, heard, row>>
        /\ \A t \in Tokens : t # point => verdict'[t] = verdict[t]
        /\ \/ verdict'[point] \in {"error", "hit"}
           \/ request[point] = "miss" /\ poll = Polls
    BY <1>16, JudgeEffects
    DEF collector, target, Judges, RegisterFails, PollHits, LastPollMisses, PollFails, Engine
  <2>2. row' = "none"
    BY <2>1
  <2>3. ASSUME NEW t \in heard \ expired
        PROVE  t \in mutated /\ verdict'[t] \in {"error", "hit"}
    <3>1. t \in mutated /\ t \in Tokens
      OBVIOUS
    <3>2. CASE t = point
      BY <2>1, <3>2
    <3>3. CASE t # point
      BY <2>1, <3>1, <3>3
    <3> QED BY <3>1, <3>2, <3>3
  <2> QED BY <2>1, <2>2, <2>3
<1>17. ASSUME NEW t \in Tokens, TargetStep(t) PROVE Kept'
  <2>1. UNCHANGED <<points, expired, request, mutated, pc, point, poll, verdict, row>>
    BY <1>17, TargetEffects DEF engine
  <2>2. CASE UNCHANGED <<key, heard>>
    BY <2>1, <2>2
  <2>3. CASE /\ key' = [key EXCEPT ![t] = "1"]
             /\ t \in mutated
             /\ heard' = (IF t = point /\ poll < Polls THEN heard \union {t} ELSE heard)
    <3>1. row = "TESTED" => heard' = heard
      BY <2>3
    <3>2. \A u \in Tokens : key[u] = "1" => key'[u] = "1"
      BY <2>3
    <3>3. \A u \in heard' \ expired : u \in heard \/ (u = t /\ t = point /\ poll # Polls)
      BY <2>3
    <3>4. key'[t] = "1"
      BY <2>3
    <3> QED BY <2>1, <2>3, <3>1, <3>2, <3>3, <3>4
  <2> QED BY <1>17, <2>2, <2>3, TargetEffects
<1>18. CASE UNCHANGED vars
  BY <1>18 DEF vars, collector, target, engine
<1> QED
  BY <1>1, <1>2, <1>3, <1>4, <1>5, <1>6, <1>7, <1>8, <1>9, <1>10, <1>11, <1>12, <1>13,
     <1>14, <1>15, <1>16, <1>17, <1>18
  DEF Next, EngineStep, CollectorStep, Judges, Finished

\* The four hold initially.
LEMMA Initially == Init => Typed /\ Heard /\ InLoop /\ Kept
BY OastAssumption DEF Init, Typed, Heard, InLoop, Kept, Tokens, Steps, Locations, Waiting

\* They hold always.
LEMMA Invariant == Spec => [](Typed /\ Heard /\ InLoop /\ Kept)
<1>1. Typed /\ Heard /\ InLoop /\ Kept /\ [Next]_vars => (Typed /\ Heard /\ InLoop /\ Kept)'
  BY TypedStep, HeardStep, InLoopStep, KeptStep
<1> QED BY Initially, <1>1, PTL DEF Spec

\* A hit is reported of a token only after the target was sent its URL and a callback for
\* it was stored, whatever expires, fails and comes late.
THEOREM HitsAreTrue == Spec => []HitIsTrue
<1>1. Typed /\ Heard => HitIsTrue
  BY DEF Typed, Heard, HitIsTrue, Steps
<1> QED BY Invariant, <1>1, PTL

\* A callback stored before the last poll was sent never ends as a clean test, unless its
\* key expired unread.
THEOREM NothingIsMissed == Spec => []NothingMissed
<1>1. Kept => NothingMissed
  BY DEF Kept, NothingMissed
<1> QED BY Invariant, <1>1, PTL

-----------------------------------------------------------------------------
(* The types.  A callback is at one step of its handler at a time. *)

\* The callbacks of a token that have not been answered.
Unanswered(calls) == calls["left"] + calls["sent"] + calls["found"] + calls["stored"]

Conserved == \A t \in Tokens : Unanswered(callback[t]) <= MaxCallbacks

Kinds ==
    /\ expired \subseteq Tokens
    /\ row \in {"none", "NOT_APPLICABLE", "SKIPPED", "ERROR", "DETECTED", "TESTED"}

\* A callback that moves on leaves the step it was at.
LEMMA CallConserves ==
    ASSUME Typed, Conserved, NEW t \in Tokens, NEW from \in Steps, NEW to, to # from,
           Call(t, from, to)
    PROVE  Conserved'
<1> DEFINE after == [step \in Steps |-> IF step = from THEN callback[t][step] - 1
                                       ELSE IF step = to THEN callback[t][step] + 1
                                       ELSE callback[t][step]]
<1>1. callback \in [Tokens -> [Steps -> Nat]] /\ callback[t] \in [Steps -> Nat]
  BY DEF Typed
<1>2. \A step \in Steps : callback[t][step] \in Nat
  BY <1>1
<1>3. Unanswered(after) <= Unanswered(callback[t])
  <2>1. /\ callback[t]["left"] \in Nat /\ callback[t]["sent"] \in Nat
        /\ callback[t]["found"] \in Nat /\ callback[t]["stored"] \in Nat
    BY <1>2 DEF Steps
  <2> QED
    BY <2>1 DEF Unanswered, Steps
<1>4. Unanswered(after) \in Int
  BY <1>2 DEF Unanswered, Steps
<1>5. callback' = [callback EXCEPT ![t] = after]
  BY DEF Call
<1>6. callback'[t] = after /\ \A u \in Tokens : u # t => callback'[u] = callback[u]
  BY <1>1, <1>5
<1> HIDE DEF after
<1>7. Unanswered(callback[t]) <= MaxCallbacks /\ Unanswered(callback[t]) \in Int
  BY <1>2 DEF Conserved, Unanswered, Steps
<1>8. Unanswered(after) <= MaxCallbacks
  BY <1>3, <1>4, <1>7, OastAssumption
<1> QED
  BY <1>6, <1>8 DEF Conserved

LEMMA ConservedStep ==
    ASSUME Typed, Conserved, [Next]_vars
    PROVE  Conserved'
<1>1. ASSUME NEW t \in Tokens, TargetStep(t) PROVE Conserved'
  <2>1. PICK from \in Steps, to \in Steps \union {"answered"} :
          Call(t, from, to) /\ from # to
    BY <1>1 DEF TargetStep, SendCallback, FindToken, StoreCallback, CallbackFails, Steps
  <2> QED
    BY <2>1, CallConserves
<1>2. CASE callback' = callback
  BY <1>2 DEF Conserved
<1>3. (\E t \in Tokens : TargetStep(t)) \/ callback' = callback
  BY DEF Next, EngineStep, CollectorStep, Finished, vars, target, Engine, Serve,
     Register, Registered, RegisterFails, Mutate, Respond, MutationRaises, Poll, PollHits,
     PollMisses, Wake, LastPollMisses, PollFails, Report, Cancel, StoreToken, ReadEvent,
     DeleteEvent, ServeFails, Expire
<1> QED
  BY <1>1, <1>2, <1>3

LEMMA KindsStep ==
    ASSUME Typed, Heard, Kinds, [Next]_vars
    PROVE  Kinds'
<1>1. expired' \subseteq Tokens
  <2>1. ASSUME NEW t \in Tokens, TargetStep(t) PROVE expired' = expired
    BY <2>1, TargetEffects
  <2>2. ASSUME NEW t \in Tokens, CollectorStep(t)
        PROVE  expired' \in {expired, expired \union {t}}
    BY <2>2 DEF CollectorStep, StoreToken, ReadEvent, DeleteEvent, ServeFails, Expire
  <2>3. CASE EngineStep \/ Cancel \/ Finished \/ UNCHANGED vars
    <3>1. expired' = expired
      BY <2>3 DEF EngineStep, Finished, vars, collector, Engine,
         Register, Registered, RegisterFails, Mutate, Respond, MutationRaises, Poll,
         PollHits, PollMisses, Wake, LastPollMisses, PollFails, Report, Cancel
    <3> QED
      BY <3>1 DEF Kinds
  <2> QED
    BY <2>1, <2>2, <2>3 DEF Next, Kinds
<1>2. CASE Report
  BY <1>1, <1>2 DEF Report, Status, Kinds
<1>3. CASE ~ Report
  <2>1. row' = row
    <3>1. ASSUME NEW t \in Tokens, TargetStep(t) PROVE row' = row
      BY <3>1, TargetEffects DEF engine
    <3>2. ASSUME NEW t \in Tokens, CollectorStep(t) PROVE row' = row
      BY <3>2 DEF CollectorStep, StoreToken, ReadEvent, DeleteEvent, ServeFails, Serve,
         Expire, engine
    <3>3. CASE EngineStep \/ Cancel \/ Finished \/ UNCHANGED vars
      BY <1>3, <3>3 DEF EngineStep, Finished, vars, engine, Ask, Judge,
         Register, Registered, RegisterFails, Mutate, Respond, MutationRaises, Poll,
         PollHits, PollMisses, Wake, LastPollMisses, PollFails, Cancel
    <3> QED
      BY <3>1, <3>2, <3>3 DEF Next
  <2> QED
    BY <1>1, <2>1 DEF Kinds
<1> QED
  BY <1>2, <1>3

\* Every variable keeps its range: however callbacks and requests overlap, a callback is at
\* one step of the collector's handler, and the row has a status a row may have.
THEOREM TypeCorrect == Spec => []TypeOK
<1>1. Init => Kinds /\ Conserved
  BY OastAssumption DEF Init, Kinds, Conserved, Unanswered, Steps
<1>2. Typed /\ Heard /\ Kinds /\ Conserved /\ [Next]_vars => (Kinds /\ Conserved)'
  BY KindsStep, ConservedStep
<1>3. Typed /\ Kinds /\ Conserved => TypeOK
  <2> SUFFICES ASSUME Typed, Kinds, Conserved PROVE TypeOK
    OBVIOUS
  <2>1. callback \in [Tokens -> [Steps -> 0 .. MaxCallbacks]]
    <3>1. callback \in [Tokens -> [Steps -> Nat]]
      BY DEF Typed
    <3> SUFFICES ASSUME NEW t \in Tokens PROVE callback[t] \in [Steps -> 0 .. MaxCallbacks]
      BY <3>1
    <3>2. callback[t] \in [Steps -> Nat]
      BY <3>1
    <3>3. /\ callback[t]["left"] \in Nat /\ callback[t]["sent"] \in Nat
          /\ callback[t]["found"] \in Nat /\ callback[t]["stored"] \in Nat
          /\ callback[t]["left"] + callback[t]["sent"] + callback[t]["found"]
               + callback[t]["stored"] <= MaxCallbacks
      BY <3>2 DEF Conserved, Unanswered, Steps
    <3>4. /\ callback[t]["left"] \in 0 .. MaxCallbacks
          /\ callback[t]["sent"] \in 0 .. MaxCallbacks
          /\ callback[t]["found"] \in 0 .. MaxCallbacks
          /\ callback[t]["stored"] \in 0 .. MaxCallbacks
      BY <3>3, OastAssumption
    <3>5. \A step \in Steps : callback[t][step] \in 0 .. MaxCallbacks
      BY <3>4 DEF Steps
    <3> QED
      BY <3>2, <3>5
  <2>2. heard \subseteq Tokens /\ mutated \subseteq Tokens
    BY DEF Typed
  <2> QED
    BY <2>1, <2>2 DEF Typed, Kinds, TypeOK
<1> QED
  BY Invariant, <1>1, <1>2, <1>3, PTL DEF Spec
=============================================================================
