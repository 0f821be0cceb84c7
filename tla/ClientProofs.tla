----------------------------- MODULE ClientProofs -----------------------------
(***************************************************************************)
(* Proofs about DiscordClient: its types, that no attempt is sent before   *)
(* the waits Discord asked for are over, and that what a call reports is   *)
(* true, for any number of calls, attempts and waits.                      *)
(***************************************************************************)
EXTENDS DiscordClient, TLAPS

CallState == [op : Ops \cup {None}, at : Stages, attempt : 0 .. MaxRetries,
              sleep : 0 .. Higher(MaxWait, 1), due : 0 .. MaxWait,
              target : Messages, result : Messages, cancelled : BOOLEAN]

\* A call that is on its way to be sent, or is sent, has an attempt left.
Typed ==
  /\ TypeOK
  /\ call \in [Calls -> CallState]
  /\ \A c \in Calls : call[c].at \in {"global", "key", "ready", "sent"} =>
                        call[c].attempt < MaxRetries

\* The longest and the shortest time.
LEMMA Times ==
  /\ Higher(MaxWait, 1) \in Nat /\ 1 \in 0 .. Higher(MaxWait, 1)
  /\ \A n \in 0 .. MaxWait : n \in 0 .. Higher(MaxWait, 1)
  /\ \A a, b \in 0 .. MaxWait : Higher(a, b) \in 0 .. MaxWait
  /\ \A m \in Nat : \A n \in 0 .. m : Less(n) \in 0 .. m
<1>1. MaxWait \in Nat /\ MaxWait >= 1
  BY ClientAssumption
<1>2. Higher(MaxWait, 1) = MaxWait
  BY <1>1 DEF Higher
<1>3. \A a, b \in 0 .. MaxWait : Higher(a, b) \in 0 .. MaxWait
  BY DEF Higher
<1>4. \A m \in Nat : \A n \in 0 .. m : Less(n) \in 0 .. m
  BY DEF Less
<1>5. Higher(MaxWait, 1) \in Nat /\ 1 \in 0 .. Higher(MaxWait, 1)
  BY <1>1, <1>2
<1>6. \A n \in 0 .. MaxWait : n \in 0 .. Higher(MaxWait, 1)
  BY <1>2
<1>. QED
  BY <1>3, <1>4, <1>5, <1>6

\* A call is named in a message only by its own attempts.
LEMMA MineIs ==
  ASSUME Typed, NEW c \in Calls
  PROVE  Mine(c) \in Messages
BY DEF Typed, CallState, Mine, Messages

\* What Discord may do with a request.
LEMMA EffectIs ==
  ASSUME Typed, NEW c \in Calls, Effect(c) \/ NoEffect
  PROVE  /\ open' \in BOOLEAN /\ discord' \subseteq posted' /\ posted' \subseteq Messages
         /\ posted \subseteq posted' /\ posted' \subseteq posted \cup discord'
         /\ \A m \in discord' \ discord : call[c].op = "upload" /\ open /\ m = Mine(c)
         /\ \A m \in discord \ discord' :
              \/ call[c].op = "delete" /\ m = call[c].target
              \/ call[c].op = "drop"
         /\ ~open' => ~open \/ discord' = {}
         /\ ~open => ~open' /\ discord' \subseteq discord
<1>0. open \in BOOLEAN /\ discord \subseteq posted /\ posted \subseteq Messages /\ Mine(c) \in Messages
  BY MineIs DEF Typed, TypeOK
<1>1. CASE NoEffect
  BY <1>0, <1>1 DEF NoEffect
<1>2. CASE Effect(c)
  <2>1. /\ open' = (open /\ call[c].op # "drop") /\ posted' = posted \cup discord'
        /\ call[c].op = "upload" => discord' = IF open THEN discord \cup {Mine(c)} ELSE discord
        /\ call[c].op = "delete" => discord' = discord \ {call[c].target}
        /\ call[c].op = "drop" => discord' = {}
        /\ call[c].op \notin {"upload", "delete", "drop"} => discord' = discord
    BY <1>2 DEF Effect
  <2>. HIDE DEF Mine
  <2>2. CASE call[c].op = "upload"
    BY <1>0, <2>1, <2>2
  <2>3. CASE call[c].op = "delete"
    BY <1>0, <2>1, <2>3
  <2>4. CASE call[c].op = "drop"
    BY <1>0, <2>1, <2>4
  <2>5. CASE call[c].op \notin {"upload", "delete", "drop"}
    BY <1>0, <2>1, <2>5
  <2>. QED
    BY <2>2, <2>3, <2>4, <2>5
<1>. QED
  BY <1>1, <1>2

-----------------------------------------------------------------------------
(***************************************************************************)
(* Types.                                                                  *)
(***************************************************************************)
\* The next attempt of a call that was sent, or was about to be.
LEMMA AgainTyped ==
  ASSUME Typed, NEW c \in Calls, call[c].at \in {"ready", "sent"},
         NEW d \in 0 .. Higher(MaxWait, 1), Again(c, d)
  PROVE  /\ call' \in [Calls -> CallState]
         /\ call'[c].at = "loop" /\ \A e \in Calls \ {c} : call'[e] = call[e]
<1>1. call[c].attempt + 1 \in 0 .. MaxRetries
  BY ClientAssumption DEF Typed, CallState
<1>2. call' = [call EXCEPT ![c] = [call[c] EXCEPT !.at = "loop", !.attempt = @ + 1,
                                                  !.sleep = d, !.due = 0]]
  BY DEF Again, Set
<1>3. call[c] \in CallState /\ 0 \in 0 .. MaxWait
  BY ClientAssumption DEF Typed
<1>4. [call[c] EXCEPT !.at = "loop", !.attempt = @ + 1, !.sleep = d, !.due = 0] \in CallState
  BY <1>1, <1>3 DEF CallState, Stages
<1>5. [call[c] EXCEPT !.at = "loop", !.attempt = @ + 1, !.sleep = d, !.due = 0].at = "loop"
  BY <1>3 DEF CallState
<1>. QED
  BY <1>2, <1>4, <1>5 DEF Typed

\* A call that ends.
LEMMA EndTyped ==
  ASSUME Typed, NEW c \in Calls, NEW st \in Ended, End(c, st)
  PROVE  /\ call' \in [Calls -> CallState]
         /\ call'[c].at = st /\ \A e \in Calls \ {c} : call'[e] = call[e]
<1>1. call[c] \in CallState /\ 0 \in 0 .. MaxWait
  BY ClientAssumption DEF Typed
<1>2. [call[c] EXCEPT !.at = st, !.due = 0] \in CallState
  BY <1>1 DEF CallState, Stages, Ended
<1>3. [call[c] EXCEPT !.at = st, !.due = 0].at = st
  BY <1>1 DEF CallState
<1>. QED
  BY <1>2, <1>3 DEF Typed, End, Set

\* Once the calls are typed, the rest of Typed follows.
LEMMA TypedFrom ==
  ASSUME call \in [Calls -> CallState],
         \A c \in Calls : call[c].at \in {"global", "key", "ready", "sent"} =>
                            call[c].attempt < MaxRetries,
         blocked \in [Keys -> 0 .. MaxWait], announced \in [Keys -> 0 .. MaxWait],
         open \in BOOLEAN, discord \subseteq posted, posted \subseteq Messages
  PROVE  Typed
<1>1. \A c \in Calls : call[c] \in CallState
  OBVIOUS
<1>. QED
  BY <1>1 DEF Typed, TypeOK, CallState

\* Every step keeps the types.
LEMMA TypedStep == Typed /\ [Next]_vars => Typed'
<1>. SUFFICES ASSUME Typed, [Next]_vars PROVE Typed'
  OBVIOUS
<1>. DEFINE CallsOK == /\ call' \in [Calls -> CallState]
                       /\ \A c \in Calls : call'[c].at \in {"global", "key", "ready", "sent"} =>
                                             call'[c].attempt < MaxRetries
            LimitsOK == blocked' \in [Keys -> 0 .. MaxWait] /\ announced' \in [Keys -> 0 .. MaxWait]
            PostsOK == open' \in BOOLEAN /\ discord' \subseteq posted' /\ posted' \subseteq Messages
            Goal == CallsOK /\ LimitsOK /\ PostsOK
<1>0. /\ call \in [Calls -> CallState] /\ \A c \in Calls : call[c] \in CallState
      /\ \A c \in Calls : call[c].at \in {"global", "key", "ready", "sent"} =>
                            call[c].attempt < MaxRetries
      /\ blocked \in [Keys -> 0 .. MaxWait] /\ announced \in [Keys -> 0 .. MaxWait]
      /\ open \in BOOLEAN /\ discord \subseteq posted /\ posted \subseteq Messages
  BY DEF Typed, TypeOK
<1>a. MaxRetries \in Nat \ {0} /\ MaxWait \in Nat \ {0}
  BY ClientAssumption
<1>b. \A c \in Calls : Key(c) \in Keys
  BY DEF Key, Keys
<1>c. ASSUME UNCHANGED <<blocked, announced>> PROVE LimitsOK
  BY <1>0, <1>c
<1>d. ASSUME UNCHANGED <<open, discord, posted>> PROVE PostsOK
  BY <1>0, <1>d
<1>e. ASSUME NEW c \in Calls, NEW d \in 0 .. Higher(MaxWait, 1), Again(c, d),
             call[c].at \in {"ready", "sent"}
      PROVE  CallsOK
  BY <1>0, <1>e, AgainTyped
<1>f. ASSUME NEW c \in Calls, NEW st \in Ended, End(c, st) PROVE CallsOK
  BY <1>0, <1>f, EndTyped DEF Ended
<1>1. ASSUME NEW c \in Calls, NEW op \in Asks[c], NEW m \in Messages, Start(c, op, m) PROVE Goal
  <2>1. op \in Ops
    BY ClientAssumption
  <2>. DEFINE k == [call[c] EXCEPT !.op = op, !.at = "loop", !.target = m]
  <2>2. k \in CallState /\ k.at = "loop"
    BY <1>0, <2>1 DEF CallState, Stages
  <2>3. call' = [call EXCEPT ![c] = k]
    BY <1>1 DEF Start, Set
  <2>. HIDE DEF k
  <2>4. CallsOK
    BY <1>0, <2>2, <2>3
  <2>. QED
    BY <1>1, <1>c, <1>d, <2>4 DEF Start
<1>2. ASSUME NEW c \in Calls, Cancel(c) PROVE Goal
  <2>. DEFINE k == [call[c] EXCEPT !.cancelled = TRUE]
  <2>1. k \in CallState /\ k.at = call[c].at /\ k.attempt = call[c].attempt
    BY <1>0 DEF CallState
  <2>2. call' = [call EXCEPT ![c] = k]
    BY <1>2 DEF Cancel, Set
  <2>. HIDE DEF k
  <2>3. CallsOK
    BY <1>0, <2>1, <2>2
  <2>. QED
    BY <1>2, <1>c, <1>d, <2>3 DEF Cancel
<1>3. ASSUME NEW c \in Calls, Loop(c) PROVE Goal
  <2>1. CASE End(c, "failed")
    BY <1>3, <1>c, <1>d, <1>f, <2>1 DEF Loop, Ended
  <2>2. CASE ~End(c, "failed")
    <3>1. call[c].attempt < MaxRetries
      BY <1>0, <1>3, <1>a, <2>2 DEF Loop, OutOfAttempts, CallState
    <3>2. PICK k : /\ call' = [call EXCEPT ![c] = k]
                   /\ \/ k = [call[c] EXCEPT !.at = "ready"]
                      \/ k = [call[c] EXCEPT !.at = "global",
                                !.due = Higher(announced["global"], announced[Key(c)])]
      BY <1>3, <2>2 DEF Loop, Set
    <3>3. Higher(announced["global"], announced[Key(c)]) \in 0 .. MaxWait
      BY <1>0, <1>b, Times DEF Keys
    <3>4. k \in CallState /\ k.attempt = call[c].attempt
      BY <1>0, <3>2, <3>3 DEF CallState, Stages
    <3>5. CallsOK
      BY <1>0, <3>1, <3>2, <3>4
    <3>. QED
      BY <1>3, <1>c, <1>d, <3>5 DEF Loop
  <2>. QED
    BY <2>1, <2>2
<1>4. ASSUME NEW c \in Calls, WaitGlobal(c) \/ WaitKey(c) PROVE Goal
  <2>1. PICK key \in Keys, next \in {"key", "ready"} :
          call' = [call EXCEPT ![c] = [call[c] EXCEPT !.sleep = blocked[key], !.at = next]]
    BY <1>4, <1>b DEF WaitGlobal, WaitKey, Wait, Set, Keys
  <2>2. blocked[key] \in 0 .. Higher(MaxWait, 1) /\ call[c].attempt < MaxRetries
    BY <1>0, <1>4, Times DEF WaitGlobal, WaitKey, At
  <2>. DEFINE k == [call[c] EXCEPT !.sleep = blocked[key], !.at = next]
  <2>3. k \in CallState /\ k.attempt = call[c].attempt
    BY <1>0, <2>2 DEF CallState, Stages
  <2>4. call' = [call EXCEPT ![c] = k]
    BY <2>1
  <2>. HIDE DEF k
  <2>5. CallsOK
    BY <1>0, <2>2, <2>3, <2>4
  <2>. QED
    BY <1>4, <1>c, <1>d, <2>5 DEF WaitGlobal, WaitKey
<1>5. ASSUME NEW c \in Calls, Send(c) PROVE Goal
  <2>1. CASE Again(c, 1)
    BY <1>5, <1>c, <1>d, <1>e, <2>1, Times DEF Send, At
  <2>2. CASE ~Again(c, 1)
    <3>. DEFINE k == [call[c] EXCEPT !.at = "sent"]
    <3>1. call' = [call EXCEPT ![c] = k] /\ call[c].attempt < MaxRetries
      BY <1>0, <1>5, <2>2 DEF Send, Set, At
    <3>2. k \in CallState /\ k.attempt = call[c].attempt
      BY <1>0 DEF CallState, Stages
    <3>. HIDE DEF k
    <3>3. CallsOK
      BY <1>0, <3>1, <3>2
    <3>. QED
      BY <1>5, <1>c, <1>d, <3>3 DEF Send
  <2>. QED
    BY <2>1, <2>2
<1>6. ASSUME NEW c \in Calls, Retry(c) PROVE Goal
  <2>1. CallsOK
    BY <1>6, <1>e, Times DEF Retry, At
  <2>2. PostsOK
    BY <1>6, EffectIs DEF Retry
  <2>. QED
    BY <1>6, <1>c, <2>1, <2>2 DEF Retry
<1>7. ASSUME NEW c \in Calls, NEW k \in Keys, NEW d \in 1 .. MaxWait, Limited(c, k, d) PROVE Goal
  <2>1. d \in 0 .. MaxWait /\ d \in 0 .. Higher(MaxWait, 1)
    BY <1>a, Times
  <2>2. CallsOK
    BY <1>7, <1>e, <2>1 DEF Limited, At
  <2>3. Higher(blocked[k], d) \in 0 .. MaxWait /\ Higher(announced[k], d) \in 0 .. MaxWait
    BY <1>0, <2>1, Times
  <2>4. LimitsOK
    BY <1>0, <1>7, <1>c, <2>3 DEF Limited, Block
  <2>. QED
    BY <1>7, <1>d, <2>2, <2>4 DEF Limited, NoEffect
<1>8. ASSUME NEW c \in Calls, Refused(c) \/ Found(c) \/ Downloaded(c) PROVE Goal
  <2>1. PICK st \in Ended : End(c, st)
    BY <1>8 DEF Refused, Found, Downloaded, Ended
  <2>. QED
    BY <1>8, <1>c, <1>d, <1>f, <2>1 DEF Refused, Found, Downloaded, NoEffect
<1>9. ASSUME NEW c \in Calls, Uploaded(c) PROVE Goal
  <2>. DEFINE k == [call[c] EXCEPT !.at = "ok", !.due = 0, !.result = Mine(c)]
  <2>0. Mine(c) \in Messages /\ 0 \in 0 .. MaxWait
    BY <1>a, MineIs
  <2>1. k \in CallState /\ k.at = "ok"
    BY <1>0, <2>0 DEF CallState, Stages
  <2>2. End(c, "failed") \/ call' = [call EXCEPT ![c] = k]
    BY <1>9 DEF Uploaded, Set
  <2>. HIDE DEF k
  <2>3. CallsOK
    BY <1>0, <1>f, <2>1, <2>2 DEF Ended
  <2>4. PostsOK
    BY <1>9, EffectIs DEF Uploaded
  <2>. QED
    BY <1>9, <1>c, <2>3, <2>4 DEF Uploaded
<1>10. ASSUME NEW c \in Calls, MessageDeleted(c) \/ ChannelDeleted(c) PROVE Goal
  <2>1. CallsOK
    BY <1>10, <1>f DEF MessageDeleted, ChannelDeleted, Ended
  <2>2. PostsOK
    BY <1>10, EffectIs DEF MessageDeleted, ChannelDeleted
  <2>. QED
    BY <1>10, <1>c, <2>1, <2>2 DEF MessageDeleted, ChannelDeleted
<1>11. ASSUME Tick PROVE Goal
  <2>1. LimitsOK
    BY <1>0, <1>11, <1>a, Times DEF Tick
  <2>2. ASSUME NEW c \in Calls
        PROVE  /\ call'[c] \in CallState /\ call'[c].at = call[c].at
               /\ call'[c].attempt = call[c].attempt
    <3>1. Less(call[c].sleep) \in 0 .. Higher(MaxWait, 1) /\ Less(call[c].due) \in 0 .. MaxWait
      BY <1>0, <1>a, Times DEF CallState
    <3>2. call'[c] = [call[c] EXCEPT !.sleep = Less(@), !.due = Less(@)]
      BY <1>11 DEF Tick
    <3>. QED
      BY <1>0, <3>1, <3>2 DEF CallState
  <2>3. call' = [c \in Calls |-> call'[c]]
    BY <1>11 DEF Tick
  <2>4. CallsOK
    BY <1>0, <2>2, <2>3
  <2>. QED
    BY <1>11, <1>d, <2>1, <2>4 DEF Tick
<1>12. ASSUME UNCHANGED vars PROVE Goal
  BY <1>0, <1>12 DEF vars
<1>. HIDE DEF Goal
<1>13. Goal
  BY <1>1, <1>2, <1>3, <1>4, <1>5, <1>6, <1>7, <1>8, <1>9, <1>10, <1>11, <1>12
     DEF Next, Step, Answer
<1>. QED
  BY <1>13, TypedFrom DEF Goal, Typed, TypeOK, CallState

\* The initial states are typed.
LEMMA TypedInit == Init => Typed
<1>. SUFFICES ASSUME Init PROVE Typed
  OBVIOUS
<1>1. /\ Stored \in Messages /\ NoMessage \in Messages
      /\ 0 \in 0 .. Higher(MaxWait, 1) /\ 0 \in 0 .. MaxWait
  <2>1. {0, 1} \subseteq 0 .. MaxRetries /\ 0 \in 0 .. MaxWait
    BY ClientAssumption
  <2>2. Stored \in Messages /\ NoMessage \in Messages
    BY <2>1 DEF Stored, NoMessage, Messages
  <2>. QED
    BY <2>1, <2>2, Times
<1>2. call \in [Calls -> CallState] /\ \A c \in Calls : call[c].at = "idle"
  BY <1>1, ClientAssumption DEF Init, CallState, Stages
<1>3. blocked \in [Keys -> 0 .. MaxWait] /\ announced \in [Keys -> 0 .. MaxWait]
  BY <1>1 DEF Init
<1>. QED
  BY <1>1, <1>2, <1>3, TypedFrom DEF Init

\* Limiters and calls keep their shape, and no call makes more than MaxRetries attempts.
THEOREM ClientTypeCorrect == Spec => []TypeOK
<1>1. Typed => TypeOK
  BY DEF Typed
<1>. QED
  BY <1>1, TypedInit, TypedStep, PTL DEF Spec

-----------------------------------------------------------------------------
(***************************************************************************)
(* Waiting.                                                                *)
(***************************************************************************)
\* What a call still owes Discord in waiting is covered by the sleep it is in and the
\* blocks it has yet to read.
Covered(c) ==
  /\ call[c].at = "global" => call[c].due <= Higher(blocked["global"], blocked[Key(c)])
  /\ call[c].at = "key" => call[c].due <= Higher(call[c].sleep, blocked[Key(c)])
  /\ call[c].at = "ready" => call[c].due <= call[c].sleep
  /\ call[c].at \notin {"global", "key", "ready"} => call[c].due = 0

\* The limiters are blocked for as long as Discord has asked for.
PatientInv ==
  /\ Typed
  /\ \A k \in Keys : announced[k] <= blocked[k]
  /\ \A c \in Calls : Covered(c)

\* The higher of two times.
LEMMA HigherIs ==
  /\ \A a, b, x, y \in Nat : a <= x /\ b <= y => Higher(a, b) <= Higher(x, y)
  /\ \A a, b \in Nat : a <= Higher(a, b) /\ b <= Higher(a, b) /\ Higher(a, b) \in Nat
  /\ \A a, b \in Nat : Higher(Less(a), Less(b)) = Less(Higher(a, b))
  /\ \A a, b \in Nat : a <= b => Less(a) <= Less(b)
  /\ \A a, b, c \in Nat : a <= Higher(b, c) /\ b = 0 => a <= c
BY DEF Higher, Less

\* The times of a typed state.
LEMMA TimesAre ==
  ASSUME Typed
  PROVE  /\ \A k \in Keys : blocked[k] \in Nat /\ announced[k] \in Nat
         /\ \A c \in Calls : call[c].sleep \in Nat /\ call[c].due \in Nat /\ Key(c) \in Keys
<1>1. MaxWait \in Nat /\ Higher(MaxWait, 1) \in Nat
  BY ClientAssumption, Times
<1>2. \A c \in Calls : call[c].sleep \in 0 .. Higher(MaxWait, 1) /\ call[c].due \in 0 .. MaxWait
  BY DEF Typed, TypeOK
<1>3. \A k \in Keys : blocked[k] \in 0 .. MaxWait /\ announced[k] \in 0 .. MaxWait
  BY DEF Typed, TypeOK
<1>4. \A c \in Calls : Key(c) \in Keys
  BY DEF Key, Keys
<1>. QED
  BY <1>1, <1>2, <1>3, <1>4

\* A call that does nothing stays covered while blocks are made longer.
LEMMA CoveredStays ==
  ASSUME Typed, Typed', NEW c \in Calls, Covered(c), call'[c] = call[c],
         \A k \in Keys : blocked[k] <= blocked'[k]
  PROVE  Covered(c)'
<1>1. Key(c)' = Key(c) /\ "global" \in Keys
  BY DEF Key, Keys
<1>2. \A a, b, x, y \in Nat : a <= x /\ b <= y => Higher(a, b) <= Higher(x, y)
  BY HigherIs
<1>3. \A a, b, x \in Nat : x <= a /\ a <= b => x <= b
  OBVIOUS
<1>4. /\ \A k \in Keys : blocked[k] \in Nat /\ blocked'[k] \in Nat
      /\ call[c].sleep \in Nat /\ call[c].due \in Nat /\ Key(c) \in Keys
  <2>1. MaxWait \in Nat
    BY ClientAssumption
  <2>2. \A k \in Keys : blocked'[k] \in 0 .. MaxWait
    BY DEF Typed, TypeOK
  <2>. QED
    BY <2>1, <2>2, TimesAre
<1>5. /\ Higher(blocked["global"], blocked[Key(c)]) <= Higher(blocked'["global"], blocked'[Key(c)])
      /\ Higher(call[c].sleep, blocked[Key(c)]) <= Higher(call[c].sleep, blocked'[Key(c)])
  BY <1>1, <1>2, <1>4
<1>6. /\ Higher(blocked["global"], blocked[Key(c)]) \in Nat
      /\ Higher(blocked'["global"], blocked'[Key(c)]) \in Nat
      /\ Higher(call[c].sleep, blocked[Key(c)]) \in Nat
      /\ Higher(call[c].sleep, blocked'[Key(c)]) \in Nat
  BY <1>1, <1>4, HigherIs
<1>. QED
  BY <1>1, <1>3, <1>4, <1>5, <1>6 DEF Covered

\* Every step keeps the calls covered.
LEMMA PatientStep == PatientInv /\ [Next]_vars => PatientInv'
<1>. SUFFICES ASSUME PatientInv, [Next]_vars PROVE PatientInv'
  OBVIOUS
<1>0. Typed /\ Typed' /\ call \in [Calls -> CallState] /\ \A c \in Calls : call[c] \in CallState
  BY TypedStep DEF PatientInv, Typed
<1>. DEFINE Limits == \A k \in Keys : announced'[k] <= blocked'[k]
            Grown == \A k \in Keys : blocked[k] <= blocked'[k]
            Others(c) == \A e \in Calls \ {c} : call'[e] = call[e]
            Goal == Limits /\ \A c \in Calls : Covered(c)'
<1>a. ASSUME UNCHANGED <<blocked, announced>> PROVE Limits /\ Grown
  BY <1>0, <1>a, TimesAre DEF PatientInv
<1>b. ASSUME NEW c \in Calls, Limits, Grown, Others(c), Covered(c)' PROVE Goal
  BY <1>0, <1>b, CoveredStays DEF PatientInv
<1>c. ASSUME NEW c \in Calls, NEW d \in 0 .. Higher(MaxWait, 1), Again(c, d),
             call[c].at \in {"ready", "sent"}
      PROVE  Others(c) /\ Covered(c)'
  <2>1. /\ call'[c] = [call[c] EXCEPT !.at = "loop", !.attempt = @ + 1, !.sleep = d, !.due = 0]
        /\ Others(c)
    BY <1>0, <1>c DEF Again, Set
  <2>2. call'[c].at = "loop" /\ call'[c].due = 0
    BY <1>0, <2>1 DEF CallState
  <2>. QED
    BY <2>1, <2>2 DEF Covered
<1>d. ASSUME NEW c \in Calls, NEW st \in Ended, End(c, st) PROVE Others(c) /\ Covered(c)'
  <2>1. call'[c] = [call[c] EXCEPT !.at = st, !.due = 0] /\ Others(c)
    BY <1>0, <1>d DEF End, Set
  <2>2. call'[c].at = st /\ call'[c].due = 0
    BY <1>0, <2>1 DEF CallState
  <2>. QED
    BY <2>1, <2>2 DEF Covered, Ended
<1>1. ASSUME NEW c \in Calls, NEW op \in Asks[c], NEW m \in Messages, Start(c, op, m) PROVE Goal
  <2>1. call'[c] = [call[c] EXCEPT !.op = op, !.at = "loop", !.target = m] /\ Others(c)
    BY <1>0, <1>1 DEF Start, Set
  <2>2. call'[c].at = "loop" /\ call'[c].due = call[c].due /\ call[c].at = "idle"
    BY <1>0, <1>1, <2>1 DEF CallState, Start, At
  <2>3. Covered(c)'
    BY <2>2 DEF Covered, PatientInv
  <2>. QED
    BY <1>1, <1>a, <1>b, <2>1, <2>3 DEF Start
<1>2. ASSUME NEW c \in Calls, Cancel(c) PROVE Goal
  <2>1. call'[c] = [call[c] EXCEPT !.cancelled = TRUE] /\ Others(c) /\ blocked' = blocked
    BY <1>0, <1>2 DEF Cancel, Set
  <2>2. /\ call'[c].at = call[c].at /\ call'[c].due = call[c].due /\ call'[c].op = call[c].op
        /\ call'[c].sleep = call[c].sleep
    BY <1>0, <2>1 DEF CallState
  <2>3. Covered(c)'
    BY <2>1, <2>2 DEF Covered, PatientInv, Key
  <2>. QED
    BY <1>2, <1>a, <1>b, <2>1, <2>3 DEF Cancel
<1>3. ASSUME NEW c \in Calls, Loop(c) PROVE Goal
  <2>1. CASE End(c, "failed")
    BY <1>3, <1>a, <1>b, <1>d, <2>1 DEF Loop, Ended
  <2>2. CASE Set(c, [call[c] EXCEPT !.at = "ready"])
    <3>1. call'[c] = [call[c] EXCEPT !.at = "ready"] /\ Others(c)
      BY <1>0, <2>2 DEF Set
    <3>2. /\ call'[c].at = "ready" /\ call'[c].due = call[c].due /\ call[c].at = "loop"
          /\ call'[c].sleep = call[c].sleep
      BY <1>0, <1>3, <3>1 DEF CallState, Loop, At
    <3>3. call'[c].due = 0 /\ call'[c].sleep \in Nat
      BY <1>0, <3>2, TimesAre DEF Covered, PatientInv
    <3>4. Covered(c)'
      BY <3>2, <3>3 DEF Covered
    <3>. QED
      BY <1>3, <1>a, <1>b, <3>1, <3>4 DEF Loop
  <2>3. CASE Set(c, [call[c] EXCEPT !.at = "global",
                       !.due = Higher(announced["global"], announced[Key(c)])])
    <3>. DEFINE h == Higher(announced["global"], announced[Key(c)])
    <3>1. call'[c] = [call[c] EXCEPT !.at = "global", !.due = h] /\ Others(c)
      BY <1>0, <2>3 DEF Set
    <3>2. h <= Higher(blocked["global"], blocked[Key(c)])
      <4>1. "global" \in Keys
        BY DEF Keys
      <4>. QED
        BY <1>0, <4>1, TimesAre, HigherIs DEF PatientInv
    <3>. HIDE DEF h
    <3>3. /\ call'[c].at = "global" /\ call'[c].due = h /\ call'[c].op = call[c].op
          /\ blocked' = blocked
      BY <1>0, <1>3, <3>1 DEF CallState, Loop
    <3>4. Covered(c)'
      BY <3>2, <3>3 DEF Covered, Key
    <3>. QED
      BY <1>3, <1>a, <1>b, <3>1, <3>4 DEF Loop
  <2>. QED
    BY <1>3, <2>1, <2>2, <2>3 DEF Loop
<1>4. ASSUME NEW c \in Calls, WaitGlobal(c) PROVE Goal
  <2>1. call'[c] = [call[c] EXCEPT !.sleep = blocked["global"], !.at = "key"] /\ Others(c)
    BY <1>0, <1>4 DEF WaitGlobal, Wait, Set
  <2>2. /\ call'[c].at = "key" /\ call'[c].due = call[c].due /\ call'[c].op = call[c].op
        /\ call'[c].sleep = blocked["global"] /\ call[c].at = "global" /\ blocked' = blocked
    BY <1>0, <1>4, <2>1 DEF CallState, WaitGlobal, At
  <2>3. Covered(c)'
    BY <2>2 DEF Covered, PatientInv, Key
  <2>. QED
    BY <1>4, <1>a, <1>b, <2>1, <2>3 DEF WaitGlobal
<1>5. ASSUME NEW c \in Calls, WaitKey(c) PROVE Goal
  <2>1. call'[c] = [call[c] EXCEPT !.sleep = blocked[Key(c)], !.at = "ready"] /\ Others(c)
    BY <1>0, <1>5 DEF WaitKey, Wait, Set
  <2>2. /\ call'[c].at = "ready" /\ call'[c].due = call[c].due
        /\ call'[c].sleep = blocked[Key(c)]
        /\ call[c].at = "key" /\ call[c].sleep = 0
    BY <1>0, <1>5, <2>1 DEF CallState, WaitKey, At
  <2>3. call[c].due <= blocked[Key(c)]
    BY <1>0, <2>2, TimesAre, HigherIs DEF Covered, PatientInv
  <2>4. Covered(c)'
    BY <2>2, <2>3 DEF Covered
  <2>. QED
    BY <1>5, <1>a, <1>b, <2>1, <2>4 DEF WaitKey
<1>6. ASSUME NEW c \in Calls, Send(c) PROVE Goal
  <2>1. CASE Again(c, 1)
    BY <1>6, <1>a, <1>b, <1>c, <2>1, Times DEF Send, At
  <2>2. CASE Set(c, [call[c] EXCEPT !.at = "sent"])
    <3>1. call'[c] = [call[c] EXCEPT !.at = "sent"] /\ Others(c)
      BY <1>0, <2>2 DEF Set
    <3>2. /\ call'[c].at = "sent" /\ call'[c].due = call[c].due
          /\ call[c].at = "ready" /\ call[c].sleep = 0
      BY <1>0, <1>6, <3>1 DEF CallState, Send, At
    <3>3. call[c].due = 0
      BY <1>0, <3>2, TimesAre DEF Covered, PatientInv
    <3>4. Covered(c)'
      BY <3>2, <3>3 DEF Covered
    <3>. QED
      BY <1>6, <1>a, <1>b, <3>1, <3>4 DEF Send
  <2>. QED
    BY <1>6, <2>1, <2>2 DEF Send
<1>7. ASSUME NEW c \in Calls, Retry(c) PROVE Goal
  BY <1>7, <1>a, <1>b, <1>c, Times DEF Retry, At
<1>8. ASSUME NEW c \in Calls, NEW k \in Keys, NEW d \in 1 .. MaxWait, Limited(c, k, d) PROVE Goal
  <2>1. d \in Nat /\ d \in 0 .. Higher(MaxWait, 1)
    BY ClientAssumption, Times
  <2>2. Limits /\ Grown
    <3>1. CASE UNCHANGED <<blocked, announced>>
      BY <1>a, <3>1
    <3>2. CASE Block(k, d) /\ announced' = [announced EXCEPT ![k] = Higher(@, d)]
      <4>1. /\ blocked' = [blocked EXCEPT ![k] = Higher(blocked[k], d)]
            /\ announced' = [announced EXCEPT ![k] = Higher(announced[k], d)]
            /\ blocked \in [Keys -> 0 .. MaxWait] /\ announced \in [Keys -> 0 .. MaxWait]
        BY <1>0, <3>2 DEF Block, Typed, TypeOK
      <4>2. \A j \in Keys : blocked[j] \in Nat /\ announced[j] \in Nat /\ announced[j] <= blocked[j]
        BY <1>0, TimesAre DEF PatientInv
      <4>3. /\ Higher(announced[k], d) <= Higher(blocked[k], d)
            /\ blocked[k] <= Higher(blocked[k], d)
        BY <2>1, <4>2 DEF Higher
      <4>. QED
        BY <4>1, <4>2, <4>3
    <3>. QED
      BY <1>8, <3>1, <3>2 DEF Limited
  <2>3. Others(c) /\ Covered(c)'
    BY <1>8, <1>c, <2>1 DEF Limited, At
  <2>. QED
    BY <1>b, <2>2, <2>3
<1>9. ASSUME NEW c \in Calls, Refused(c) \/ Found(c) \/ Downloaded(c) \/ MessageDeleted(c)
                              \/ ChannelDeleted(c)
      PROVE  Goal
  <2>1. PICK st \in Ended : End(c, st)
    BY <1>9 DEF Refused, Found, Downloaded, MessageDeleted, ChannelDeleted, Ended
  <2>2. UNCHANGED <<blocked, announced>>
    BY <1>9 DEF Refused, Found, Downloaded, MessageDeleted, ChannelDeleted
  <2>. QED
    BY <1>a, <1>b, <1>d, <2>1, <2>2
<1>10. ASSUME NEW c \in Calls, Uploaded(c) PROVE Goal
  <2>1. CASE End(c, "failed")
    BY <1>10, <1>a, <1>b, <1>d, <2>1 DEF Uploaded, Ended
  <2>2. CASE Set(c, [call[c] EXCEPT !.at = "ok", !.due = 0, !.result = Mine(c)])
    <3>1. call'[c] = [call[c] EXCEPT !.at = "ok", !.due = 0, !.result = Mine(c)] /\ Others(c)
      BY <1>0, <2>2 DEF Set
    <3>2. call'[c].at = "ok" /\ call'[c].due = 0
      BY <1>0, <3>1 DEF CallState
    <3>3. Covered(c)'
      BY <3>2 DEF Covered
    <3>. QED
      BY <1>10, <1>a, <1>b, <3>1, <3>3 DEF Uploaded
  <2>. QED
    BY <1>10, <2>1, <2>2 DEF Uploaded
<1>11. ASSUME Tick PROVE Goal
  <2>1. Limits
    BY <1>0, <1>11, TimesAre, HigherIs DEF Tick, PatientInv
  <2>2. ASSUME NEW c \in Calls PROVE Covered(c)'
    <3>1. /\ call'[c] = [call[c] EXCEPT !.sleep = Less(@), !.due = Less(@)]
          /\ \A k \in Keys : blocked'[k] = Less(blocked[k])
      BY <1>11 DEF Tick
    <3>2. /\ call'[c].at = call[c].at /\ call'[c].op = call[c].op
          /\ call'[c].sleep = Less(call[c].sleep) /\ call'[c].due = Less(call[c].due)
      BY <1>0, <3>1 DEF CallState
    <3>3. Key(c)' = Key(c) /\ Key(c) \in Keys /\ "global" \in Keys
      BY <3>2 DEF Key, Keys
    <3>4. /\ blocked["global"] \in Nat /\ blocked[Key(c)] \in Nat
          /\ call[c].sleep \in Nat /\ call[c].due \in Nat
      BY <1>0, <3>3, TimesAre
    <3>5. /\ Higher(blocked'["global"], blocked'[Key(c)]) = Less(Higher(blocked["global"], blocked[Key(c)]))
          /\ Higher(call'[c].sleep, blocked'[Key(c)]) = Less(Higher(call[c].sleep, blocked[Key(c)]))
          /\ Higher(blocked["global"], blocked[Key(c)]) \in Nat
          /\ Higher(call[c].sleep, blocked[Key(c)]) \in Nat
      <4>1. \A a, b \in Nat : /\ Higher(Less(a), Less(b)) = Less(Higher(a, b))
                              /\ Higher(a, b) \in Nat
        BY HigherIs
      <4>2. /\ blocked'["global"] = Less(blocked["global"])
            /\ blocked'[Key(c)] = Less(blocked[Key(c)])
        BY <3>1, <3>3
      <4>3. Higher(Less(blocked["global"]), Less(blocked[Key(c)]))
              = Less(Higher(blocked["global"], blocked[Key(c)]))
        BY <3>4, <4>1
      <4>4. Higher(Less(call[c].sleep), Less(blocked[Key(c)]))
              = Less(Higher(call[c].sleep, blocked[Key(c)]))
        BY <3>4, <4>1
      <4>5. /\ Higher(blocked["global"], blocked[Key(c)]) \in Nat
            /\ Higher(call[c].sleep, blocked[Key(c)]) \in Nat
        BY <3>4, <4>1
      <4>. QED
        BY <3>2, <4>2, <4>3, <4>4, <4>5
    <3>6. \A a, b \in Nat : a <= b => Less(a) <= Less(b)
      BY HigherIs
    <3>7. Less(0) = 0
      BY DEF Less
    <3>. QED
      BY <3>2, <3>3, <3>4, <3>5, <3>6, <3>7 DEF Covered, PatientInv
  <2>. QED
    BY <2>1, <2>2
<1>12. ASSUME UNCHANGED vars PROVE Goal
  BY <1>12 DEF vars, PatientInv, Covered, Key
<1>. HIDE DEF Goal
<1>13. Goal
  BY <1>1, <1>2, <1>3, <1>4, <1>5, <1>6, <1>7, <1>8, <1>9, <1>10, <1>11, <1>12
     DEF Next, Step, Answer
<1>. QED
  BY <1>0, <1>13 DEF PatientInv, Goal

\* An attempt is sent after the waits that Discord had asked for, of whichever call, when
\* the attempt began to wait.
THEOREM CallsArePatient == Spec => []Patient
<1>1. Init => PatientInv
  <2>. SUFFICES ASSUME Init PROVE PatientInv
    OBVIOUS
  <2>1. \A c \in Calls : call[c].at = "idle" /\ call[c].due = 0
    BY DEF Init
  <2>2. \A k \in Keys : announced[k] <= blocked[k]
    BY DEF Init
  <2>. QED
    BY <2>1, <2>2, TypedInit DEF PatientInv, Covered
<1>2. PatientInv => Patient
  BY DEF PatientInv, Covered, Patient, At
<1>. QED
  BY <1>1, <1>2, PatientStep, PTL DEF Spec

-----------------------------------------------------------------------------
(***************************************************************************)
(* Outcomes.                                                               *)
(***************************************************************************)
\* A message the catalog may name: an old one, or the result of an upload that is done.
Named(m) ==
  \/ m = Stored
  \/ \E d \in Calls : call[d].op = "upload" /\ At(d, "ok") /\ m = call[d].result

\* What an upload or a removal that is done has left.
Done(c) ==
  /\ call[c].op = "upload" /\ At(c, "ok") => call[c].result \in posted /\ call[c].result[1] = c
  /\ call[c].op = "delete" /\ At(c, "ok") => call[c].target \notin discord
  /\ call[c].op = "drop" /\ At(c, "ok") => ~open
  /\ At(c, "notfound") => call[c].target \notin discord

\* A message that was posted is there, or somebody is about to remove it or has done so;
\* a channel that is gone is empty.
HonestInv ==
  /\ Typed
  /\ Stored \in posted
  /\ ~open => discord = {}
  /\ \A m \in posted : m \in discord \/ Removers(m) # {}
  /\ \A c \in Calls : At(c, "idle") => call[c].op = None
  /\ \A c \in Calls : Named(call[c].target) /\ Done(c)

\* A call keeps what it asks for, and its end.
Keeps(c) ==
  /\ ~At(c, "idle") => call'[c].op = call[c].op /\ call'[c].target = call[c].target
  /\ At(c, "idle") => \/ /\ call'[c].at = "idle"
                         /\ call'[c].op = call[c].op /\ call'[c].target = call[c].target
                      \/ call'[c].at = "loop" /\ Named(call'[c].target)
  /\ call[c].at # "idle" => call'[c].at # "idle"
  /\ call[c].at \in Ended => call'[c].at = call[c].at /\ call'[c].result = call[c].result
  /\ call'[c].at \in {"ok", "notfound"} /\ call'[c].at # call[c].at => call[c].at = "sent"

\* Only a call that is sent changes what is on Discord.
LEMMA WhoPosts ==
  ASSUME Typed, [Next]_vars
  PROVE  \/ UNCHANGED <<open, discord, posted>>
         \/ \E c \in Calls : At(c, "sent") /\ (Effect(c) \/ NoEffect)
BY DEF Next, Step, Answer, Start, Cancel, Loop, WaitGlobal, WaitKey, Send, Retry, Limited,
       Refused, Uploaded, Found, Downloaded, MessageDeleted, ChannelDeleted, Tick, NoEffect,
       vars

\* What a step makes of one call that is set to k.
LEMMA KeepsSet ==
  ASSUME Typed, NEW c \in Calls, NEW k \in CallState, Set(c, k),
         /\ k.op = call[c].op /\ k.target = call[c].target /\ k.at # "idle"
         /\ call[c].at \notin {"idle"} \cup Ended
         /\ k.at \in Ended => call[c].at = "sent"
  PROVE  \A e \in Calls : Keeps(e)
<1>1. call \in [Calls -> CallState] /\ call' = [call EXCEPT ![c] = k]
  BY DEF Typed, Set
<1>2. call'[c] = k /\ \A e \in Calls \ {c} : call'[e] = call[e]
  BY <1>1
<1>3. Keeps(c)
  BY <1>2 DEF Keeps, At, Ended
<1>4. \A e \in Calls \ {c} : Keeps(e)
  BY <1>2 DEF Keeps, At
<1>. QED
  BY <1>3, <1>4

\* What a step makes of the calls.
LEMMA CallsKeep ==
  ASSUME Typed, [Next]_vars
  PROVE  \A e \in Calls : Keeps(e)
<1>0. call \in [Calls -> CallState] /\ \A c \in Calls : call[c] \in CallState
  BY DEF Typed
<1>. DEFINE Goal == \A e \in Calls : Keeps(e)
<1>a. ASSUME NEW c \in Calls, NEW d \in 0 .. Higher(MaxWait, 1), Again(c, d),
             call[c].at \in {"ready", "sent"}
      PROVE  Goal
  <2>. DEFINE k == [call[c] EXCEPT !.at = "loop", !.attempt = @ + 1, !.sleep = d, !.due = 0]
  <2>1. Set(c, k) /\ call[c].attempt + 1 \in 0 .. MaxRetries /\ 0 \in 0 .. MaxWait
    BY <1>0, <1>a, ClientAssumption DEF Again, Typed, CallState
  <2>2. k \in CallState /\ k.op = call[c].op /\ k.target = call[c].target /\ k.at = "loop"
    BY <1>0, <2>1 DEF CallState, Stages
  <2>. HIDE DEF k
  <2>. QED
    BY <1>a, <2>1, <2>2, KeepsSet DEF Ended
<1>b. ASSUME NEW c \in Calls, NEW st \in Ended, End(c, st),
             call[c].at = "sent" \/ (st = "failed" /\ call[c].at = "loop")
      PROVE  Goal
  <2>1. call'[c] = [call[c] EXCEPT !.at = st, !.due = 0] /\ \A e \in Calls \ {c} : call'[e] = call[e]
    BY <1>0, <1>b DEF End, Set
  <2>2. call'[c].at = st /\ call'[c].op = call[c].op /\ call'[c].target = call[c].target
    BY <1>0, <2>1 DEF CallState
  <2>. QED
    BY <1>b, <2>1, <2>2 DEF Keeps, At, Ended
<1>1. ASSUME NEW c \in Calls, NEW op \in Asks[c], NEW m \in Messages, Start(c, op, m) PROVE Goal
  <2>1. call'[c] = [call[c] EXCEPT !.op = op, !.at = "loop", !.target = m]
        /\ call[c].at = "idle" /\ \A e \in Calls \ {c} : call'[e] = call[e]
    BY <1>0, <1>1 DEF Start, Set, At
  <2>2. call'[c].at = "loop" /\ call'[c].target = m
    BY <1>0, <2>1 DEF CallState
  <2>3. Named(m)
    BY <1>1 DEF Start, Named
  <2>. QED
    BY <2>1, <2>2, <2>3 DEF Keeps, At, Ended
<1>2. ASSUME NEW c \in Calls, Cancel(c) PROVE Goal
  <2>. DEFINE k == [call[c] EXCEPT !.cancelled = TRUE]
  <2>1. /\ k \in CallState /\ k.op = call[c].op /\ k.target = call[c].target /\ k.at = call[c].at
        /\ Set(c, k) /\ call[c].at \notin {"idle"} \cup Ended
    BY <1>0, <1>2 DEF Cancel, CallState
  <2>. HIDE DEF k
  <2>. QED
    BY <2>1, KeepsSet DEF Ended
<1>3. ASSUME NEW c \in Calls, Loop(c) PROVE Goal
  <2>1. CASE End(c, "failed")
    BY <1>3, <1>b, <2>1 DEF Loop, At, Ended
  <2>2. CASE Set(c, [call[c] EXCEPT !.at = "ready"])
    <3>1. call'[c] = [call[c] EXCEPT !.at = "ready"] /\ \A e \in Calls \ {c} : call'[e] = call[e]
      BY <1>0, <2>2 DEF Set
    <3>2. call'[c].at = "ready" /\ call'[c].op = call[c].op /\ call'[c].target = call[c].target
      BY <1>0, <3>1 DEF CallState
    <3>. QED
      BY <1>3, <3>1, <3>2 DEF Keeps, At, Ended, Loop
  <2>3. CASE Set(c, [call[c] EXCEPT !.at = "global",
                       !.due = Higher(announced["global"], announced[Key(c)])])
    <3>. DEFINE h == Higher(announced["global"], announced[Key(c)])
    <3>1. /\ call'[c] = [call[c] EXCEPT !.at = "global", !.due = h]
          /\ \A e \in Calls \ {c} : call'[e] = call[e]
      BY <1>0, <2>3 DEF Set
    <3>. HIDE DEF h
    <3>2. call'[c].at = "global" /\ call'[c].op = call[c].op /\ call'[c].target = call[c].target
      BY <1>0, <3>1 DEF CallState
    <3>. QED
      BY <1>3, <3>1, <3>2 DEF Keeps, At, Ended, Loop
  <2>. QED
    BY <1>3, <2>1, <2>2, <2>3 DEF Loop
<1>4. ASSUME NEW c \in Calls, WaitGlobal(c) \/ WaitKey(c) PROVE Goal
  <2>1. PICK key \in Keys, next \in {"key", "ready"} :
          call' = [call EXCEPT ![c] = [call[c] EXCEPT !.sleep = blocked[key], !.at = next]]
    BY <1>4 DEF Key, Keys, WaitGlobal, WaitKey, Wait, Set
  <2>2. /\ call'[c] = [call[c] EXCEPT !.sleep = blocked[key], !.at = next]
        /\ \A e \in Calls \ {c} : call'[e] = call[e]
    BY <1>0, <2>1
  <2>3. call'[c].at = next /\ call'[c].op = call[c].op /\ call'[c].target = call[c].target
    BY <1>0, <2>2 DEF CallState
  <2>. QED
    BY <1>4, <2>2, <2>3 DEF Keeps, At, Ended, WaitGlobal, WaitKey
<1>5. ASSUME NEW c \in Calls, Send(c) PROVE Goal
  <2>1. CASE Again(c, 1)
    BY <1>5, <1>a, <2>1, Times DEF Send, At
  <2>2. CASE Set(c, [call[c] EXCEPT !.at = "sent"])
    <3>1. call'[c] = [call[c] EXCEPT !.at = "sent"] /\ \A e \in Calls \ {c} : call'[e] = call[e]
      BY <1>0, <2>2 DEF Set
    <3>2. call'[c].at = "sent" /\ call'[c].op = call[c].op /\ call'[c].target = call[c].target
      BY <1>0, <3>1 DEF CallState
    <3>. QED
      BY <1>5, <3>1, <3>2 DEF Keeps, At, Ended, Send
  <2>. QED
    BY <1>5, <2>1, <2>2 DEF Send
<1>6. ASSUME NEW c \in Calls, Retry(c) PROVE Goal
  BY <1>6, <1>a, Times DEF Retry, At
<1>7. ASSUME NEW c \in Calls, NEW k \in Keys, NEW d \in 1 .. MaxWait, Limited(c, k, d) PROVE Goal
  <2>1. d \in 0 .. Higher(MaxWait, 1)
    BY ClientAssumption, Times
  <2>. QED
    BY <1>7, <1>a, <2>1 DEF Limited, At
<1>8. ASSUME NEW c \in Calls, Refused(c) \/ Found(c) \/ Downloaded(c) \/ MessageDeleted(c)
                              \/ ChannelDeleted(c)
      PROVE  Goal
  <2>1. PICK st \in Ended : End(c, st)
    BY <1>8 DEF Refused, Found, Downloaded, MessageDeleted, ChannelDeleted, Ended
  <2>2. call[c].at = "sent"
    BY <1>8 DEF Refused, Found, Downloaded, MessageDeleted, ChannelDeleted, At
  <2>. QED
    BY <1>b, <2>1, <2>2
<1>9. ASSUME NEW c \in Calls, Uploaded(c) PROVE Goal
  <2>1. CASE End(c, "failed")
    BY <1>9, <1>b, <2>1 DEF Uploaded, At, Ended
  <2>2. CASE Set(c, [call[c] EXCEPT !.at = "ok", !.due = 0, !.result = Mine(c)])
    <3>1. /\ call'[c] = [call[c] EXCEPT !.at = "ok", !.due = 0, !.result = Mine(c)]
          /\ \A e \in Calls \ {c} : call'[e] = call[e]
      BY <1>0, <2>2 DEF Set
    <3>2. call'[c].at = "ok" /\ call'[c].op = call[c].op /\ call'[c].target = call[c].target
      BY <1>0, <3>1 DEF CallState
    <3>. QED
      BY <1>9, <3>1, <3>2 DEF Keeps, At, Ended, Uploaded
  <2>. QED
    BY <1>9, <2>1, <2>2 DEF Uploaded
<1>10. ASSUME Tick PROVE Goal
  <2>1. ASSUME NEW c \in Calls
        PROVE  /\ call'[c].at = call[c].at /\ call'[c].op = call[c].op
               /\ call'[c].target = call[c].target /\ call'[c].result = call[c].result
    <3>1. call'[c] = [call[c] EXCEPT !.sleep = Less(@), !.due = Less(@)]
      BY <1>10 DEF Tick
    <3>. QED
      BY <1>0, <3>1 DEF CallState
  <2>. QED
    BY <2>1 DEF Keeps, At
<1>11. ASSUME UNCHANGED vars PROVE Goal
  BY <1>11 DEF vars, Keeps, At
<1>. HIDE DEF Goal
<1>12. Goal
  BY <1>1, <1>2, <1>3, <1>4, <1>5, <1>6, <1>7, <1>8, <1>9, <1>10, <1>11
     DEF Next, Step, Answer
<1>. QED
  BY <1>12 DEF Goal

\* What an answer leaves of a call that it ends well.
LEMMA NewlyDone ==
  ASSUME HonestInv, [Next]_vars, NEW c \in Calls, call'[c].at # call[c].at,
         call'[c].at \in {"ok", "notfound"}
  PROVE  Done(c)'
<1>0. /\ call \in [Calls -> CallState] /\ call[c] \in CallState /\ call[c].at = "sent"
      /\ Keeps(c) /\ open \in BOOLEAN
  BY CallsKeep DEF HonestInv, Typed, TypeOK, Keeps, At
<1>2. /\ \A d \in Calls : Retry(d) => d # c
      /\ \A d \in Calls, k \in Keys, w \in 1 .. MaxWait : Limited(d, k, w) => d # c
      /\ \A d \in Calls : Refused(d) => d # c
  <2>1. \A d \in Calls, w \in Nat : Again(d, w) => d # c
    BY <1>0 DEF Again, Set, CallState
  <2>2. \A d \in Calls : End(d, "failed") => d # c
    BY <1>0 DEF End, Set, CallState
  <2>3. 1 \in Nat /\ \A w \in 1 .. MaxWait : w \in Nat
    BY ClientAssumption
  <2>. HIDE DEF Again, End
  <2>. QED
    BY <2>1, <2>2, <2>3 DEF Retry, Limited, Refused
<1>3. Found(c) \/ Downloaded(c) \/ Uploaded(c) \/ MessageDeleted(c) \/ ChannelDeleted(c)
  <2>1. ASSUME NEW d \in Calls, d # c,
               \/ \E op \in Asks[d], m \in Messages : Start(d, op, m)
               \/ Cancel(d) \/ Step(d) \/ Answer(d)
        PROVE  call'[c] = call[c]
    <3>1. \E k : Set(d, k)
      BY <2>1 DEF Start, Cancel, Step, Loop, WaitGlobal, WaitKey, Wait, Send, Again, End, Answer,
                  Retry, Limited, Refused, Uploaded, Found, Downloaded, MessageDeleted,
                  ChannelDeleted
    <3>. QED
      BY <1>0, <2>1, <3>1 DEF Set
  <2>2. /\ \A op \in Asks[c], m \in Messages : ~Start(c, op, m)
        /\ ~Step(c)
    BY <1>0 DEF Start, Step, Loop, WaitGlobal, WaitKey, Send, At
  <2>3. ~Cancel(c)
    BY <1>0 DEF Cancel, Set, CallState
  <2>4. ~Tick
    <3>1. Tick => call'[c] = [call[c] EXCEPT !.sleep = Less(@), !.due = Less(@)]
      BY DEF Tick
    <3>. QED
      BY <1>0, <3>1 DEF CallState
  <2>5. Answer(c)
    BY <2>1, <2>2, <2>3, <2>4 DEF Next, vars
  <2>. QED
    BY <1>2, <2>5 DEF Answer
<1>4. CASE Uploaded(c)
  <2>1. Set(c, [call[c] EXCEPT !.at = "ok", !.due = 0, !.result = Mine(c)]) \/ End(c, "failed")
    BY <1>4 DEF Uploaded
  <2>2. call'[c] = [call[c] EXCEPT !.at = "ok", !.due = 0, !.result = Mine(c)]
    BY <1>0, <2>1 DEF Set, End, CallState
  <2>3. call'[c].at = "ok" /\ call'[c].result = Mine(c) /\ call'[c].op = "upload"
    BY <1>0, <1>4, <2>2 DEF CallState, Uploaded
  <2>4. Mine(c) \in posted'
    BY <1>4 DEF Uploaded, Effect
  <2>. QED
    BY <2>3, <2>4 DEF Done, At, Mine
<1>5. CASE MessageDeleted(c) \/ ChannelDeleted(c)
  <2>1. /\ call[c].op = "delete" => discord' = discord \ {call[c].target}
        /\ call[c].op = "drop" => ~open'
        /\ call[c].op \in {"delete", "drop"} /\ End(c, "ok")
    BY <1>0, <1>5 DEF MessageDeleted, ChannelDeleted, Effect
  <2>2. call'[c].op = call[c].op /\ call'[c].target = call[c].target /\ call'[c].at = "ok"
    BY <1>0, <2>1 DEF End, Set, CallState
  <2>. QED
    BY <2>1, <2>2 DEF Done, At
<1>6. CASE Found(c) \/ Downloaded(c)
  <2>1. /\ discord' = discord /\ call[c].op \in {"url", "download"}
        /\ \/ End(c, "ok") \/ End(c, "failed")
           \/ End(c, "notfound") /\ call[c].target \notin discord
    BY <1>6 DEF Found, Downloaded, NoEffect
  <2>2. /\ call'[c].op = call[c].op /\ call'[c].target = call[c].target
        /\ call'[c].at = "notfound" => call[c].target \notin discord
    <3>1. \A st : End(c, st) => /\ call'[c].op = call[c].op /\ call'[c].at = st
                                /\ call'[c].target = call[c].target
      BY <1>0 DEF End, Set, CallState
    <3>. HIDE DEF End
    <3>. QED
      BY <2>1, <3>1
  <2>. QED
    BY <2>1, <2>2 DEF Done, At
<1>. QED
  BY <1>3, <1>4, <1>5, <1>6

\* Every step keeps outcomes honest.
LEMMA HonestStep == HonestInv /\ [Next]_vars => HonestInv'
<1>. SUFFICES ASSUME HonestInv, [Next]_vars PROVE HonestInv'
  OBVIOUS
<1>0. Typed /\ Typed' /\ (\A c \in Calls : Keeps(c))
  BY TypedStep, CallsKeep DEF HonestInv
<1>a. \/ UNCHANGED <<open, discord, posted>>
      \/ \E c \in Calls : At(c, "sent") /\ (Effect(c) \/ NoEffect)
  BY <1>0, WhoPosts
<1>1. Stored \in posted' /\ posted \subseteq posted'
  BY <1>0, <1>a, EffectIs DEF HonestInv
<1>2. (~open' => discord' = {}) /\ (~open => ~open')
  BY <1>0, <1>a, EffectIs DEF HonestInv
<1>3. ASSUME NEW m \in posted' PROVE m \in discord' \/ Removers(m)' # {}
  <2>1. Removers(m) \subseteq Removers(m)'
    BY <1>0, ClientAssumption DEF Removers, Keeps, HonestInv, At, Ops
  <2>2. CASE UNCHANGED <<open, discord, posted>>
    BY <2>1, <2>2 DEF HonestInv
  <2>3. ASSUME NEW c \in Calls, At(c, "sent"), Effect(c) \/ NoEffect
        PROVE  m \in discord' \/ Removers(m)' # {}
    <3>1. /\ posted' \subseteq posted \cup discord'
          /\ \A n \in discord \ discord' :
               \/ call[c].op = "delete" /\ n = call[c].target
               \/ call[c].op = "drop"
      BY <1>0, <2>3, EffectIs
    <3>2. m \in discord \ discord' => c \in Removers(m)
      BY <3>1 DEF Removers
    <3>. QED
      BY <2>1, <3>1, <3>2 DEF HonestInv
  <2>. QED
    BY <1>a, <2>2, <2>3
<1>4. \A c \in Calls : At(c, "idle")' => call'[c].op = None
  BY <1>0 DEF HonestInv, Keeps, At
<1>5. \A m : Named(m) => Named(m)'
  BY <1>0 DEF Named, Keeps, At, Ended
<1>6. \A c \in Calls : Named(call[c].target)'
  <2>. SUFFICES ASSUME NEW c \in Calls PROVE Named(call[c].target)'
    OBVIOUS
  <2>1. Named(call[c].target)
    BY DEF HonestInv
  <2>2. call'[c].target = call[c].target \/ Named(call'[c].target)
    BY <1>0 DEF Keeps
  <2>3. Named(call'[c].target)
    BY <2>1, <2>2
  <2>. QED
    BY <2>3, <1>0 DEF Named, Keeps, At, Ended
<1>7. ASSUME NEW c \in Calls PROVE Done(c)'
  <2>1. CASE call'[c].at \notin {"ok", "notfound"}
    BY <2>1 DEF Done, At
  <2>2. CASE call'[c].at \in {"ok", "notfound"} /\ call'[c].at # call[c].at
    BY <2>2, NewlyDone
  <2>3. CASE call'[c].at \in {"ok", "notfound"} /\ call'[c].at = call[c].at
    <3>1. /\ call'[c].op = call[c].op /\ call'[c].target = call[c].target
          /\ call'[c].result = call[c].result /\ Done(c) /\ Named(call[c].target)
      BY <1>0, <2>3 DEF Keeps, At, Ended, HonestInv
    <3>2. call[c].target \notin discord' \ discord
      <4>1. SUFFICES ASSUME NEW e \in Calls, At(e, "sent"), call[c].target = Mine(e) PROVE FALSE
        BY <1>0, <1>a, EffectIs
      <4>2. Mine(e)[1] = e /\ Stored[1] = None /\ None \notin Calls
        BY ClientAssumption DEF Mine, Stored
      <4>3. PICK d \in Calls : /\ call[d].op = "upload" /\ At(d, "ok")
                               /\ call[c].target = call[d].result
        BY <3>1, <4>1, <4>2 DEF Named
      <4>4. call[d].result[1] = d
        BY <4>3 DEF HonestInv, Done
      <4>. QED
        BY <4>1, <4>2, <4>3, <4>4 DEF At
    <3>. QED
      BY <1>1, <1>2, <2>3, <3>1, <3>2 DEF Done, At
  <2>. QED
    BY <2>1, <2>2, <2>3
<1>. QED
  BY <1>0, <1>1, <1>2, <1>3, <1>4, <1>6, <1>7 DEF HonestInv

\* What a call reports is true for good, whatever was lost and retried.
THEOREM OutcomesAreHonest == Spec => []OutcomeHonest
<1>1. Init => HonestInv
  <2>. SUFFICES ASSUME Init PROVE HonestInv
    OBVIOUS
  <2>1. /\ open = TRUE /\ discord = {Stored} /\ posted = {Stored}
        /\ \A c \in Calls : call[c].at = "idle" /\ call[c].op = None /\ call[c].target = Stored
    BY DEF Init
  <2>. QED
    BY <2>1, TypedInit DEF HonestInv, Named, Done, At
<1>2. HonestInv => OutcomeHonest
  <2>. SUFFICES ASSUME HonestInv, NEW c \in Calls
                PROVE  /\ call[c].op = "upload" /\ At(c, "ok") =>
                            /\ call[c].result \in posted
                            /\ call[c].result \in discord \/ Removers(call[c].result) # {}
                       /\ call[c].op = "delete" /\ At(c, "ok") => call[c].target \notin discord
                       /\ call[c].op = "drop" /\ At(c, "ok") => discord = {}
                       /\ At(c, "notfound") => /\ call[c].target \notin discord
                                              /\ Removers(call[c].target) # {}
    BY DEF OutcomeHonest
  <2>1. call[c].target \in posted
    BY DEF HonestInv, Named, Done
  <2>. QED
    BY <2>1 DEF HonestInv, Done
<1>. QED
  BY <1>1, <1>2, HonestStep, PTL DEF Spec
===============================================================================
