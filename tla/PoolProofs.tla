------------------------------ MODULE PoolProofs ------------------------------
(***************************************************************************)
(* Proofs about StoragePool, for any number of calls, categories, channels *)
(* and faults: types, that a row points to its channel's own webhook, that *)
(* nothing is made twice, and that an upload gets the channels it wants.   *)
(*                                                                         *)
(* What an action does to its call is stated once, as a relation between   *)
(* the call's old and new local state (Goes, Lists, Takes, Puts, ...); the *)
(* ...View lemmas reduce each action to these and to what it does to       *)
(* Discord and the catalog.  Gates, the first invariant, has the types,    *)
(* what a call holds at each stage (Ways), and who is inside: one boot at  *)
(* a time (OneBoot), one call as long as nothing overlapped (Solo), and    *)
(* none beside a cleaning or a nameless setup until that is noted (Pure).  *)
(* The other three rest on it and not on each other:                       *)
(*   RowsInv    a row, and an item not yet written, is its channel's own;  *)
(*   OnceInv    Discord holds nothing twice, and a call that syncs alone   *)
(*              knows every category and counts no channel too few;        *)
(*   EnoughInv  every channel an upload counts is listed, just made, or    *)
(*              in the catalog.                                            *)
(***************************************************************************)
EXTENDS StoragePool, FiniteSetTheorems, TLAPS

-----------------------------------------------------------------------------
(***************************************************************************)
(* Data.                                                                   *)
(***************************************************************************)
\* Functions from some elements of S to T.
Partial(S, T) == UNION {[D -> T] : D \in SUBSET S}

Stages == {"idle", "lock", "meta", "postmeta", "list", "grow", "postcat", "posthook",
           "rehook", "wipe", "forget", "done", "failed"}
Places == ChanIds \cup {NoId}

JobSet == [op : Ops, want : Wants, at : Stages, cats : Partial(CatIds, Nat),
           order : Partial(CatIds, Nat), count : Nat, new : Places, todo : SUBSET ChanIds,
           items : Partial(Places, Nat), meta : Places, result : SUBSET Places]

Inside(c) == call[c].at \notin Outside

Typed ==
  /\ category \in [CatIds -> {None, Gone} \cup (Families \X Nat)]
  /\ channel \in [ChanIds -> {None, Gone, Root, Meta} \cup CatIds]
  /\ hooks \in [ChanIds -> Nat]
  /\ row \in [Places -> Rows \cup {None}]
  /\ pinned \in CatIds \cup {None}
  /\ call \in [Calls -> JobSet]
  /\ \A c \in Calls : call[c].op \in Asks[c]
  /\ faults \in 0 .. MaxFaults /\ hit \subseteq Calls /\ spoiled \subseteq Spoilers

-----------------------------------------------------------------------------
\* A function of Partial, by its values.
LEMMA PartialIs ==
  ASSUME NEW S, NEW T, NEW f
  PROVE  f \in Partial(S, T) <=> /\ f = [x \in DOMAIN f |-> f[x]]
                                 /\ DOMAIN f \subseteq S
                                 /\ \A x \in DOMAIN f : f[x] \in T
<1>1. ASSUME f \in Partial(S, T) PROVE /\ f = [x \in DOMAIN f |-> f[x]]
                                 /\ DOMAIN f \subseteq S
                                 /\ \A x \in DOMAIN f : f[x] \in T
  <2>1. PICK D \in SUBSET S : f \in [D -> T]
    BY <1>1 DEF Partial
  <2> QED BY <2>1
<1>2. ASSUME f = [x \in DOMAIN f |-> f[x]], DOMAIN f \subseteq S,
             \A x \in DOMAIN f : f[x] \in T
      PROVE  f \in Partial(S, T)
  <2>1. f \in [DOMAIN f -> T]
    BY <1>2
  <2> QED BY <2>1, <1>2 DEF Partial
<1> QED BY <1>1, <1>2

\* What an entry more does to a function.
LEMMA WithIs ==
  ASSUME NEW S, NEW T, NEW f \in Partial(S, T), NEW k \in S, NEW v \in T
  PROVE  /\ With(f, k, v) \in Partial(S, T)
         /\ DOMAIN With(f, k, v) = DOMAIN f \cup {k}
         /\ With(f, k, v)[k] = v
         /\ \A x \in DOMAIN f : x # k => With(f, k, v)[x] = f[x]
<1> DEFINE g == With(f, k, v)
<1>1. /\ DOMAIN f \subseteq S
      /\ \A x \in DOMAIN f : f[x] \in T
  BY PartialIs
<1>2. /\ DOMAIN g = DOMAIN f \cup {k}
      /\ \A x \in DOMAIN g : g[x] = IF x = k THEN v ELSE f[x]
      /\ g = [x \in DOMAIN g |-> g[x]]
  BY DEF With
<1> HIDE DEF g
<1>3. g \in Partial(S, T)
  <2>1. DOMAIN g \subseteq S /\ \A x \in DOMAIN g : g[x] \in T
    BY <1>1, <1>2
  <2> QED BY <2>1, <1>2, PartialIs
<1> QED BY <1>2, <1>3 DEF g

\* What an entry less does to a function.
LEMMA WithoutIs ==
  ASSUME NEW S, NEW T, NEW f \in Partial(S, T), NEW k
  PROVE  /\ [x \in DOMAIN f \ {k} |-> f[x]] \in Partial(S, T)
         /\ DOMAIN [x \in DOMAIN f \ {k} |-> f[x]] = DOMAIN f \ {k}
         /\ \A x \in DOMAIN f \ {k} : [y \in DOMAIN f \ {k} |-> f[y]][x] = f[x]
<1>1. /\ DOMAIN f \subseteq S
      /\ \A x \in DOMAIN f : f[x] \in T
  BY PartialIs
<1> DEFINE g == [x \in DOMAIN f \ {k} |-> f[x]]
<1>2. /\ DOMAIN g = DOMAIN f \ {k}
      /\ \A x \in DOMAIN g : g[x] = f[x]
      /\ g = [x \in DOMAIN g |-> g[x]]
  OBVIOUS
<1> HIDE DEF g
<1>3. g \in Partial(S, T)
  <2>1. DOMAIN g \subseteq S /\ \A x \in DOMAIN g : g[x] \in T
    BY <1>1, <1>2
  <2> QED BY <2>1, <1>2, PartialIs
<1> QED BY <1>2, <1>3 DEF g

\* The empty table, and a table with one entry changed.
LEMMA OtherTables ==
  ASSUME NEW S, NEW T
  PROVE  /\ Empty \in Partial(S, T) /\ DOMAIN Empty = {}
         /\ \A f \in Partial(S, T), k, v \in T : [f EXCEPT ![k] = v] \in Partial(S, T)
<1>1. Empty \in Partial(S, T) /\ DOMAIN Empty = {}
  <2>1. DOMAIN Empty = {} /\ Empty = [x \in DOMAIN Empty |-> Empty[x]]
    BY DEF Empty
  <2> QED BY <2>1, PartialIs
<1>2. ASSUME NEW f \in Partial(S, T), NEW k, NEW v \in T
      PROVE  [f EXCEPT ![k] = v] \in Partial(S, T)
  <2> DEFINE g == [f EXCEPT ![k] = v]
  <2>1. /\ DOMAIN f \subseteq S /\ f = [x \in DOMAIN f |-> f[x]]
        /\ \A x \in DOMAIN f : f[x] \in T
    BY PartialIs
  <2>2. /\ DOMAIN g = DOMAIN f
        /\ g = [x \in DOMAIN g |-> g[x]]
        /\ \A x \in DOMAIN g : g[x] = IF x = k THEN v ELSE f[x]
    BY <2>1
  <2> HIDE DEF g
  <2>3. DOMAIN g \subseteq S /\ \A x \in DOMAIN g : g[x] \in T
    BY <2>1, <2>2
  <2> QED BY <2>2, <2>3, PartialIs DEF g
<1> QED BY <1>1, <1>2

-----------------------------------------------------------------------------
(***************************************************************************)
(* How the local state of a call changes, from k to j.                     *)
(***************************************************************************)
KeepsAsk(k, j)  == j.op = k.op /\ j.want = k.want
KeepsPool(k, j) == j.cats = k.cats /\ j.order = k.order /\ j.count = k.count
KeepsRest(k, j) == j.todo = k.todo /\ j.items = k.items /\ j.result = k.result

Goes(k, j, st) ==
  KeepsAsk(k, j) /\ KeepsPool(k, j) /\ KeepsRest(k, j) /\ j.at = st /\ j.new = k.new /\ j.meta = k.meta
Learns(k, j, h) ==
  KeepsAsk(k, j) /\ KeepsPool(k, j) /\ KeepsRest(k, j) /\ j.at = "list" /\ j.new = k.new /\ j.meta = h
Lists(k, j, f, g, S, n) ==
  /\ KeepsAsk(k, j) /\ j.cats = f /\ j.order = g /\ j.count = n /\ j.todo = S
  /\ j.items = k.items /\ j.result = k.result /\ j.at = "grow" /\ j.new = k.new /\ j.meta = k.meta
Gets(k, j, f, g) ==
  /\ KeepsAsk(k, j) /\ KeepsRest(k, j) /\ j.cats = f /\ j.order = g /\ j.count = k.count
  /\ j.at = "grow" /\ j.new = k.new /\ j.meta = k.meta
Takes(k, j, h, f, n) ==
  /\ KeepsAsk(k, j) /\ KeepsRest(k, j) /\ j.cats = f /\ j.order = k.order /\ j.count = n
  /\ j.at = "posthook" /\ j.new = h /\ j.meta = k.meta
Puts(k, j, h, f) ==
  /\ KeepsAsk(k, j) /\ KeepsPool(k, j) /\ j.todo = k.todo \ {h} /\ j.items = f
  /\ j.result = k.result /\ j.at = "grow" /\ j.new = NoId /\ j.meta = k.meta
Rehooks(k, j, h) ==
  KeepsAsk(k, j) /\ KeepsPool(k, j) /\ KeepsRest(k, j) /\ j.at = "rehook" /\ j.new = h /\ j.meta = k.meta
Writes(k, j, f) ==
  /\ KeepsAsk(k, j) /\ KeepsPool(k, j) /\ j.todo = k.todo /\ j.items = f /\ j.result = k.result
  /\ j.at = k.at /\ j.new = k.new /\ j.meta = k.meta
Ends(k, j, st, S) ==
  /\ KeepsAsk(k, j) /\ j.cats = Empty /\ j.order = Empty /\ j.count = 0 /\ j.todo = {}
  /\ j.items = Empty /\ j.result = S /\ j.at = st /\ j.new = NoId /\ j.meta = NoId

\* A call goes on to its next request.
LEMMA GotoJob ==
  ASSUME NEW k \in JobSet, NEW st \in Stages, NEW j, j = [k EXCEPT !.at = st]
  PROVE  j \in JobSet /\ Goes(k, j, st)
BY DEF JobSet, Goes, KeepsAsk, KeepsPool, KeepsRest

\* The metadata channel is known.
LEMMA MetaJob ==
  ASSUME NEW k \in JobSet, NEW h \in ChanIds, NEW j,
         j = [k EXCEPT !.at = "list", !.meta = h]
  PROVE  j \in JobSet /\ Learns(k, j, h)
BY DEF JobSet, Learns, KeepsAsk, KeepsPool, KeepsRest, Stages, Places

\* The server's channels are listed.
LEMMA ListJob ==
  ASSUME NEW k \in JobSet, NEW f \in Partial(CatIds, Nat), NEW g \in Partial(CatIds, Nat),
         NEW S \in SUBSET ChanIds, NEW n \in Nat, NEW j,
         j = [k EXCEPT !.cats = f, !.order = g, !.todo = S, !.count = n, !.at = "grow"]
  PROVE  j \in JobSet /\ Lists(k, j, f, g, S, n)
BY DEF JobSet, Lists, KeepsAsk, KeepsPool, KeepsRest, Stages

\* A category more.
LEMMA GotJob ==
  ASSUME NEW k \in JobSet, NEW f \in Partial(CatIds, Nat), NEW g \in Partial(CatIds, Nat), NEW j,
         j = [k EXCEPT !.at = "grow", !.cats = f, !.order = g]
  PROVE  j \in JobSet /\ Gets(k, j, f, g)
BY DEF JobSet, Gets, KeepsAsk, KeepsPool, KeepsRest, Stages

\* A channel more.
LEMMA TookJob ==
  ASSUME NEW k \in JobSet, NEW h \in Places, NEW f \in Partial(CatIds, Nat), NEW n \in Nat, NEW j,
         j = [k EXCEPT !.at = "posthook", !.new = h, !.cats = f, !.count = n]
  PROVE  j \in JobSet /\ Takes(k, j, h, f, n)
BY DEF JobSet, Takes, KeepsAsk, KeepsPool, KeepsRest, Stages

\* A channel is listed with its webhook.
LEMMA ItemJob ==
  ASSUME NEW k \in JobSet, NEW h, NEW f \in Partial(Places, Nat), NEW j,
         j = [k EXCEPT !.items = f, !.todo = @ \ {h}, !.new = NoId, !.at = "grow"]
  PROVE  j \in JobSet /\ Puts(k, j, h, f)
BY DEF JobSet, Puts, KeepsAsk, KeepsPool, KeepsRest, Stages, Places

\* A channel is passed over.
LEMMA SkipJob ==
  ASSUME NEW k \in JobSet, NEW h, NEW j,
         j = [k EXCEPT !.todo = @ \ {h}, !.new = NoId, !.at = "grow"]
  PROVE  j \in JobSet /\ Puts(k, j, h, k.items)
BY DEF JobSet, Puts, KeepsAsk, KeepsPool, KeepsRest, Stages, Places

\* A channel has no webhook yet.
LEMMA RehookJob ==
  ASSUME NEW k \in JobSet, NEW h \in Places, NEW j,
         j = [k EXCEPT !.new = h, !.at = "rehook"]
  PROVE  j \in JobSet /\ Rehooks(k, j, h)
BY DEF JobSet, Rehooks, KeepsAsk, KeepsPool, KeepsRest, Stages

\* A channel is written down.
LEMMA RecordJob ==
  ASSUME NEW k \in JobSet, NEW f \in Partial(Places, Nat), NEW j, j = [k EXCEPT !.items = f]
  PROVE  j \in JobSet /\ Writes(k, j, f)
BY DEF JobSet, Writes, KeepsAsk, KeepsPool, KeepsRest

\* What a cleaning still has to delete.
LEMMA WipeJob ==
  ASSUME NEW k \in JobSet, NEW S \in SUBSET ChanIds, NEW f \in Partial(CatIds, Nat)
  PROVE  /\ [k EXCEPT !.at = "wipe", !.todo = S, !.order = f] \in JobSet
         /\ [k EXCEPT !.todo = S] \in JobSet
         /\ [k EXCEPT !.order = f] \in JobSet
BY DEF JobSet, Stages

\* A call that begins or ends knows nothing.
LEMMA BareJob ==
  ASSUME NEW k \in JobSet, NEW st \in Stages, NEW S \in SUBSET Places, NEW j,
         j = Job(k.op, k.want, st, S)
  PROVE  j \in JobSet /\ Ends(k, j, st, S)
<1>1. /\ Empty \in Partial(CatIds, Nat) /\ Empty \in Partial(Places, Nat)
      /\ NoId \in Places
  BY OtherTables DEF Places
<1> QED BY <1>1 DEF Job, JobSet, Ends, KeepsAsk

-----------------------------------------------------------------------------
(***************************************************************************)
(* Steps: the other calls stand still.                                     *)
(***************************************************************************)
\* The other calls stand still.
Alone(c) == \A d \in Calls \ {c} : call'[d] = call[d]

\* The tables of Discord and of the catalog keep their types.
WorldTyped ==
  /\ category' \in [CatIds -> {None, Gone} \cup (Families \X Nat)]
  /\ channel' \in [ChanIds -> {None, Gone, Root, Meta} \cup CatIds]
  /\ hooks' \in [ChanIds -> Nat]
  /\ row' \in [Places -> Rows \cup {None}]
  /\ pinned' = pinned
  /\ faults' \in 0 .. MaxFaults /\ hit' \subseteq Calls /\ spoiled' \subseteq Spoilers

\* The step of one call keeps the types if the call's new state has its type.
LEMMA SetIs ==
  ASSUME Typed, NEW c \in Calls, NEW j \in JobSet, Set(c, j), KeepsAsk(call[c], j), WorldTyped
  PROVE  Typed' /\ Alone(c) /\ call'[c] = j
<1>1. /\ call \in [Calls -> JobSet]
      /\ call' = [call EXCEPT ![c] = j]
  BY DEF Typed, Set
<1>2. /\ call' \in [Calls -> JobSet] /\ call'[c] = j
      /\ \A d \in Calls \ {c} : call'[d] = call[d]
  BY <1>1
<1>3. \A d \in Calls : call'[d].op \in Asks[d]
  <2>1. j.op \in Asks[c]
    BY DEF Typed, KeepsAsk
  <2> QED BY <1>2, <2>1 DEF Typed
<1> QED BY <1>2, <1>3 DEF Typed, WorldTyped, Alone

\* A call's state is a job.
LEMMA CallJob ==
  ASSUME Typed, NEW c \in Calls
  PROVE  call[c] \in JobSet
BY DEF Typed

\* The fields of a job.
LEMMA JobIs ==
  ASSUME NEW k \in JobSet
  PROVE  /\ k.op \in Ops /\ k.want \in Wants /\ k.at \in Stages /\ k.count \in Nat
         /\ k.cats \in Partial(CatIds, Nat) /\ k.order \in Partial(CatIds, Nat)
         /\ k.new \in Places /\ k.meta \in Places /\ k.todo \subseteq ChanIds
         /\ k.items \in Partial(Places, Nat) /\ k.result \subseteq Places
         /\ DOMAIN k.cats \subseteq CatIds /\ DOMAIN k.order \subseteq CatIds
         /\ DOMAIN k.items \subseteq Places
         /\ \A x \in DOMAIN k.cats : k.cats[x] \in Nat
         /\ \A x \in DOMAIN k.order : k.order[x] \in Nat
         /\ \A x \in DOMAIN k.items : k.items[x] \in Nat
<1>1. /\ k.op \in Ops /\ k.want \in Wants /\ k.at \in Stages /\ k.count \in Nat
      /\ k.cats \in Partial(CatIds, Nat) /\ k.order \in Partial(CatIds, Nat)
      /\ k.new \in Places /\ k.meta \in Places /\ k.todo \subseteq ChanIds
      /\ k.items \in Partial(Places, Nat) /\ k.result \subseteq Places
  BY DEF JobSet
<1>2. DOMAIN k.cats \subseteq CatIds /\ \A x \in DOMAIN k.cats : k.cats[x] \in Nat
  BY <1>1, PartialIs
<1>3. DOMAIN k.order \subseteq CatIds /\ \A x \in DOMAIN k.order : k.order[x] \in Nat
  BY <1>1, PartialIs
<1>4. DOMAIN k.items \subseteq Places /\ \A x \in DOMAIN k.items : k.items[x] \in Nat
  BY <1>1, PartialIs
<1> QED BY <1>1, <1>2, <1>3, <1>4

\* What goes wrong is counted.
LEMMA Counted ==
  ASSUME Typed, NEW c \in Calls
  PROVE  /\ Fault(c) => faults' \in 0 .. MaxFaults /\ hit' \subseteq Calls /\ hit' = hit \cup {c}
         /\ Fine => faults' \in 0 .. MaxFaults /\ hit' \subseteq Calls /\ hit' = hit
BY PoolAssumption DEF Typed, Fault, Fine

\* The ways a call can end.
LEMMA EndIs ==
  ASSUME Typed, NEW c \in Calls, NEW st \in Stages, NEW S \in SUBSET Places, End(c, st, S), WorldTyped
  PROVE  Typed' /\ Alone(c) /\ Ends(call[c], call'[c], st, S)
<1> DEFINE j == Job(call[c].op, call[c].want, st, S)
<1>1. j \in JobSet /\ Ends(call[c], j, st, S)
  BY CallJob, BareJob
<1>2. KeepsAsk(call[c], j)
  BY <1>1 DEF Ends
<1> HIDE DEF j
<1>3. Set(c, j)
  BY DEF End, j
<1> QED BY <1>1, <1>2, <1>3, SetIs

\* A call that fails.
LEMMA FailIs ==
  ASSUME Typed, NEW c \in Calls, Fail(c), WorldTyped
  PROVE  Typed' /\ Alone(c) /\ Ends(call[c], call'[c], "failed", {})
BY EndIs DEF Fail, Stages

\* A call that goes on to its next request.
LEMMA GotoIs ==
  ASSUME Typed, NEW c \in Calls, NEW st \in Stages, Goto(c, st), WorldTyped
  PROVE  Typed' /\ Alone(c) /\ Goes(call[c], call'[c], st)
<1> DEFINE j == [call[c] EXCEPT !.at = st]
<1>1. j \in JobSet /\ Goes(call[c], j, st)
  BY CallJob, GotoJob
<1>2. KeepsAsk(call[c], j)
  BY <1>1 DEF Goes
<1> HIDE DEF j
<1>3. Set(c, j)
  BY DEF Goto, j
<1> QED BY <1>1, <1>2, <1>3, SetIs

\* What a crowd spoils.
LEMMA CrowdIs ==
  ASSUME NEW c \in Calls
  PROVE  /\ Crowd(c) \subseteq Spoilers
         /\ \A d \in Calls \ {c} : Inside(d) =>
              /\ "overlap" \notin Crowd(c) => call[c].op = "boot" /\ call[d].op = "boot"
              /\ "taken" \notin Crowd(c) =>
                   {call[c].op, call[d].op} \cap {"auto", "clean"} = {}
<1> DEFINE others == {call[d].op : d \in {d \in Calls \ {c} : call[d].at \notin Outside}}
           both == others \cup {call[c].op}
<1>1. Crowd(c) = IF others = {} \/ both = {"boot"} THEN {}
     ELSE {"overlap"} \cup (IF both \cap {"auto", "clean"} = {} THEN {} ELSE {"taken"})
  BY DEF Crowd
<1>2. Crowd(c) \subseteq Spoilers
  <2> HIDE DEF both, others
  <2> QED BY <1>1 DEF Spoilers
<1>3. ASSUME NEW d \in Calls \ {c}, Inside(d)
      PROVE  /\ "overlap" \notin Crowd(c) => call[c].op = "boot" /\ call[d].op = "boot"
             /\ "taken" \notin Crowd(c) => {call[c].op, call[d].op} \cap {"auto", "clean"} = {}
  <2>1. call[d].op \in others
    BY <1>3 DEF Inside
  <2>2. call[d].op \in both /\ call[c].op \in both /\ others # {}
    BY <2>1
  <2> HIDE DEF both, others
  <2>3. CASE both = {"boot"}
    BY <2>2, <2>3
  <2>4. CASE both # {"boot"}
    <3>1. Crowd(c) = {"overlap"} \cup (IF both \cap {"auto", "clean"} = {} THEN {} ELSE {"taken"})
      BY <1>1, <2>2, <2>4
    <3> QED BY <3>1, <2>2
  <2> QED BY <2>3, <2>4
<1> QED BY <1>2, <1>3

-----------------------------------------------------------------------------
(***************************************************************************)
(* What each action does to the local state of its call.                   *)
(***************************************************************************)
\* What a call that begins does.
LEMMA EnterView ==
  ASSUME Typed, NEW c \in Calls, BeginUpload(c) \/ BeginSetup(c) \/ BeginBackup(c) \/ BeginBoot(c) \/ Lock(c)
  PROVE  /\ Typed' /\ Alone(c) /\ UNCHANGED <<category, channel, hooks, row, hit>>
         /\ \/ /\ call[c].at = "idle" /\ call[c].op = "boot" /\ spoiled' = spoiled
               /\ Goes(call[c], call'[c], "lock")
            \/ /\ call[c].at = "lock" /\ spoiled' = spoiled
               /\ Ends(call[c], call'[c], "done", {})
            \/ /\ \/ call[c].at = "idle" /\ call[c].op \notin {"boot", "clean"}
                  \/ /\ call[c].at = "lock"
                     /\ \A d \in Calls \ {c} : call[d].op = "boot" => ~Inside(d)
               /\ spoiled' = spoiled \cup Crowd(c)
               /\ \/ Goes(call[c], call'[c], "list") /\ call[c].op = "upload" /\ call[c].at = "idle"
                  \/ Goes(call[c], call'[c], "meta") /\ (call[c].at = "lock" \/ call[c].op # "upload")
<1>1. ASSUME NEW st \in {"list", "meta"}, Enter(c, st), Quiet
      PROVE  /\ Typed' /\ Alone(c) /\ UNCHANGED <<category, channel, hooks, row, hit>>
             /\ spoiled' = spoiled \cup Crowd(c) /\ Goes(call[c], call'[c], st)
  <2>1. /\ UNCHANGED <<category, channel, hooks, row, pinned, faults, hit>>
        /\ spoiled' = spoiled \cup Crowd(c)
        /\ Goto(c, st)
    BY <1>1 DEF Enter, Quiet
  <2>2. spoiled' \subseteq Spoilers
    BY <2>1, CrowdIs DEF Typed
  <2>3. WorldTyped
    BY <2>1, <2>2 DEF WorldTyped, Typed
  <2> QED BY <2>1, <2>3, GotoIs DEF Stages
<1>2. CASE BeginUpload(c)
  BY <1>1, <1>2 DEF BeginUpload, Idle, At
<1>3. CASE BeginSetup(c)
  BY <1>1, <1>3 DEF BeginSetup, Idle, At
<1>4. CASE BeginBackup(c)
  BY <1>1, <1>4 DEF BeginBackup, Idle, At
<1>5. CASE BeginBoot(c)
  <2>1. /\ UNCHANGED <<category, channel, hooks, row, pinned, faults, hit, spoiled>>
        /\ Goto(c, "lock") /\ call[c].at = "idle" /\ call[c].op = "boot"
    BY <1>5 DEF BeginBoot, Quiet, Idle, At
  <2>2. WorldTyped
    BY <2>1 DEF WorldTyped, Typed
  <2> QED BY <2>1, <2>2, GotoIs DEF Stages
<1>6. CASE Lock(c)
  <2>1. /\ call[c].at = "lock" /\ Quiet
        /\ \A d \in Calls \ {c} : call[d].op = "boot" => ~Inside(d)
    BY <1>6 DEF Lock, At, Inside
  <2>2. CASE Enter(c, "meta")
    BY <2>1, <2>2, <1>1
  <2>3. CASE End(c, "done", {}) /\ spoiled' = spoiled
    <3>1. UNCHANGED <<category, channel, hooks, row, pinned, faults, hit, spoiled>>
      BY <2>1, <2>3 DEF Quiet
    <3>2. WorldTyped
      BY <3>1 DEF WorldTyped, Typed
    <3> QED BY <2>1, <2>3, <3>1, <3>2, EndIs DEF Stages
  <2> QED BY <2>2, <2>3, <1>6 DEF Lock
<1> QED BY <1>2, <1>3, <1>4, <1>5, <1>6

\* The requests for the metadata channel.
LEMMA ListMetaView ==
  ASSUME Typed, NEW c \in Calls, ListMeta(c)
  PROVE  /\ Typed' /\ Alone(c) /\ UNCHANGED <<category, channel, hooks, row, spoiled>>
         /\ call[c].at = "meta"
         /\ \/ Metas = {} /\ Goes(call[c], call'[c], "postmeta") /\ hit' = hit
            \/ /\ \E x \in Metas : Learns(call[c], call'[c], x)
               /\ hit' = hit
            \/ Ends(call[c], call'[c], "failed", {}) /\ hit' = hit \cup {c}
<1>1. /\ UNCHANGED <<category, channel, hooks, row, pinned, spoiled>> /\ call[c].at = "meta"
      /\ \/ /\ Metas = {} /\ Goto(c, "postmeta") /\ Fine
         \/ /\ \E x \in Metas : Set(c, [call[c] EXCEPT !.at = "list", !.meta = x])
            /\ Fine
         \/ Fail(c) /\ Fault(c)
  BY DEF ListMeta, At, discord
<1>2. WorldTyped
  BY <1>1, Counted DEF WorldTyped, Typed
<1>3. CASE Metas = {} /\ Goto(c, "postmeta") /\ Fine
  BY <1>1, <1>2, <1>3, GotoIs, Counted DEF Stages
<1>4. ASSUME NEW x \in Metas, Set(c, [call[c] EXCEPT !.at = "list", !.meta = x]), Fine
      PROVE  Typed' /\ Alone(c) /\ Learns(call[c], call'[c], x) /\ hit' = hit
  <2> DEFINE j == [call[c] EXCEPT !.at = "list", !.meta = x]
  <2>1. j \in JobSet /\ Learns(call[c], j, x)
    BY CallJob, MetaJob DEF Metas
  <2>2. KeepsAsk(call[c], j)
    BY <2>1 DEF Learns
  <2> HIDE DEF j
  <2> QED BY <1>4, <2>1, <2>2, <1>2, SetIs, Counted DEF j
<1>5. CASE Fail(c) /\ Fault(c)
  BY <1>1, <1>2, <1>5, FailIs, Counted
<1> QED BY <1>1, <1>3, <1>4, <1>5

\* The request that makes the metadata channel.
LEMMA PostMetaView ==
  ASSUME Typed, NEW c \in Calls, PostMeta(c)
  PROVE  /\ Typed' /\ Alone(c) /\ UNCHANGED <<category, hooks, row, spoiled>>
         /\ call[c].at = "postmeta"
         /\ \E x \in ChanIds :
              /\ channel[x] = None
              /\ channel' = channel \/ channel' = [channel EXCEPT ![x] = Meta]
              /\ \/ /\ Learns(call[c], call'[c], x) /\ hit' = hit
                    /\ channel' = [channel EXCEPT ![x] = Meta]
                 \/ Goes(call[c], call'[c], "list") /\ hit' = hit \cup {c}
<1>1. PICK x \in Fresh(ChanIds, channel) :
       \/ /\ channel' = [channel EXCEPT ![x] = Meta]
          /\ \/ Set(c, [call[c] EXCEPT !.at = "list", !.meta = x]) /\ Fine
             \/ Goto(c, "list") /\ Fault(c)
       \/ channel' = channel /\ Goto(c, "list") /\ Fault(c)
  BY DEF PostMeta
<1>2. UNCHANGED <<category, hooks, row, pinned, spoiled>> /\ call[c].at = "postmeta"
  BY DEF PostMeta, At
<1>3. x \in ChanIds /\ channel[x] = None
  BY DEF Fresh
<1>4. WorldTyped
  BY <1>1, <1>2, <1>3, Counted DEF WorldTyped, Typed
<1>5. CASE /\ Set(c, [call[c] EXCEPT !.at = "list", !.meta = x]) /\ Fine
           /\ channel' = [channel EXCEPT ![x] = Meta]
  <2> DEFINE j == [call[c] EXCEPT !.at = "list", !.meta = x]
  <2>1. j \in JobSet /\ Learns(call[c], j, x)
    BY CallJob, MetaJob, <1>3
  <2>2. KeepsAsk(call[c], j)
    BY <2>1 DEF Learns
  <2> HIDE DEF j
  <2>3. Typed' /\ Alone(c) /\ Learns(call[c], call'[c], x) /\ hit' = hit
    BY <1>5, <2>1, <2>2, <1>4, SetIs, Counted DEF j
  <2> QED BY <2>3, <1>1, <1>2, <1>3, <1>5
<1>6. CASE Goto(c, "list") /\ Fault(c)
  <2>1. Typed' /\ Alone(c) /\ Goes(call[c], call'[c], "list") /\ hit' = hit \cup {c}
    BY <1>6, <1>4, GotoIs, Counted DEF Stages
  <2> QED BY <2>1, <1>1, <1>2, <1>3
<1> QED BY <1>1, <1>5, <1>6

\* Family(c) and what the list shows of it.
LEMMA FamilyType ==
  ASSUME NEW c
  PROVE  Family(c) \in Families
BY DEF Family, Families

\* The list of the server's channels.
LEMMA ListView ==
  ASSUME Typed, NEW c \in Calls, List(c)
  PROVE  /\ Typed' /\ Alone(c) /\ UNCHANGED <<category, channel, hooks, row, spoiled>>
         /\ call[c].at = "list"
         /\ \/ Ends(call[c], call'[c], "failed", {}) /\ (hit' = hit \/ hit' = hit \cup {c})
            \/ /\ Lists(call[c], call'[c], [k \in Managed(c) |-> Listed(k)],
                        [k \in Managed(c) |-> category[k][2]],
                        {x \in Chans : channel[x] \in Managed(c)},
                        Cardinality({x \in Chans : channel[x] \in Managed(c)}))
               /\ hit' = hit
<1> DEFINE f == [k \in Managed(c) |-> Listed(k)]
           g == [k \in Managed(c) |-> category[k][2]]
           S == {x \in Chans : channel[x] \in Managed(c)}
           n == Cardinality(S)
           j == [call[c] EXCEPT !.cats = f, !.order = g, !.todo = S, !.count = n, !.at = "grow"]
<1>1. /\ UNCHANGED <<category, channel, hooks, row, pinned, spoiled>> /\ call[c].at = "list"
      /\ \/ Fail(c) /\ (Fault(c) \/ Fine)
         \/ Set(c, j) /\ Fine
  BY DEF List, At, discord
<1>2. WorldTyped
  BY <1>1, Counted DEF WorldTyped, Typed
<1>3. Managed(c) \subseteq CatIds
  BY DEF Managed, Cats
<1>4. \A T \in SUBSET ChanIds : Cardinality(T) \in Nat
  BY FS_Subset, FS_CardinalityType, PoolAssumption
<1>5. f \in Partial(CatIds, Nat)
  <2>1. DOMAIN f = Managed(c) /\ f = [k \in DOMAIN f |-> f[k]]
    OBVIOUS
  <2>2. \A k \in DOMAIN f : f[k] \in Nat
    BY <1>4 DEF Listed, Chans
  <2> HIDE DEF f
  <2> QED BY <2>1, <2>2, <1>3, PartialIs
<1>6. g \in Partial(CatIds, Nat)
  <2>1. DOMAIN g = Managed(c) /\ g = [k \in DOMAIN g |-> g[k]]
    OBVIOUS
  <2>2. ASSUME NEW k \in Managed(c) PROVE category[k][2] \in Nat
    BY DEF Managed, Cats, Typed
  <2>3. \A k \in DOMAIN g : g[k] \in Nat
    BY <2>2
  <2> HIDE DEF g
  <2> QED BY <2>1, <2>3, <1>3, PartialIs
<1>7. S \in SUBSET ChanIds /\ n \in Nat
  BY <1>4 DEF Chans
<1>8. j \in JobSet /\ Lists(call[c], j, f, g, S, n)
  <2> HIDE DEF f, g, S, n
  <2> QED BY <1>5, <1>6, <1>7, CallJob, ListJob
<1>9. KeepsAsk(call[c], j)
  <2> HIDE DEF f, g, S, n, j
  <2> QED BY <1>8 DEF Lists
<1>10. CASE Set(c, j) /\ Fine
  <2> HIDE DEF f, g, S, n, j
  <2>1. Typed' /\ Alone(c) /\ Lists(call[c], call'[c], f, g, S, n) /\ hit' = hit
    BY <1>10, <1>8, <1>9, <1>2, SetIs, Counted
  <2> QED BY <2>1, <1>1 DEF f, g, S, n
<1>11. CASE Fail(c) /\ (Fault(c) \/ Fine)
  BY <1>1, <1>2, <1>11, FailIs, Counted
<1> QED BY <1>1, <1>10, <1>11

\* A finite set of numbers has a greatest element and, not empty, a least.
LEMMA Extremes ==
  ASSUME NEW S \in SUBSET Nat, IsFiniteSet(S), S # {}
  PROVE  /\ Max(S) \in S /\ \A y \in S : Max(S) >= y
         /\ Min(S) \in S /\ \A y \in S : Min(S) =< y
<1> DEFINE Bad == {U \in SUBSET S : /\ U # {}
                                    /\ \/ ~\E x \in U : \A y \in U : x >= y
                                       \/ ~\E x \in U : \A y \in U : x =< y}
<1>1. ASSUME Bad # {} PROVE FALSE
  <2>1. IsWellFoundedOn(StrictSubsetOrdering(S), FiniteSubsetsOf(S))
    BY FS_StrictSubsetOrderingWellFounded
  <2>2. Bad \subseteq FiniteSubsetsOf(S)
    BY FS_Subset DEF FiniteSubsetsOf
  <2>3. PICK U \in Bad : \A V \in Bad : ~(<<V, U>> \in StrictSubsetOrdering(S))
    <3> HIDE DEF Bad
    <3> QED BY <1>1, <2>1, <2>2, WFMin
  <2>4. \A V \in Bad : V \subseteq U => V = U
    BY <2>3 DEF StrictSubsetOrdering
  <2>5. PICK x \in U : TRUE
    BY <2>3
  <2>6. U \subseteq Nat
    BY <2>3
  <2>7. CASE U \ {x} = {}
    BY <2>3, <2>5, <2>6, <2>7
  <2>8. CASE U \ {x} # {}
    <3>1. U \ {x} \notin Bad
      BY <2>4, <2>5
    <3>2. PICK m \in U \ {x} : \A y \in U \ {x} : m >= y
      BY <3>1, <2>8, <2>3
    <3>3. PICK l \in U \ {x} : \A y \in U \ {x} : l =< y
      BY <3>1, <2>8, <2>3
    <3>4. \E z \in U : \A y \in U : z >= y
      <4>1. CASE x >= m
        BY <3>2, <2>5, <2>6, <4>1
      <4>2. CASE ~(x >= m)
        BY <3>2, <2>5, <2>6, <4>2
      <4> QED BY <4>1, <4>2
    <3>5. \E z \in U : \A y \in U : z =< y
      <4>1. CASE x =< l
        BY <3>3, <2>5, <2>6, <4>1
      <4>2. CASE ~(x =< l)
        BY <3>3, <2>5, <2>6, <4>2
      <4> QED BY <4>1, <4>2
    <3> QED BY <3>4, <3>5, <2>3
  <2> QED BY <2>7, <2>8
<1>2. /\ \E x \in S : \A y \in S : x >= y
      /\ \E x \in S : \A y \in S : x =< y
  BY <1>1
<1>3. Max(S) \in S /\ \A y \in S : Max(S) >= y
  <2> DEFINE m == CHOOSE x \in S : \A y \in S : x >= y
  <2>1. m \in S /\ \A y \in S : m >= y
    BY <1>2
  <2> QED BY <2>1 DEF Max
<1>4. Min(S) \in S /\ \A y \in S : Min(S) =< y
  <2> DEFINE m == CHOOSE x \in S : \A y \in S : x =< y
  <2>1. m \in S /\ \A y \in S : m =< y
    BY <1>2
  <2> QED BY <2>1 DEF Min
<1> QED BY <1>3, <1>4

\* The number of the next category is a new one.
LEMMA NextNumberIs ==
  ASSUME Typed, NEW c \in Calls
  PROVE  NextNumber(c) \in Nat /\ NextNumber(c) \notin Numbers(c)
<1>1. CASE 1 \notin Numbers(c)
  BY <1>1 DEF NextNumber
<1>2. CASE 1 \in Numbers(c)
  <2> DEFINE f == call[c].order
             D == DOMAIN f
             N == Numbers(c)
  <2>1. /\ D \subseteq CatIds /\ f = [x \in D |-> f[x]]
        /\ \A x \in D : f[x] \in Nat
    <3>1. f \in Partial(CatIds, Nat)
      BY CallJob, JobIs
    <3> QED BY <3>1, PartialIs
  <2>2. N = {f[k] : k \in D}
    BY DEF Numbers
  <2> HIDE DEF f, D, N
  <2>3. f \in Surjection(D, N)
    <3>1. f \in [D -> N]
      BY <2>1, <2>2
    <3>2. \A y \in N : \E x \in D : f[x] = y
      BY <2>2
    <3> QED BY <3>1, <3>2 DEF Surjection
  <2>4. IsFiniteSet(D)
    BY <2>1, FS_Subset, PoolAssumption
  <2>5. IsFiniteSet(N)
    BY <2>3, <2>4, FS_Surjection
  <2>6. N \in SUBSET Nat /\ N # {}
    BY <2>1, <2>2, <1>2 DEF N
  <2>7. Max(N) \in Nat /\ \A y \in N : Max(N) >= y
    BY <2>5, <2>6, Extremes
  <2>8. NextNumber(c) = Max(N) + 1
    BY <1>2 DEF NextNumber, N
  <2>9. Max(N) + 1 \in Nat /\ Max(N) + 1 \notin N
    BY <2>6, <2>7
  <2> QED BY <2>8, <2>9 DEF N
<1> QED BY <1>1, <1>2

\* A category more in the call's list.
LEMMA GotIs ==
  ASSUME Typed, NEW c \in Calls, NEW k \in CatIds, Got(c, k), WorldTyped
  PROVE  /\ Typed' /\ Alone(c)
         /\ Gets(call[c], call'[c], With(call[c].cats, k, 0), With(call[c].order, k, NextNumber(c)))
<1> DEFINE f == With(call[c].cats, k, 0)
           g == With(call[c].order, k, NextNumber(c))
           j == [call[c] EXCEPT !.at = "grow", !.cats = f, !.order = g]
<1>1. f \in Partial(CatIds, Nat)
  BY CallJob, JobIs, WithIs
<1>2. g \in Partial(CatIds, Nat)
  BY CallJob, JobIs, WithIs, NextNumberIs
<1>3. Set(c, j)
  BY DEF Got
<1> HIDE DEF f, g
<1>4. j \in JobSet /\ Gets(call[c], j, f, g)
  BY <1>1, <1>2, CallJob, GotJob
<1> HIDE DEF j
<1>5. KeepsAsk(call[c], j)
  BY <1>4 DEF Gets
<1>6. Typed' /\ Alone(c) /\ Gets(call[c], call'[c], f, g)
  BY <1>3, <1>4, <1>5, SetIs
<1> QED BY <1>6 DEF f, g

\* The requests for a category.
LEMMA FindCategoryView ==
  ASSUME Typed, NEW c \in Calls, FindCategory(c)
  PROVE  /\ Typed' /\ Alone(c) /\ UNCHANGED <<category, channel, hooks, row, spoiled>>
         /\ call[c].at = "grow" /\ NeedsCategory(c)
         /\ \/ /\ \E k \in Named(c) :
                    Gets(call[c], call'[c], With(call[c].cats, k, 0), With(call[c].order, k, NextNumber(c)))
               /\ hit' = hit
            \/ Goes(call[c], call'[c], "postcat") /\ (hit' = hit \/ hit' = hit \cup {c})
<1>1. /\ UNCHANGED <<category, channel, hooks, row, pinned, spoiled>>
      /\ call[c].at = "grow" /\ NeedsCategory(c)
      /\ \/ (\E k \in Named(c) : Got(c, k)) /\ Fine
         \/ Goto(c, "postcat") /\ (Fine \/ Fault(c))
  BY DEF FindCategory, At, discord
<1>2. WorldTyped
  BY <1>1, Counted DEF WorldTyped, Typed
<1>3. ASSUME NEW k \in Named(c), Got(c, k), Fine
      PROVE  /\ Typed' /\ Alone(c) /\ hit' = hit
             /\ Gets(call[c], call'[c], With(call[c].cats, k, 0), With(call[c].order, k, NextNumber(c)))
  <2>1. k \in CatIds
    BY DEF Named, Cats
  <2> QED BY <2>1, <1>2, <1>3, GotIs, Counted
<1>4. CASE Goto(c, "postcat") /\ (Fine \/ Fault(c))
  BY <1>1, <1>2, <1>4, GotoIs, Counted DEF Stages
<1> QED BY <1>1, <1>3, <1>4

\* The request that makes a category.
LEMMA PostCategoryView ==
  ASSUME Typed, NEW c \in Calls, PostCategory(c)
  PROVE  /\ Typed' /\ Alone(c) /\ UNCHANGED <<channel, hooks, row, spoiled>>
         /\ call[c].at = "postcat"
         /\ \E k \in CatIds :
              /\ category[k] = None
              /\ \/ /\ category' = [category EXCEPT ![k] = <<Family(c), NextNumber(c)>>]
                    /\ hit' = hit
                    /\ Gets(call[c], call'[c], With(call[c].cats, k, 0),
                            With(call[c].order, k, NextNumber(c)))
                 \/ /\ \/ category' = category
                       \/ category' = [category EXCEPT ![k] = <<Family(c), NextNumber(c)>>]
                    /\ hit' = hit \cup {c} /\ Ends(call[c], call'[c], "failed", {})
<1>1. PICK k \in Fresh(CatIds, category) :
       \/ /\ category' = [category EXCEPT ![k] = <<Family(c), NextNumber(c)>>]
          /\ \/ Got(c, k) /\ Fine
             \/ Fail(c) /\ Fault(c)
       \/ category' = category /\ Fail(c) /\ Fault(c)
  BY DEF PostCategory
<1>2. UNCHANGED <<channel, hooks, row, pinned, spoiled>> /\ call[c].at = "postcat"
  BY DEF PostCategory, At
<1>3. k \in CatIds /\ category[k] = None
  BY DEF Fresh
<1>4. <<Family(c), NextNumber(c)>> \in Families \X Nat
  BY FamilyType, NextNumberIs
<1>5. category' \in [CatIds -> {None, Gone} \cup (Families \X Nat)]
  BY <1>1, <1>4 DEF Typed
<1>6. WorldTyped
  BY <1>1, <1>2, <1>5, Counted DEF WorldTyped, Typed
<1>7. CASE Got(c, k) /\ Fine /\ category' = [category EXCEPT ![k] = <<Family(c), NextNumber(c)>>]
  BY <1>2, <1>3, <1>6, <1>7, GotIs, Counted
<1>8. CASE Fail(c) /\ Fault(c)
  BY <1>1, <1>2, <1>3, <1>6, <1>8, FailIs, Counted
<1> QED BY <1>1, <1>7, <1>8

\* What a call says of itself when a channel or a webhook was refused.
Excuse(c) == IF call[c].op = "setup" THEN {"refused"} ELSE {}

\* The request for a channel.
LEMMA TookIs ==
  ASSUME Typed, NEW c \in Calls, NEW k \in DOMAIN call[c].cats, NEW x \in Places, WorldTyped,
         Set(c, [call[c] EXCEPT !.at = "posthook", !.new = x,
                                !.cats = With(@, k, @[k] + 1), !.count = @ + 1])
  PROVE  /\ Typed' /\ Alone(c)
         /\ Takes(call[c], call'[c], x, With(call[c].cats, k, call[c].cats[k] + 1), call[c].count + 1)
<1> DEFINE f == With(call[c].cats, k, call[c].cats[k] + 1)
           n == call[c].count + 1
           j == [call[c] EXCEPT !.at = "posthook", !.new = x, !.cats = f, !.count = n]
<1>1. /\ k \in CatIds /\ call[c].cats[k] \in Nat /\ call[c].count \in Nat
      /\ call[c].cats \in Partial(CatIds, Nat)
  BY CallJob, JobIs
<1>2. call[c].cats[k] + 1 \in Nat /\ n \in Nat
  BY <1>1
<1>3. f \in Partial(CatIds, Nat)
  BY <1>1, <1>2, WithIs
<1>4. Set(c, j)
  OBVIOUS
<1> HIDE DEF f, n
<1>5. j \in JobSet /\ Takes(call[c], j, x, f, n)
  BY <1>2, <1>3, CallJob, TookJob
<1> HIDE DEF j
<1>6. KeepsAsk(call[c], j)
  BY <1>5 DEF Takes
<1>7. Typed' /\ Alone(c) /\ Takes(call[c], call'[c], x, f, n)
  BY <1>4, <1>5, <1>6, SetIs
<1> QED BY <1>7 DEF f, n

\* What the request for a channel does.
LEMMA PostChannelView ==
  ASSUME Typed, NEW c \in Calls, PostChannel(c)
  PROVE  /\ Typed' /\ Alone(c) /\ UNCHANGED <<category, hooks, row>>
         /\ call[c].at = "grow" /\ NeedsChannel(c)
         /\ \E k \in Filling(c) :
              \/ \E x \in ChanIds :
                   /\ channel[x] = None /\ channel' = [channel EXCEPT ![x] = k] /\ k \in Cats
                   /\ \/ /\ Takes(call[c], call'[c], x, With(call[c].cats, k, call[c].cats[k] + 1),
                                  call[c].count + 1)
                         /\ hit' = hit /\ spoiled' = spoiled
                      \/ /\ Takes(call[c], call'[c], NoId, With(call[c].cats, k, call[c].cats[k] + 1),
                                  call[c].count + 1)
                         /\ hit' = hit \cup {c} /\ spoiled' = spoiled \cup Excuse(c)
                      \/ Ends(call[c], call'[c], "failed", {}) /\ hit' = hit \cup {c} /\ spoiled' = spoiled
              \/ /\ channel' = channel
                 /\ \/ /\ Takes(call[c], call'[c], NoId, With(call[c].cats, k, call[c].cats[k] + 1),
                                call[c].count + 1)
                       /\ hit' = IF k \in Cats THEN hit \cup {c} ELSE hit
                       /\ spoiled' = spoiled \cup Excuse(c)
                    \/ Ends(call[c], call'[c], "failed", {}) /\ hit' = hit \cup {c} /\ spoiled' = spoiled
<1> DEFINE Took(k, x) == Set(c, [call[c] EXCEPT !.at = "posthook", !.new = x,
                                   !.cats = With(@, k, @[k] + 1), !.count = @ + 1])
<1>1. PICK k \in Filling(c) :
         \/ \E x \in Fresh(ChanIds, channel) :
               /\ channel' = [channel EXCEPT ![x] = k]
               /\ k \in Cats
               /\ \/ Took(k, x) /\ Fine /\ spoiled' = spoiled
                  \/ Took(k, NoId) /\ Fault(c) /\ Refused(c)
                  \/ Fail(c) /\ Fault(c) /\ spoiled' = spoiled
         \/ /\ channel' = channel
            /\ \/ /\ IF k \in Cats THEN Fault(c) ELSE Fine
                  /\ Took(k, NoId) /\ Refused(c)
               \/ Fail(c) /\ Fault(c) /\ spoiled' = spoiled
  BY DEF PostChannel
<1>2. /\ UNCHANGED <<category, hooks, row, pinned>> /\ call[c].at = "grow" /\ NeedsChannel(c)
  BY DEF PostChannel, At
<1>3. k \in DOMAIN call[c].cats /\ k \in CatIds
  <2>1. k \in DOMAIN call[c].cats
    BY DEF Filling
  <2> QED BY <2>1, CallJob, JobIs
<1>4. ASSUME NEW x \in Places, Took(k, x), WorldTyped
      PROVE  /\ Typed' /\ Alone(c)
             /\ Takes(call[c], call'[c], x, With(call[c].cats, k, call[c].cats[k] + 1), call[c].count + 1)
  BY <1>3, <1>4, TookIs
<1> HIDE DEF Took
<1> DEFINE Answered(x) == /\ k \in Cats
                          /\ \/ Took(k, x) /\ Fine /\ spoiled' = spoiled
                             \/ Took(k, NoId) /\ Fault(c) /\ Refused(c)
                             \/ Fail(c) /\ Fault(c) /\ spoiled' = spoiled
           Result(x) == \/ /\ Takes(call[c], call'[c], x, With(call[c].cats, k, call[c].cats[k] + 1),
                                    call[c].count + 1)
                           /\ hit' = hit /\ spoiled' = spoiled
                        \/ /\ Takes(call[c], call'[c], NoId, With(call[c].cats, k, call[c].cats[k] + 1),
                                    call[c].count + 1)
                           /\ hit' = hit \cup {c} /\ spoiled' = spoiled \cup Excuse(c)
                        \/ Ends(call[c], call'[c], "failed", {}) /\ hit' = hit \cup {c} /\ spoiled' = spoiled
<1>5. ASSUME NEW x \in Fresh(ChanIds, channel), channel' = [channel EXCEPT ![x] = k], Answered(x)
      PROVE  /\ Typed' /\ Alone(c) /\ x \in ChanIds /\ channel[x] = None /\ k \in Cats
             /\ Result(x)
  <2>1. x \in ChanIds /\ channel[x] = None
    BY DEF Fresh
  <2>2. Refused(c) => spoiled' = spoiled \cup Excuse(c)
    BY DEF Refused, Excuse
  <2>3. WorldTyped
    <3>1. spoiled' \subseteq Spoilers
      BY <1>5, <2>2 DEF Excuse, Spoilers, Typed
    <3>2. Fault(c) \/ Fine
      BY <1>5
    <3> QED BY <1>2, <1>3, <1>5, <2>1, <3>1, <3>2, Counted DEF WorldTyped, Typed
  <2>4. x \in Places /\ NoId \in Places
    BY <2>1 DEF Places
  <2>5. CASE Took(k, x) /\ Fine /\ spoiled' = spoiled
    BY <1>4, <1>5, <2>1, <2>3, <2>4, <2>5, Counted
  <2>6. CASE Took(k, NoId) /\ Fault(c) /\ Refused(c)
    BY <1>4, <1>5, <2>1, <2>2, <2>3, <2>4, <2>6, Counted
  <2>7. CASE Fail(c) /\ Fault(c) /\ spoiled' = spoiled
    BY <1>5, <2>1, <2>3, <2>7, FailIs, Counted
  <2> QED BY <1>5, <2>5, <2>6, <2>7
<1>6. ASSUME channel' = channel,
             \/ (IF k \in Cats THEN Fault(c) ELSE Fine) /\ Took(k, NoId) /\ Refused(c)
             \/ Fail(c) /\ Fault(c) /\ spoiled' = spoiled
      PROVE  /\ Typed' /\ Alone(c)
             /\ \/ /\ Takes(call[c], call'[c], NoId, With(call[c].cats, k, call[c].cats[k] + 1),
                                call[c].count + 1)
                   /\ hit' = IF k \in Cats THEN hit \cup {c} ELSE hit
                   /\ spoiled' = spoiled \cup Excuse(c)
                \/ Ends(call[c], call'[c], "failed", {}) /\ hit' = hit \cup {c} /\ spoiled' = spoiled
  <2>1. Refused(c) => spoiled' = spoiled \cup Excuse(c)
    BY DEF Refused, Excuse
  <2>2. spoiled' \subseteq Spoilers
    BY <1>6, <2>1 DEF Excuse, Spoilers, Typed
  <2>3. WorldTyped
    BY <1>2, <1>6, <2>2, Counted DEF WorldTyped, Typed
  <2>4. NoId \in Places
    BY DEF Places
  <2>5. CASE (IF k \in Cats THEN Fault(c) ELSE Fine) /\ Took(k, NoId) /\ Refused(c)
    <3>1. /\ Typed' /\ Alone(c)
          /\ Takes(call[c], call'[c], NoId, With(call[c].cats, k, call[c].cats[k] + 1),
                                call[c].count + 1)
      BY <1>4, <2>3, <2>4, <2>5
    <3>2. hit' = IF k \in Cats THEN hit \cup {c} ELSE hit
      BY <2>5, Counted
    <3> QED BY <3>1, <3>2, <2>1, <2>5
  <2>6. CASE Fail(c) /\ Fault(c) /\ spoiled' = spoiled
    BY <2>3, <2>6, FailIs, Counted
  <2> QED BY <1>6, <2>5, <2>6
<1>7. CASE /\ channel' = channel
           /\ \/ (IF k \in Cats THEN Fault(c) ELSE Fine) /\ Took(k, NoId) /\ Refused(c)
              \/ Fail(c) /\ Fault(c) /\ spoiled' = spoiled
  BY <1>2, <1>6, <1>7
<1>8. ASSUME NEW x \in Fresh(ChanIds, channel), channel' = [channel EXCEPT ![x] = k], Answered(x)
      PROVE  \E z \in ChanIds :
               /\ channel[z] = None /\ channel' = [channel EXCEPT ![z] = k] /\ k \in Cats
               /\ Result(z)
  <2>1. /\ x \in ChanIds /\ channel[x] = None /\ k \in Cats
        /\ Result(x)
    BY <1>5, <1>8
  <2> HIDE DEF Result, Answered
  <2> QED BY <1>8, <2>1
<1>9. CASE \E x \in Fresh(ChanIds, channel) :
               /\ channel' = [channel EXCEPT ![x] = k] /\ Answered(x)
  <2>1. Typed' /\ Alone(c)
    <3> HIDE DEF Result, Answered
    <3> QED BY <1>5, <1>9
  <2>2. \E z \in ChanIds :
               /\ channel[z] = None /\ channel' = [channel EXCEPT ![z] = k] /\ k \in Cats
               /\ Result(z)
    <3> HIDE DEF Result, Answered
    <3> QED BY <1>8, <1>9
  <2> QED BY <1>2, <2>1, <2>2
<1>10. (\E x \in Fresh(ChanIds, channel) :
               /\ channel' = [channel EXCEPT ![x] = k] /\ Answered(x))
       \/ /\ channel' = channel
          /\ \/ (IF k \in Cats THEN Fault(c) ELSE Fine) /\ Took(k, NoId) /\ Refused(c)
             \/ Fail(c) /\ Fault(c) /\ spoiled' = spoiled
  BY <1>1
<1> QED BY <1>7, <1>9, <1>10

\* A channel is listed with its webhook, or passed over.
LEMMA ItemIs ==
  ASSUME Typed, NEW c \in Calls, NEW x \in Places, NEW w \in Nat, Item(c, x, w), WorldTyped
  PROVE  Typed' /\ Alone(c) /\ Puts(call[c], call'[c], x, With(call[c].items, x, w))
<1> DEFINE f == With(call[c].items, x, w)
           j == [call[c] EXCEPT !.items = f, !.todo = @ \ {x}, !.new = NoId, !.at = "grow"]
<1>1. f \in Partial(Places, Nat)
  BY CallJob, JobIs, WithIs
<1>2. Set(c, j)
  BY DEF Item
<1> HIDE DEF f
<1>3. j \in JobSet /\ Puts(call[c], j, x, f)
  BY <1>1, CallJob, ItemJob
<1> HIDE DEF j
<1>4. KeepsAsk(call[c], j)
  BY <1>3 DEF Puts
<1>5. Typed' /\ Alone(c) /\ Puts(call[c], call'[c], x, f)
  BY <1>2, <1>3, <1>4, SetIs
<1> QED BY <1>5 DEF f

\* A channel is passed over.
LEMMA SkipIs ==
  ASSUME Typed, NEW c \in Calls, NEW x, Skip(c, x), WorldTyped
  PROVE  Typed' /\ Alone(c) /\ Puts(call[c], call'[c], x, call[c].items)
<1> DEFINE j == [call[c] EXCEPT !.todo = @ \ {x}, !.new = NoId, !.at = "grow"]
<1>1. Set(c, j)
  BY DEF Skip
<1>2. j \in JobSet /\ Puts(call[c], j, x, call[c].items)
  BY CallJob, SkipJob
<1> HIDE DEF j
<1>3. KeepsAsk(call[c], j)
  BY <1>2 DEF Puts
<1> QED BY <1>1, <1>2, <1>3, SetIs

\* The request for a webhook, of a channel just made or of one listed.
Posted(c, x) ==
  \/ /\ x \in Chans /\ hooks' = [hooks EXCEPT ![x] = @ + 1]
     /\ \/ /\ Puts(call[c], call'[c], x, With(call[c].items, x, hooks[x] + 1))
           /\ hit' = hit /\ spoiled' = spoiled
        \/ /\ Puts(call[c], call'[c], x, With(call[c].items, x, NoHook))
           /\ hit' = hit \cup {c} /\ spoiled' = spoiled \cup Excuse(c)
        \/ /\ IF call[c].at = "posthook" THEN Ends(call[c], call'[c], "failed", {})
              ELSE Puts(call[c], call'[c], x, call[c].items)
           /\ hit' = hit \cup {c} /\ spoiled' = spoiled
  \/ /\ hooks' = hooks
     /\ \/ /\ Puts(call[c], call'[c], x, With(call[c].items, x, NoHook))
           /\ hit' = IF x \in Chans THEN hit \cup {c} ELSE hit
           /\ spoiled' = spoiled \cup Excuse(c)
        \/ /\ IF call[c].at = "posthook" THEN Ends(call[c], call'[c], "failed", {})
              ELSE Puts(call[c], call'[c], x, call[c].items)
           /\ hit' = hit \cup {c} /\ spoiled' = spoiled

\* What the request for a webhook does.
LEMMA HookView ==
  ASSUME Typed, NEW c \in Calls, HookNew(c) \/ HookOld(c)
  PROVE  /\ Typed' /\ Alone(c) /\ UNCHANGED <<category, channel, row>>
         /\ call[c].at \in {"posthook", "rehook"}
         /\ Posted(c, call[c].new)
<1> DEFINE x == call[c].new
           Lost == IF call[c].at = "posthook" THEN Fail(c) ELSE Skip(c, x)
           Answered == /\ x \in Chans /\ hooks' = [hooks EXCEPT ![x] = @ + 1]
                       /\ \/ Item(c, x, hooks[x] + 1) /\ Fine /\ spoiled' = spoiled
                          \/ Item(c, x, NoHook) /\ Fault(c) /\ Refused(c)
                          \/ Lost /\ Fault(c) /\ spoiled' = spoiled
           Denied == /\ hooks' = hooks
                     /\ \/ Item(c, x, NoHook) /\ Refused(c) /\ (IF x \in Chans THEN Fault(c) ELSE Fine)
                        \/ Lost /\ Fault(c) /\ spoiled' = spoiled
<1>1. /\ call[c].at \in {"posthook", "rehook"}
      /\ UNCHANGED <<category, channel, row, pinned>>
      /\ Answered \/ Denied
  BY DEF HookNew, HookOld, PostHook, At
<1>2. x \in Places
  BY CallJob, JobIs
<1>3. x \in Chans => x \in ChanIds /\ hooks[x] + 1 \in Nat
  BY DEF Chans, Typed
<1>4. Refused(c) => spoiled' = spoiled \cup Excuse(c)
  BY DEF Refused, Excuse
<1>5. hooks' \in [ChanIds -> Nat]
  BY <1>1, <1>3 DEF Typed
<1>6. spoiled' \subseteq Spoilers
  BY <1>1, <1>4 DEF Excuse, Spoilers, Typed
<1>7. WorldTyped
  BY <1>1, <1>5, <1>6, Counted DEF WorldTyped, Typed
<1>8. NoHook \in Nat
  BY DEF NoHook
<1>9. Lost => /\ Typed' /\ Alone(c)
              /\ IF call[c].at = "posthook" THEN Ends(call[c], call'[c], "failed", {})
                 ELSE Puts(call[c], call'[c], x, call[c].items)
  BY <1>7, FailIs, SkipIs
<1> HIDE DEF x, Lost
<1>12. Typed' /\ Alone(c)
  BY <1>1, <1>9, <1>2, <1>3, <1>7, <1>8, ItemIs
<1>13. ASSUME x \in Chans, hooks' = [hooks EXCEPT ![x] = @ + 1],
              \/ Item(c, x, hooks[x] + 1) /\ Fine /\ spoiled' = spoiled
              \/ Item(c, x, NoHook) /\ Fault(c) /\ Refused(c)
              \/ Lost /\ Fault(c) /\ spoiled' = spoiled
       PROVE  Posted(c, x)
  <2>1. CASE Item(c, x, hooks[x] + 1) /\ Fine /\ spoiled' = spoiled
    <3>1. Puts(call[c], call'[c], x, With(call[c].items, x, hooks[x] + 1)) /\ hit' = hit
      BY <2>1, <1>2, <1>3, <1>7, <1>13, ItemIs, Counted
    <3> QED BY <2>1, <3>1, <1>13 DEF Posted
  <2>2. CASE Lost /\ Fault(c) /\ spoiled' = spoiled
    BY <2>2, <1>9, <1>13, Counted DEF Posted
  <2>3. CASE Item(c, x, NoHook) /\ Fault(c) /\ Refused(c)
    <3>1. Puts(call[c], call'[c], x, With(call[c].items, x, NoHook))
      BY <2>3, <1>2, <1>8, <1>7, ItemIs
    <3>2. hit' = hit \cup {c}
      BY <2>3, Counted
    <3> QED BY <3>1, <3>2, <2>3, <1>4, <1>13 DEF Posted
  <2> QED BY <2>1, <2>2, <2>3, <1>13
<1>14. ASSUME hooks' = hooks,
              \/ Item(c, x, NoHook) /\ Refused(c) /\ (IF x \in Chans THEN Fault(c) ELSE Fine)
              \/ Lost /\ Fault(c) /\ spoiled' = spoiled
       PROVE  Posted(c, x)
  <2>1. CASE Item(c, x, NoHook) /\ Refused(c) /\ (IF x \in Chans THEN Fault(c) ELSE Fine)
    <3>1. Puts(call[c], call'[c], x, With(call[c].items, x, NoHook))
      BY <2>1, <1>2, <1>8, <1>7, ItemIs
    <3>2. hit' = IF x \in Chans THEN hit \cup {c} ELSE hit
      BY <2>1, Counted
    <3> QED BY <3>1, <3>2, <2>1, <1>4, <1>14 DEF Posted
  <2>2. CASE Lost /\ Fault(c) /\ spoiled' = spoiled
    BY <2>2, <1>9, <1>14, Counted DEF Posted
  <2> QED BY <2>1, <2>2, <1>14
<1>15. Answered => Posted(c, x)
  BY <1>13
<1>16. Denied => Posted(c, x)
  BY <1>14
<1> HIDE DEF Answered, Denied
<1>17. Posted(c, x)
  BY <1>1, <1>15, <1>16
<1> QED BY <1>1, <1>12, <1>17 DEF x

\* A listed channel's webhooks.
LEMMA EnsureView ==
  ASSUME Typed, NEW c \in Calls, Ensure(c)
  PROVE  /\ Typed' /\ Alone(c) /\ UNCHANGED <<category, channel, hooks, row>>
         /\ Grown(c)
         /\ \/ spoiled' = spoiled
            \/ spoiled' = spoiled \cup {"unheard"} /\ hit' = hit \cup {c}
         /\ \E x \in call[c].todo :
              \/ /\ x \in Chans /\ hit' = hit
                 /\ \E w \in 1 .. hooks[x] : Puts(call[c], call'[c], x, With(call[c].items, x, w))
              \/ /\ x \in Chans /\ hooks[x] # 0 => "unheard" \in spoiled'
                 /\ Rehooks(call[c], call'[c], x) /\ (hit' = hit \/ hit' = hit \cup {c})
              \/ Puts(call[c], call'[c], x, call[c].items) /\ hit' = hit \cup {c}
<1> DEFINE x == Min(call[c].todo)
           j == [call[c] EXCEPT !.new = x, !.at = "rehook"]
           First == /\ x \in Chans /\ Fine
                    /\ \E w \in 1 .. hooks[x] : Item(c, x, w)
           Second == /\ Set(c, j) /\ (Fine \/ Fault(c))
                     /\ x \in Chans /\ hooks[x] # 0 => "unheard" \in spoiled'
           Third == Skip(c, x) /\ Fault(c)
<1>1. /\ UNCHANGED <<category, channel, hooks, row, pinned>>
      /\ Grown(c) /\ call[c].todo # {}
      /\ First \/ Second \/ Third
      /\ \/ spoiled' = spoiled
         \/ spoiled' = spoiled \cup {"unheard"} /\ Fault(c)
  BY DEF Ensure, discord
<1>2. x \in call[c].todo /\ x \in ChanIds /\ x \in Places
  <2>1. call[c].todo \subseteq ChanIds
    BY CallJob, JobIs
  <2>2. call[c].todo \in SUBSET Nat /\ IsFiniteSet(call[c].todo)
    BY <2>1, PoolAssumption, FS_Subset
  <2>3. x \in call[c].todo
    BY <2>2, <1>1, Extremes
  <2> QED BY <2>1, <2>3 DEF Places
<1>3. WorldTyped
  <2>1. spoiled' \subseteq Spoilers
    BY <1>1 DEF Spoilers, Typed
  <2>2. Fine \/ Fault(c)
    BY <1>1
  <2> QED BY <1>1, <2>1, <2>2, Counted DEF WorldTyped, Typed
<1> DEFINE Result == \/ /\ x \in Chans /\ hit' = hit
                        /\ \E w \in 1 .. hooks[x] : Puts(call[c], call'[c], x, With(call[c].items, x, w))
                     \/ /\ x \in Chans /\ hooks[x] # 0 => "unheard" \in spoiled'
                        /\ Rehooks(call[c], call'[c], x) /\ (hit' = hit \/ hit' = hit \cup {c})
                     \/ Puts(call[c], call'[c], x, call[c].items) /\ hit' = hit \cup {c}
<1>4. ASSUME First PROVE Typed' /\ Alone(c) /\ Result
  <2>1. PICK w \in 1 .. hooks[x] : Item(c, x, w)
    BY <1>4
  <2>2. w \in Nat
    BY <2>1, <1>2 DEF Typed
  <2>3. Typed' /\ Alone(c) /\ Puts(call[c], call'[c], x, With(call[c].items, x, w))
    <3> HIDE DEF x
    <3> QED BY <2>1, <2>2, <1>2, <1>3, ItemIs
  <2>4. hit' = hit /\ x \in Chans
    BY <1>4, Counted
  <2> HIDE DEF x
  <2> QED BY <2>1, <2>3, <2>4
<1>5. ASSUME Second PROVE Typed' /\ Alone(c) /\ Result
  <2> HIDE DEF x
  <2>1. j \in JobSet /\ Rehooks(call[c], j, x)
    BY <1>2, CallJob, RehookJob
  <2> HIDE DEF j
  <2>2. KeepsAsk(call[c], j)
    BY <2>1 DEF Rehooks
  <2>3. Typed' /\ Alone(c) /\ Rehooks(call[c], call'[c], x) /\ (hit' = hit \/ hit' = hit \cup {c})
    BY <1>5, <2>1, <2>2, <1>3, SetIs, Counted
  <2> QED BY <2>3, <1>5
<1>6. ASSUME Third PROVE Typed' /\ Alone(c) /\ Result
  <2> HIDE DEF x
  <2> QED BY <1>6, <1>3, SkipIs, Counted
<1> HIDE DEF First, Second, Third, x
<1>7. Typed' /\ Alone(c) /\ Result
  BY <1>1, <1>4, <1>5, <1>6
<1>8. \/ spoiled' = spoiled
      \/ spoiled' = spoiled \cup {"unheard"} /\ hit' = hit \cup {c}
  BY <1>1, Counted
<1> QED BY <1>1, <1>2, <1>7, <1>8

\* What the handlers write.
LEMMA RecordView ==
  ASSUME Typed, NEW c \in Calls, Record(c)
  PROVE  /\ Typed' /\ Alone(c) /\ UNCHANGED <<category, channel, hooks, hit, spoiled>>
         /\ Synced(c) /\ call[c].op # "backup"
         /\ \E x \in Usable(c) :
              /\ row' = [row EXCEPT ![x] = [hook |-> call[c].items[x], guild |-> KnowsGuild(c),
                                            meta |-> FALSE]]
              /\ Writes(call[c], call'[c], [z \in DOMAIN call[c].items \ {x} |-> call[c].items[z]])
<1>1. PICK x \in Usable(c) :
         /\ row' = [row EXCEPT ![x] = [hook |-> call[c].items[x], guild |-> KnowsGuild(c),
                                       meta |-> FALSE]]
         /\ Set(c, [call[c] EXCEPT !.items = [z \in DOMAIN @ \ {x} |-> @[z]]])
  BY DEF Record, AddChannel
<1>2. /\ UNCHANGED <<category, channel, hooks, pinned, faults, hit, spoiled>>
      /\ Synced(c) /\ call[c].op # "backup"
  BY DEF Record, discord
<1>3. x \in DOMAIN call[c].items /\ x \in Places /\ call[c].items[x] \in Nat
  <2>1. x \in DOMAIN call[c].items
    BY DEF Usable
  <2> QED BY <2>1, CallJob, JobIs
<1>4. KnowsGuild(c) \in BOOLEAN
  BY DEF KnowsGuild
<1>5. row' \in [Places -> Rows \cup {None}]
  <2> DEFINE y == [hook |-> call[c].items[x], guild |-> KnowsGuild(c), meta |-> FALSE]
  <2>1. y \in Rows
    BY <1>3, <1>4 DEF Rows
  <2> HIDE DEF y
  <2>2. row' = [row EXCEPT ![x] = y]
    BY <1>1 DEF y
  <2> QED BY <2>1, <2>2, <1>3 DEF Typed
<1>6. WorldTyped
  BY <1>2, <1>5 DEF WorldTyped, Typed
<1> DEFINE f == [z \in DOMAIN call[c].items \ {x} |-> call[c].items[z]]
           j == [call[c] EXCEPT !.items = f]
<1>7. Set(c, j)
  BY <1>1
<1>8. f \in Partial(Places, Nat)
  BY CallJob, JobIs, WithoutIs
<1> HIDE DEF f
<1>9. j \in JobSet /\ Writes(call[c], j, f)
  BY <1>8, CallJob, RecordJob
<1> HIDE DEF j
<1>10. KeepsAsk(call[c], j)
  BY <1>9 DEF Writes
<1>11. Typed' /\ Alone(c) /\ Writes(call[c], call'[c], f)
  BY <1>6, <1>7, <1>9, <1>10, SetIs
<1> QED BY <1>1, <1>2, <1>11 DEF f

\* An upload takes its list.
LEMMA TakePoolView ==
  ASSUME Typed, NEW c \in Calls, TakePool(c)
  PROVE  /\ Typed' /\ Alone(c) /\ UNCHANGED <<category, channel, hooks, row, hit, spoiled>>
         /\ Recorded(c) /\ call[c].op = "upload"
         /\ Ends(call[c], call'[c], "done", StorageRows)
<1>1. /\ UNCHANGED <<category, channel, hooks, row, pinned, faults, hit, spoiled>>
      /\ Recorded(c) /\ call[c].op = "upload" /\ End(c, "done", StorageRows)
  BY DEF TakePool, discord
<1>2. WorldTyped
  BY <1>1 DEF WorldTyped, Typed
<1>3. StorageRows \in SUBSET Places
  BY DEF StorageRows, GuildRows, Typed
<1> QED BY <1>1, <1>2, <1>3, EndIs DEF Stages

\* The metadata channel is written down.
LEMMA RecordMetaView ==
  ASSUME Typed, NEW c \in Calls, RecordMeta(c)
  PROVE  /\ Typed' /\ Alone(c) /\ UNCHANGED <<category, channel, hooks, hit, spoiled>>
         /\ Recorded(c) /\ call[c].op # "upload"
         /\ Ends(call[c], call'[c], "done", {})
         /\ \/ row' = row
            \/ \E b \in BOOLEAN : row' = [row EXCEPT ![call[c].meta] =
                 [hook |-> NoHook, guild |-> b, meta |-> TRUE]] /\ call[c].meta # NoId
<1> DEFINE y == [hook |-> NoHook, guild |-> call[c].op \in {"boot", "setup"}, meta |-> TRUE]
<1>1. /\ UNCHANGED <<category, channel, hooks, pinned, faults, hit, spoiled>>
      /\ Recorded(c) /\ call[c].op # "upload" /\ End(c, "done", {})
      /\ row' = row \/ (row' = [row EXCEPT ![call[c].meta] = y] /\ call[c].meta # NoId)
  BY DEF RecordMeta, discord, AddChannel
<1>2. call[c].meta \in Places
  BY CallJob, JobIs
<1>3. row' \in [Places -> Rows \cup {None}]
  <2>1. y \in Rows
    BY DEF Rows, NoHook
  <2> HIDE DEF y
  <2> QED BY <1>1, <1>2, <2>1 DEF Typed
<1>4. WorldTyped
  BY <1>1, <1>3 DEF WorldTyped, Typed
<1>5. Typed' /\ Alone(c) /\ Ends(call[c], call'[c], "done", {})
  BY <1>1, <1>4, EndIs DEF Stages
<1>6. (call[c].op \in {"boot", "setup"}) \in BOOLEAN
  OBVIOUS
<1> QED BY <1>1, <1>5, <1>6

\* What a cleaning keeps of its local state.
Cleans(k, j) ==
  /\ KeepsAsk(k, j) /\ j.at \in {"wipe", "forget"} /\ j.count = k.count /\ j.new = k.new
  /\ j.items = k.items /\ j.result = k.result

\* A cleaning.
LEMMA BeginCleanView ==
  ASSUME Typed, NEW c \in Calls, BeginClean(c)
  PROVE  /\ Typed' /\ Alone(c) /\ UNCHANGED <<category, channel, hooks, row>>
         /\ call[c].at = "idle" /\ call[c].op = "clean"
         /\ Cleans(call[c], call'[c])
         /\ spoiled' = spoiled \cup Crowd(c) /\ (hit' = hit \/ hit' = hit \cup {c})
<1> DEFINE S == Chans \ Metas
           f == [k \in Cats |-> 0]
           j == [call[c] EXCEPT !.at = "wipe", !.todo = S, !.order = f]
<1>1. /\ UNCHANGED <<category, channel, hooks, row, pinned>>
      /\ call[c].at = "idle" /\ call[c].op = "clean" /\ spoiled' = spoiled \cup Crowd(c)
      /\ (Set(c, j) /\ Fine) \/ (Goto(c, "forget") /\ Fault(c))
  BY DEF BeginClean, Idle, At, discord
<1>2. spoiled' \subseteq Spoilers
  BY <1>1, CrowdIs DEF Typed
<1>3. WorldTyped
  BY <1>1, <1>2, Counted DEF WorldTyped, Typed
<1>4. S \in SUBSET ChanIds
  BY DEF Chans
<1>5. f \in Partial(CatIds, Nat)
  <2>1. /\ DOMAIN f \subseteq CatIds /\ f = [k \in DOMAIN f |-> f[k]]
        /\ \A k \in DOMAIN f : f[k] \in Nat
    BY DEF Cats
  <2> HIDE DEF f
  <2> QED BY <2>1, PartialIs
<1>6. j \in JobSet /\ Cleans(call[c], j)
  <2> HIDE DEF S, f
  <2>1. call[c] \in JobSet
    BY CallJob
  <2>2. j \in JobSet
    BY <2>1, <1>4, <1>5, WipeJob
  <2> QED BY <2>1, <2>2 DEF Cleans, KeepsAsk, JobSet
<1> HIDE DEF j
<1>7. CASE Set(c, j) /\ Fine
  <2>1. KeepsAsk(call[c], j)
    BY <1>6 DEF Cleans
  <2>2. Typed' /\ Alone(c) /\ call'[c] = j /\ hit' = hit
    BY <1>3, <1>6, <1>7, <2>1, SetIs, Counted
  <2> QED BY <2>2, <1>1, <1>6
<1>8. CASE Goto(c, "forget") /\ Fault(c)
  <2>1. Typed' /\ Alone(c) /\ Goes(call[c], call'[c], "forget") /\ hit' = hit \cup {c}
    BY <1>3, <1>8, GotoIs, Counted DEF Stages
  <2>2. Cleans(call[c], call'[c])
    BY <2>1 DEF Goes, Cleans, KeepsRest, KeepsPool
  <2> QED BY <2>1, <2>2, <1>1
<1> QED BY <1>1, <1>7, <1>8

\* A cleaning deletes channels and categories.
LEMMA WipeView ==
  ASSUME Typed, NEW c \in Calls, Wipe(c)
  PROVE  /\ Typed' /\ Alone(c) /\ UNCHANGED <<hooks, row, spoiled>>
         /\ call[c].at = "wipe" /\ Cleans(call[c], call'[c])
         /\ hit' = hit \/ hit' = hit \cup {c}
         /\ \/ UNCHANGED <<category, channel>>
            \/ category' = category /\ \E x \in ChanIds : channel' = [channel EXCEPT ![x] = Gone]
            \/ \E k \in CatIds :
                 /\ category' = [category EXCEPT ![k] = Gone]
                 /\ channel' = [x \in ChanIds |-> IF channel[x] = k THEN Root ELSE channel[x]]
<1> DEFINE x == Min(call[c].todo)
           k == Min(DOMAIN call[c].order)
           S == call[c].todo \ {x}
           f == [z \in DOMAIN call[c].order \ {k} |-> 0]
           j1 == [call[c] EXCEPT !.todo = S]
           j2 == [call[c] EXCEPT !.order = f]
           First == /\ call[c].todo # {} /\ Set(c, j1) /\ category' = category
                    /\ \/ channel' = [channel EXCEPT ![x] = Gone] /\ Fine
                       \/ channel' = channel /\ Fault(c)
           Second == /\ DOMAIN call[c].order # {} /\ Set(c, j2)
                     /\ \/ /\ category' = [category EXCEPT ![k] = Gone]
                           /\ channel' = [y \in ChanIds |-> IF channel[y] = k THEN Root ELSE channel[y]]
                           /\ Fine
                        \/ UNCHANGED <<category, channel>> /\ Fault(c)
           Third == Goto(c, "forget") /\ Fine /\ UNCHANGED <<category, channel>>
           Done == \/ UNCHANGED <<category, channel>>
                   \/ category' = category /\ \E y \in ChanIds : channel' = [channel EXCEPT ![y] = Gone]
                   \/ \E y \in CatIds :
                        /\ category' = [category EXCEPT ![y] = Gone]
                        /\ channel' = [z \in ChanIds |-> IF channel[z] = y THEN Root ELSE channel[z]]
<1>1. /\ UNCHANGED <<hooks, row, pinned, spoiled>> /\ call[c].at = "wipe"
      /\ First \/ Second \/ Third
  BY DEF Wipe, At
<1>2. /\ call[c] \in JobSet /\ call[c].todo \subseteq ChanIds
      /\ DOMAIN call[c].order \subseteq CatIds
  BY CallJob, JobIs
<1>3. ASSUME category' \in [CatIds -> {None, Gone} \cup (Families \X Nat)],
             channel' \in [ChanIds -> {None, Gone, Root, Meta} \cup CatIds],
             Fine \/ Fault(c)
      PROVE  WorldTyped /\ (hit' = hit \/ hit' = hit \cup {c})
  BY <1>1, <1>3, Counted DEF WorldTyped, Typed
<1>4. ASSUME First PROVE Typed' /\ Alone(c) /\ Cleans(call[c], call'[c]) /\ Done /\ (hit' = hit \/ hit' = hit \cup {c})
  <2>1. call[c].todo \in SUBSET Nat /\ IsFiniteSet(call[c].todo) /\ call[c].todo # {}
    BY <1>2, <1>4, PoolAssumption, FS_Subset
  <2>2. x \in ChanIds
    BY <2>1, <1>2, Extremes
  <2>3. S \in SUBSET ChanIds
    BY <1>2
  <2> HIDE DEF x, S
  <2>4. WorldTyped /\ (hit' = hit \/ hit' = hit \cup {c})
    BY <1>3, <1>4, <2>2 DEF Typed
  <2>5. Done
    BY <1>4, <2>2
  <2>6. call[c].order \in Partial(CatIds, Nat)
    BY <1>2, JobIs
  <2>7. j1 \in JobSet
    BY <1>2, <2>3, <2>6, WipeJob
  <2>8. Cleans(call[c], j1)
    BY <1>1, <1>2 DEF Cleans, KeepsAsk, JobSet
  <2> HIDE DEF j1, Done
  <2>9. KeepsAsk(call[c], j1)
    BY <2>8 DEF Cleans
  <2> QED BY <1>4, <2>4, <2>5, <2>7, <2>8, <2>9, SetIs
<1>5. ASSUME Second PROVE Typed' /\ Alone(c) /\ Cleans(call[c], call'[c]) /\ Done /\ (hit' = hit \/ hit' = hit \cup {c})
  <2>1. DOMAIN call[c].order \in SUBSET Nat /\ IsFiniteSet(DOMAIN call[c].order) /\ DOMAIN call[c].order # {}
    BY <1>2, <1>5, PoolAssumption, FS_Subset
  <2>2. k \in CatIds
    BY <2>1, <1>2, Extremes
  <2>3. f \in Partial(CatIds, Nat)
    <3>1. /\ DOMAIN f \subseteq CatIds /\ f = [z \in DOMAIN f |-> f[z]]
          /\ \A z \in DOMAIN f : f[z] \in Nat
      BY <1>2
    <3> HIDE DEF f
    <3> QED BY <3>1, PartialIs
  <2> HIDE DEF k, f
  <2>4. WorldTyped /\ (hit' = hit \/ hit' = hit \cup {c})
    BY <1>3, <1>5, <2>2 DEF Typed
  <2>5. Done
    BY <1>5, <2>2
  <2>6. j2 \in JobSet
    BY <1>2, <2>3, WipeJob
  <2>7. Cleans(call[c], j2)
    BY <1>1, <1>2 DEF Cleans, KeepsAsk, JobSet
  <2> HIDE DEF j2, Done
  <2>8. KeepsAsk(call[c], j2)
    BY <2>7 DEF Cleans
  <2> QED BY <1>5, <2>4, <2>5, <2>6, <2>7, <2>8, SetIs
<1>6. ASSUME Third PROVE Typed' /\ Alone(c) /\ Cleans(call[c], call'[c]) /\ Done /\ (hit' = hit \/ hit' = hit \cup {c})
  <2>1. WorldTyped /\ (hit' = hit \/ hit' = hit \cup {c})
    BY <1>3, <1>6 DEF Typed
  <2>2. Typed' /\ Alone(c) /\ Goes(call[c], call'[c], "forget")
    BY <2>1, <1>6, GotoIs DEF Stages
  <2>3. Cleans(call[c], call'[c])
    BY <2>2 DEF Goes, Cleans, KeepsRest, KeepsPool
  <2> QED BY <2>1, <2>2, <2>3, <1>6
<1> HIDE DEF First, Second, Third
<1>7. Typed' /\ Alone(c) /\ Cleans(call[c], call'[c]) /\ Done /\ (hit' = hit \/ hit' = hit \cup {c})
  <2> HIDE DEF Done
  <2> QED BY <1>1, <1>4, <1>5, <1>6
<1> QED BY <1>1, <1>7

\* A cleaning empties the catalog.
LEMMA ForgetView ==
  ASSUME Typed, NEW c \in Calls, Forget(c)
  PROVE  /\ Typed' /\ Alone(c) /\ UNCHANGED <<category, channel, hooks, hit, spoiled>>
         /\ call[c].at = "forget" /\ Ends(call[c], call'[c], "done", {})
         /\ \A x \in Places : row'[x] = None
<1>1. /\ UNCHANGED <<category, channel, hooks, pinned, faults, hit, spoiled>>
      /\ call[c].at = "forget" /\ End(c, "done", {}) /\ row' = [x \in DOMAIN row |-> None]
  BY DEF Forget, At, discord
<1>2. row' = [x \in Places |-> None]
  BY <1>1 DEF Typed
<1>3. WorldTyped
  BY <1>1, <1>2 DEF WorldTyped, Typed
<1> QED BY <1>1, <1>2, <1>3, EndIs DEF Stages

\* A new server.
LEMMA InitTyped ==
  ASSUME Init
  PROVE  /\ Typed
         /\ \A c \in Calls : call[c].at = "idle" /\ Ends(call[c], call[c], "idle", {})
<1>1. pinned \in CatIds \cup {None}
  <2>1. CatIds \in SUBSET Nat /\ IsFiniteSet(CatIds) /\ CatIds # {}
    BY PoolAssumption
  <2>2. Min(CatIds) \in CatIds
    BY <2>1, Extremes
  <2> QED BY <2>2 DEF Init
<1>2. PICK op \in [Calls -> Ops], want \in [Calls -> Wants] :
        /\ \A c \in Calls : op[c] \in Asks[c]
        /\ call = [c \in Calls |-> Job(op[c], want[c], "idle", {})]
  BY DEF Init
<1>3. ASSUME NEW c \in Calls
      PROVE  /\ call[c] \in JobSet /\ call[c].op \in Asks[c] /\ call[c].at = "idle"
             /\ Ends(call[c], call[c], "idle", {})
  <2> DEFINE j == Job(op[c], want[c], "idle", {})
  <2>1. call[c] = j
    BY <1>2
  <2>2. /\ Empty \in Partial(CatIds, Nat) /\ Empty \in Partial(Places, Nat)
        /\ NoId \in Places
    BY OtherTables DEF Places
  <2>3. op[c] \in Ops /\ want[c] \in Wants /\ "idle" \in Stages
    BY DEF Stages
  <2>4. /\ j \in JobSet /\ j.op = op[c] /\ j.at = "idle"
        /\ Ends(j, j, "idle", {})
    BY <2>2, <2>3 DEF Job, JobSet, Ends, KeepsAsk
  <2> HIDE DEF j
  <2> QED BY <2>1, <2>4, <1>2
<1>4. /\ call \in [Calls -> JobSet]
      /\ \A c \in Calls : call[c].op \in Asks[c]
  <2>1. DOMAIN call = Calls /\ call = [c \in Calls |-> call[c]]
    BY <1>2
  <2> QED BY <2>1, <1>3
<1>5. category \in [CatIds -> {None, Gone} \cup (Families \X Nat)]
  <2>1. <<"pinned", 1>> \in Families \X Nat
    BY DEF Families
  <2> QED BY <2>1 DEF Init
<1>6. /\ channel \in [ChanIds -> {None, Gone, Root, Meta} \cup CatIds]
      /\ hooks \in [ChanIds -> Nat]
      /\ row \in [Places -> Rows \cup {None}]
      /\ faults \in 0 .. MaxFaults /\ hit \subseteq Calls /\ spoiled \subseteq Spoilers
  BY PoolAssumption DEF Init, Places
<1> QED BY <1>1, <1>3, <1>4, <1>5, <1>6 DEF Typed

-----------------------------------------------------------------------------
(***************************************************************************)
(* Who is inside.                                                          *)
(***************************************************************************)
\* What a call's local state holds at each stage.
JobWays(k) ==
  /\ k.at = "lock" => k.op = "boot"
  /\ k.at \in {"wipe", "forget"} <=> k.op = "clean" /\ k.at \notin Outside
  /\ k.at \in {"idle", "lock", "meta", "postmeta", "list", "wipe", "forget", "done", "failed"} =>
       k.items = Empty /\ k.new = NoId
  /\ k.at \in {"idle", "lock", "meta", "postmeta", "list", "done", "failed"} =>
       k.todo = {} /\ k.cats = Empty /\ k.order = Empty
  /\ k.at \in {"grow", "postcat"} => k.new = NoId
  /\ k.at = "rehook" => k.new \in k.todo

Ways == \A c \in Calls : JobWays(call[c])

\* One call of syncAllBotGuilds at a time is past syncMu.
OneBoot ==
  \A c, d \in Calls : /\ Inside(c) /\ Inside(d)
                      /\ call[c].op = "boot" /\ call[d].op = "boot"
                      => c = d

\* What is not spoiled yet.
Solo == "overlap" \notin spoiled => \A c, d \in Calls : Inside(c) /\ Inside(d) => c = d
Pure == "taken" \notin spoiled =>
          \A c, d \in Calls : Inside(c) /\ Inside(d) /\ c # d => call[c].op \notin {"auto", "clean"}

\* A call comes in.
Entered(c) ==
  /\ spoiled' = spoiled \cup Crowd(c)
  /\ call[c].op = "boot" => \A d \in Calls \ {c} : call[d].op = "boot" => ~Inside(d)

\* What every step of call c has in common.
Common(c) ==
  /\ Typed' /\ Alone(c) /\ KeepsAsk(call[c], call'[c]) /\ JobWays(call'[c])
  /\ spoiled \subseteq spoiled' /\ hit \subseteq hit' /\ hit' \subseteq hit \cup {c}
  /\ Inside(c) \/ call'[c].at \in Outside \/ Entered(c)

\* A call that ended holds nothing.
LEMMA EndsWays ==
  ASSUME NEW k, NEW j, NEW st \in {"done", "failed"}, NEW S, Ends(k, j, st, S)
  PROVE  JobWays(j) /\ KeepsAsk(k, j) /\ j.at \in Outside
BY DEF Ends, JobWays, Outside

\* The steps of a call that begins.
LEMMA BeginCommon ==
  ASSUME Typed, Ways, NEW c \in Calls, BeginUpload(c) \/ BeginSetup(c) \/ BeginBackup(c) \/ BeginBoot(c) \/ Lock(c)
  PROVE  Common(c)
<1> DEFINE k == call[c]
           j == call'[c]
<1>1. JobWays(k)
  BY DEF Ways
<1>2. /\ Typed' /\ Alone(c) /\ hit' = hit
      /\ \/ /\ k.at = "idle" /\ k.op = "boot" /\ spoiled' = spoiled
            /\ Goes(k, j, "lock")
         \/ /\ k.at = "lock" /\ spoiled' = spoiled
            /\ Ends(k, j, "done", {})
         \/ /\ \/ k.at = "idle" /\ k.op \notin {"boot", "clean"}
               \/ /\ k.at = "lock"
                  /\ \A d \in Calls \ {c} : call[d].op = "boot" => ~Inside(d)
            /\ spoiled' = spoiled \cup Crowd(c)
            /\ \/ Goes(k, j, "list") /\ k.op = "upload" /\ k.at = "idle"
               \/ Goes(k, j, "meta") /\ (k.at = "lock" \/ k.op # "upload")
  BY EnterView
<1> HIDE DEF k, j
<1>3. CASE Goes(k, j, "lock") /\ spoiled' = spoiled /\ k.op = "boot" /\ k.at = "idle"
  <2>1. JobWays(j) /\ KeepsAsk(k, j) /\ j.at \in Outside
    BY <1>1, <1>3 DEF JobWays, Goes, KeepsAsk, KeepsPool, KeepsRest, Outside
  <2> QED BY <2>1, <1>2, <1>3 DEF Common, k, j
<1>4. CASE Ends(k, j, "done", {}) /\ spoiled' = spoiled
  <2>1. JobWays(j) /\ KeepsAsk(k, j) /\ j.at \in Outside
    BY <1>4, EndsWays
  <2> QED BY <2>1, <1>2, <1>4 DEF Common, k, j
<1>5. ASSUME NEW st \in {"list", "meta"}, Goes(k, j, st), spoiled' = spoiled \cup Crowd(c),
             \/ k.at = "idle" /\ k.op \notin {"boot", "clean"}
             \/ /\ k.at = "lock"
                /\ \A d \in Calls \ {c} : call[d].op = "boot" => ~Inside(d)
      PROVE  Common(c)
  <2>1. JobWays(j) /\ KeepsAsk(k, j)
    BY <1>1, <1>5 DEF JobWays, Goes, KeepsAsk, KeepsPool, KeepsRest, Outside
  <2>2. Entered(c)
    BY <1>5 DEF Entered, k
  <2> QED BY <2>1, <2>2, <1>2, <1>5 DEF Common, k, j
<1> QED BY <1>2, <1>3, <1>4, <1>5

\* Every other step is taken inside.
LEMMA SetupCommon ==
  ASSUME Typed, Ways, NEW c \in Calls, Setup(c)
  PROVE  Common(c)
<1> DEFINE k == call[c]
           j == call'[c]
<1>1. JobWays(k)
  BY DEF Ways
<1>2. CASE ListMeta(c)
  <2>1. /\ Typed' /\ Alone(c) /\ spoiled' = spoiled /\ k.at = "meta"
        /\ hit' = hit \/ hit' = hit \cup {c}
        /\ \/ Goes(k, j, "postmeta") \/ (\E x \in Metas : Learns(k, j, x))
           \/ Ends(k, j, "failed", {})
    BY <1>2, ListMetaView
  <2> HIDE DEF k, j
  <2>2. JobWays(j) /\ KeepsAsk(k, j)
    BY <1>1, <2>1, EndsWays DEF JobWays, Goes, Learns, KeepsAsk, KeepsPool, KeepsRest, Outside
  <2>3. Inside(c)
    BY <2>1 DEF Inside, Outside, k
  <2> QED BY <2>1, <2>2, <2>3 DEF Common, k, j
<1>3. CASE PostMeta(c)
  <2>1. /\ Typed' /\ Alone(c) /\ spoiled' = spoiled /\ k.at = "postmeta"
        /\ hit' = hit \/ hit' = hit \cup {c}
        /\ Goes(k, j, "list") \/ (\E x \in ChanIds : Learns(k, j, x))
    BY <1>3, PostMetaView
  <2> HIDE DEF k, j
  <2>2. JobWays(j) /\ KeepsAsk(k, j)
    BY <1>1, <2>1, EndsWays DEF JobWays, Goes, Learns, KeepsAsk, KeepsPool, KeepsRest, Outside
  <2>3. Inside(c)
    BY <2>1 DEF Inside, Outside, k
  <2> QED BY <2>1, <2>2, <2>3 DEF Common, k, j
<1> QED BY <1>2, <1>3, BeginCommon DEF Setup

\* The steps of SyncPool.
LEMMA SyncCommon ==
  ASSUME Typed, Ways, NEW c \in Calls, Sync(c)
  PROVE  Common(c)
<1> DEFINE k == call[c]
           j == call'[c]
<1>1. JobWays(k)
  BY DEF Ways
<1>2. CASE List(c)
  <2>1. /\ Typed' /\ Alone(c) /\ spoiled' = spoiled /\ k.at = "list"
        /\ hit' = hit \/ hit' = hit \cup {c}
        /\ Ends(k, j, "failed", {}) \/ (\E f, g, S, n : Lists(k, j, f, g, S, n))
    BY <1>2, ListView
  <2> HIDE DEF k, j
  <2>2. JobWays(j) /\ KeepsAsk(k, j)
    BY <1>1, <2>1, EndsWays DEF JobWays, Lists, KeepsAsk, KeepsPool, KeepsRest, Outside
  <2>3. Inside(c)
    BY <2>1 DEF Inside, Outside, k
  <2> QED BY <2>1, <2>2, <2>3 DEF Common, k, j
<1>3. CASE FindCategory(c)
  <2>1. /\ Typed' /\ Alone(c) /\ spoiled' = spoiled /\ k.at = "grow"
        /\ hit' = hit \/ hit' = hit \cup {c}
        /\ Goes(k, j, "postcat") \/ (\E f, g : Gets(k, j, f, g))
    BY <1>3, FindCategoryView
  <2> HIDE DEF k, j
  <2>2. JobWays(j) /\ KeepsAsk(k, j)
    BY <1>1, <2>1, EndsWays DEF JobWays, Goes, Gets, KeepsAsk, KeepsPool, KeepsRest, Outside
  <2>3. Inside(c)
    BY <2>1 DEF Inside, Outside, k
  <2> QED BY <2>1, <2>2, <2>3 DEF Common, k, j
<1>4. CASE PostCategory(c)
  <2>1. /\ Typed' /\ Alone(c) /\ spoiled' = spoiled /\ k.at = "postcat"
        /\ hit' = hit \/ hit' = hit \cup {c}
        /\ Ends(k, j, "failed", {}) \/ (\E f, g : Gets(k, j, f, g))
    BY <1>4, PostCategoryView
  <2> HIDE DEF k, j
  <2>2. JobWays(j) /\ KeepsAsk(k, j)
    BY <1>1, <2>1, EndsWays DEF JobWays, Gets, KeepsAsk, KeepsPool, KeepsRest, Outside
  <2>3. Inside(c)
    BY <2>1 DEF Inside, Outside, k
  <2> QED BY <2>1, <2>2, <2>3 DEF Common, k, j
<1>5. CASE PostChannel(c)
  <2>1. /\ Typed' /\ Alone(c) /\ k.at = "grow"
        /\ hit' = hit \/ hit' = hit \cup {c}
        /\ spoiled' = spoiled \/ spoiled' = spoiled \cup Excuse(c)
        /\ Ends(k, j, "failed", {}) \/ (\E x, f, n : Takes(k, j, x, f, n))
    BY <1>5, PostChannelView
  <2> HIDE DEF k, j
  <2>2. JobWays(j) /\ KeepsAsk(k, j)
    BY <1>1, <2>1, EndsWays DEF JobWays, Takes, KeepsAsk, KeepsPool, KeepsRest, Outside
  <2>3. Inside(c)
    BY <2>1 DEF Inside, Outside, k
  <2>4. spoiled \subseteq spoiled'
    BY <2>1
  <2> QED BY <2>1, <2>2, <2>3, <2>4 DEF Common, k, j
<1>6. CASE HookNew(c) \/ HookOld(c)
  <2>1. /\ Typed' /\ Alone(c) /\ k.at \in {"posthook", "rehook"} /\ Posted(c, k.new)
    BY <1>6, HookView
  <2>2. /\ hit' = hit \/ hit' = hit \cup {c}
        /\ spoiled' = spoiled \/ spoiled' = spoiled \cup Excuse(c)
        /\ Ends(k, j, "failed", {}) \/ (\E x, f : Puts(k, j, x, f))
    BY <2>1 DEF Posted
  <2> HIDE DEF k, j
  <2>3. JobWays(j) /\ KeepsAsk(k, j)
    BY <1>1, <2>1, <2>2, EndsWays DEF JobWays, Puts, KeepsAsk, KeepsPool, KeepsRest, Outside
  <2>4. Inside(c)
    BY <2>1 DEF Inside, Outside, k
  <2>5. spoiled \subseteq spoiled'
    BY <2>2
  <2> QED BY <2>1, <2>2, <2>3, <2>4, <2>5 DEF Common, k, j
<1>7. CASE Ensure(c)
  <2>1. /\ Typed' /\ Alone(c) /\ spoiled \subseteq spoiled' /\ k.at = "grow"
        /\ hit' = hit \/ hit' = hit \cup {c}
        /\ (\E x \in k.todo : Rehooks(k, j, x)) \/ (\E x, f : Puts(k, j, x, f))
    BY <1>7, EnsureView DEF Grown, At
  <2> HIDE DEF k, j
  <2>2. JobWays(j) /\ KeepsAsk(k, j)
    BY <1>1, <2>1 DEF JobWays, Puts, Rehooks, KeepsAsk, KeepsPool, KeepsRest, Outside
  <2>3. Inside(c)
    BY <2>1 DEF Inside, Outside, k
  <2> QED BY <2>1, <2>2, <2>3 DEF Common, k, j
<1> QED BY <1>2, <1>3, <1>4, <1>5, <1>6, <1>7, BeginCommon DEF Sync

\* The steps that write to the catalog, and those of a cleaning.
LEMMA WriteCommon ==
  ASSUME Typed, Ways, NEW c \in Calls, Write(c) \/ Clean(c)
  PROVE  Common(c)
<1> DEFINE k == call[c]
           j == call'[c]
<1>1. JobWays(k)
  BY DEF Ways
<1>2. CASE Record(c)
  <2>1. /\ Typed' /\ Alone(c) /\ spoiled' = spoiled /\ k.at = "grow" /\ hit' = hit
        /\ \E f : Writes(k, j, f)
    BY <1>2, RecordView DEF Synced, Grown, At
  <2> HIDE DEF k, j
  <2>2. JobWays(j) /\ KeepsAsk(k, j)
    BY <1>1, <2>1 DEF JobWays, Writes, KeepsAsk, KeepsPool, Outside
  <2>3. Inside(c)
    BY <2>1 DEF Inside, Outside, k
  <2> QED BY <2>1, <2>2, <2>3 DEF Common, k, j
<1>3. CASE TakePool(c) \/ RecordMeta(c) \/ Forget(c)
  <2>1. /\ Typed' /\ Alone(c) /\ spoiled' = spoiled /\ hit' = hit
        /\ k.at \in {"grow", "forget"}
        /\ \E S : Ends(k, j, "done", S)
    BY <1>3, TakePoolView, RecordMetaView, ForgetView DEF Recorded, Synced, Grown, At
  <2> HIDE DEF k, j
  <2>2. JobWays(j) /\ KeepsAsk(k, j)
    BY <2>1, EndsWays
  <2>3. Inside(c)
    BY <2>1 DEF Inside, Outside, k
  <2> QED BY <2>1, <2>2, <2>3 DEF Common, k, j
<1>4. CASE BeginClean(c)
  <2>1. /\ Typed' /\ Alone(c) /\ k.at = "idle" /\ k.op = "clean" /\ Cleans(k, j)
        /\ spoiled' = spoiled \cup Crowd(c) /\ (hit' = hit \/ hit' = hit \cup {c})
    BY <1>4, BeginCleanView
  <2> HIDE DEF k, j
  <2>2. JobWays(j) /\ KeepsAsk(k, j)
    BY <1>1, <2>1 DEF JobWays, Cleans, KeepsAsk, Outside
  <2>3. Entered(c)
    BY <2>1 DEF Entered, k
  <2> QED BY <2>1, <2>2, <2>3 DEF Common, k, j
<1>5. CASE Wipe(c)
  <2>1. /\ Typed' /\ Alone(c) /\ spoiled' = spoiled /\ k.at = "wipe" /\ Cleans(k, j)
        /\ hit' = hit \/ hit' = hit \cup {c}
    BY <1>5, WipeView
  <2> HIDE DEF k, j
  <2>2. JobWays(j) /\ KeepsAsk(k, j)
    BY <1>1, <2>1 DEF JobWays, Cleans, KeepsAsk, Outside
  <2>3. Inside(c)
    BY <2>1 DEF Inside, Outside, k
  <2> QED BY <2>1, <2>2, <2>3 DEF Common, k, j
<1> QED BY <1>2, <1>3, <1>4, <1>5 DEF Write, Clean

\* Every step.
LEMMA StepCommon ==
  ASSUME Typed, Ways, Next
  PROVE  \E c \in Calls : Common(c)
BY SetupCommon, SyncCommon, WriteCommon DEF Next

Gates == Typed /\ Ways /\ OneBoot /\ Solo /\ Pure

\* A new server.
LEMMA InitGates ==
  ASSUME Init
  PROVE  Gates
<1>1. Typed /\ \A c \in Calls : call[c].at = "idle" /\ Ends(call[c], call[c], "idle", {})
  BY InitTyped
<1>2. Ways
  BY <1>1 DEF Ways, JobWays, Ends, Outside
<1>3. OneBoot /\ Solo /\ Pure
  BY <1>1 DEF OneBoot, Solo, Pure, Inside, Outside
<1> QED BY <1>1, <1>2, <1>3 DEF Gates

\* Who is inside after a step.
LEMMA StepGates ==
  ASSUME Gates, NEW c \in Calls, Common(c)
  PROVE  Gates'
<1>1. /\ Typed' /\ KeepsAsk(call[c], call'[c]) /\ JobWays(call'[c])
      /\ \A d \in Calls \ {c} : call'[d] = call[d]
      /\ spoiled \subseteq spoiled'
      /\ Inside(c) \/ call'[c].at \in Outside \/ Entered(c)
  BY DEF Common, Alone
<1>2. \A d \in Calls : call'[d].op = call[d].op
  BY <1>1 DEF KeepsAsk
<1>3. Ways'
  BY <1>1 DEF Ways, Gates
<1>4. \A d \in Calls \ {c} : Inside(d)' <=> Inside(d)
  BY <1>1 DEF Inside
<1>5. CASE ~Inside(c) /\ Entered(c)
  <2>1. spoiled' = spoiled \cup Crowd(c)
    BY <1>5 DEF Entered
  <2>2. \A d \in Calls \ {c} : Inside(d) =>
           /\ call[c].op = "boot" => call[d].op # "boot"
           /\ "overlap" \notin spoiled' => call[c].op = "boot" /\ call[d].op = "boot"
           /\ "taken" \notin spoiled' => {call[c].op, call[d].op} \cap {"auto", "clean"} = {}
    BY <1>5, <2>1, CrowdIs DEF Entered
  <2>3. OneBoot'
    BY <1>2, <1>4, <2>2 DEF OneBoot, Gates
  <2>4. Solo'
    BY <1>2, <1>4, <2>1, <2>2 DEF Solo, Gates
  <2>5. Pure'
    BY <1>2, <1>4, <2>1, <2>2 DEF Pure, Gates
  <2> QED BY <1>1, <1>3, <2>3, <2>4, <2>5 DEF Gates
<1>6. CASE Inside(c) \/ call'[c].at \in Outside
  <2>1. \A d \in Calls : Inside(d)' => Inside(d)
    BY <1>4, <1>6 DEF Inside
  <2>2. OneBoot' /\ Solo' /\ Pure'
    BY <1>1, <1>2, <2>1 DEF OneBoot, Solo, Pure, Gates
  <2> QED BY <1>1, <1>3, <2>2 DEF Gates
<1> QED BY <1>1, <1>5, <1>6

\* No step.
LEMMA GatesStutter ==
  ASSUME Gates, UNCHANGED vars
  PROVE  Gates'
BY DEF Gates, vars, Typed, Ways, OneBoot, Solo, Pure, Inside

\* The types, and who is inside, at every time.
LEMMA GatesInvariant == Spec => []Gates
<1>1. Init => Gates
  BY InitGates
<1>2. Gates /\ [Next]_vars => Gates'
  <2>1. ASSUME Gates, Next PROVE Gates'
    <3>1. PICK c \in Calls : Common(c)
      BY <2>1, StepCommon DEF Gates
    <3> QED BY <2>1, <3>1, StepGates
  <2> QED BY <2>1, GatesStutter
<1> QED BY <1>1, <1>2, PTL DEF Spec

\* TypeOK: Discord, the catalog and the calls have the shape the code gives them, and
\* one call of syncAllBotGuilds at a time is past syncMu.
THEOREM PoolTypes == Spec => []TypeOK
<1>1. Gates => TypeOK
  <2> SUFFICES ASSUME Gates PROVE TypeOK
    OBVIOUS
  <2> DEFINE B == {c \in Calls : call[c].op = "boot" /\ call[c].at \notin Outside}
  <2>1. Cardinality(B) <= 1
    <3>1. CASE B = {}
      BY <3>1, FS_EmptySet
    <3>2. CASE B # {}
      <4>1. PICK c \in B : TRUE
        BY <3>2
      <4>2. B = {c}
        BY <4>1 DEF Gates, OneBoot, Inside
      <4> HIDE DEF B
      <4> QED BY <4>2, FS_Singleton
    <3> QED BY <3>1, <3>2
  <2>2. \A c \in Calls : /\ call[c].op \in Asks[c]
                         /\ DOMAIN call[c].cats \subseteq CatIds
                         /\ DOMAIN call[c].items \subseteq ChanIds \cup {NoId}
    BY CallJob, JobIs DEF Gates, Typed, Places
  <2>3. Typed
    BY DEF Gates
  <2> HIDE DEF B
  <2>4. /\ \A k \in CatIds : category[k] \in {None, Gone} \cup (Families \X Nat)
        /\ \A x \in ChanIds : channel[x] \in {None, Gone, Root, Meta} \cup CatIds
        /\ hooks \in [ChanIds -> Nat]
        /\ \A x \in DOMAIN row : row[x] \in Rows \cup {None}
    BY <2>3 DEF Typed
  <2>5. /\ pinned \in CatIds \cup {None}
        /\ faults \in 0 .. MaxFaults /\ hit \subseteq Calls /\ spoiled \subseteq Spoilers
    BY <2>3 DEF Typed
  <2> QED BY <2>1, <2>2, <2>4, <2>5 DEF TypeOK, B
<1> QED BY <1>1, GatesInvariant, PTL

-----------------------------------------------------------------------------
(***************************************************************************)
(* RowsUsable.                                                             *)
(***************************************************************************)
\* Channel x is there, and w is one of its webhooks.
There(x, chan) == x \in ChanIds /\ chan[x] \notin {None, Gone}
Own(x, w, chan, hks) == There(x, chan) /\ w \in 1 .. hks[x]

\* What a call has listed, and what it has just made.
ItemsOwn(k, chan, hks) ==
  \A x \in DOMAIN k.items :
    \/ k.op # "setup" /\ (x = NoId \/ k.items[x] = NoHook)
    \/ Own(x, k.items[x], chan, hks)
NewOwn(k, chan) == k.at = "posthook" /\ k.op = "setup" => There(k.new, chan)

\* What a row says.
RowOwn(r, x, chan, hks) == r # None /\ r.guild /\ ~r.meta => Own(x, r.hook, chan, hks)

Unharmed == spoiled \cap {"taken", "refused"} = {}
Free == \A c \in Calls : call[c].op = "clean" => ~Inside(c)

RowsInv ==
  Unharmed =>
    /\ Free => \A x \in Places : RowOwn(row[x], x, channel, hooks)
    /\ \A c \in Calls : ItemsOwn(call[c], channel, hooks) /\ NewOwn(call[c], channel)

\* Nothing goes away.
Grows(chan, hks, chan2, hks2) ==
  \A x \in ChanIds : /\ There(x, chan) => There(x, chan2)
                     /\ hks[x] \in Nat /\ hks2[x] \in Nat /\ hks[x] <= hks2[x]

\* What is there stays there when nothing goes away.
LEMMA OwnGrows ==
  ASSUME NEW chan, NEW hks, NEW chan2, NEW hks2, Grows(chan, hks, chan2, hks2)
  PROVE  /\ \A x, w : Own(x, w, chan, hks) => Own(x, w, chan2, hks2)
         /\ \A k : ItemsOwn(k, chan, hks) => ItemsOwn(k, chan2, hks2)
         /\ \A k : NewOwn(k, chan) => NewOwn(k, chan2)
         /\ \A r, x : RowOwn(r, x, chan, hks) => RowOwn(r, x, chan2, hks2)
<1>1. ASSUME NEW x, NEW w, Own(x, w, chan, hks) PROVE Own(x, w, chan2, hks2)
  BY <1>1 DEF Own, Grows, There
<1>2. \A x : There(x, chan) => There(x, chan2)
  BY DEF Grows, There
<1> QED BY <1>1, <1>2 DEF ItemsOwn, NewOwn, RowOwn

\* It is enough to look at the call that steps and at the row it writes.
LEMMA RowsKept ==
  ASSUME Gates, RowsInv, NEW c \in Calls, Common(c), call[c].op # "clean",
         Grows(channel, hooks, channel', hooks'),
         Unharmed' => ItemsOwn(call'[c], channel', hooks') /\ NewOwn(call'[c], channel'),
         Unharmed' /\ Free => \A x \in Places : row'[x] = row[x] \/ RowOwn(row'[x], x, channel', hooks')
  PROVE  RowsInv'
<1> SUFFICES ASSUME Unharmed'
             PROVE  /\ Free' => \A x \in Places : RowOwn(row'[x], x, channel', hooks')
                    /\ \A d \in Calls : ItemsOwn(call'[d], channel', hooks') /\ NewOwn(call'[d], channel')
  BY DEF RowsInv
<1>1. /\ Unharmed
      /\ \A d \in Calls \ {c} : call'[d] = call[d]
      /\ call'[c].op = call[c].op
  BY DEF Unharmed, Common, Alone, KeepsAsk
<1>2. Free' => Free
  BY <1>1 DEF Free, Inside
<1>3. \A d \in Calls : ItemsOwn(call'[d], channel', hooks') /\ NewOwn(call'[d], channel')
  <2>1. \A d \in Calls : ItemsOwn(call[d], channel, hooks) /\ NewOwn(call[d], channel)
    BY <1>1 DEF RowsInv
  <2>2. \A d \in Calls : ItemsOwn(call[d], channel', hooks') /\ NewOwn(call[d], channel')
    BY <2>1, OwnGrows
  <2>3. ASSUME NEW d \in Calls
        PROVE  ItemsOwn(call'[d], channel', hooks') /\ NewOwn(call'[d], channel')
    <3>1. CASE d = c
      BY <3>1
    <3>2. CASE d # c
      <4>1. call'[d] = call[d]
        BY <1>1, <3>2
      <4> QED BY <2>2, <4>1
    <3> QED BY <3>1, <3>2
  <2> QED BY <2>3
<1>4. ASSUME Free', NEW x \in Places PROVE RowOwn(row'[x], x, channel', hooks')
  <2>1. RowOwn(row[x], x, channel, hooks)
    BY <1>1, <1>2, <1>4 DEF RowsInv
  <2>2. RowOwn(row[x], x, channel', hooks')
    BY <2>1, OwnGrows
  <2>3. row'[x] = row[x] \/ RowOwn(row'[x], x, channel', hooks')
    BY <1>2, <1>4
  <2> QED BY <2>2, <2>3
<1> QED BY <1>3, <1>4

\* Where nothing changes nothing goes away.
LEMMA NothingGone ==
  ASSUME Typed
  PROVE  Grows(channel, hooks, channel, hooks)
BY DEF Typed, Grows

\* A call that lists nothing more than before.
LEMMA Listless ==
  ASSUME NEW k, NEW j, NEW chan, NEW hks, ItemsOwn(k, chan, hks),
         KeepsAsk(k, j), j.items = k.items \/ j.items = Empty, j.at # "posthook"
  PROVE  ItemsOwn(j, chan, hks) /\ NewOwn(j, chan)
<1>1. DOMAIN Empty = {}
  BY OtherTables
<1>2. CASE j.items = Empty
  BY <1>1, <1>2 DEF ItemsOwn, NewOwn
<1>3. CASE j.items = k.items
  BY <1>3 DEF ItemsOwn, NewOwn, KeepsAsk
<1> QED BY <1>2, <1>3

\* Steps that change neither channels, nor webhooks, nor rows, nor items.
LEMMA QuietRows ==
  ASSUME Gates, RowsInv, NEW c \in Calls, Common(c), call[c].op # "clean",
         UNCHANGED <<channel, hooks, row>>,
         call'[c].items = call[c].items \/ call'[c].items = Empty, call'[c].at # "posthook"
  PROVE  RowsInv'
<1>1. Grows(channel, hooks, channel', hooks')
  BY NothingGone DEF Gates
<1>2. KeepsAsk(call[c], call'[c]) /\ (Unharmed' => Unharmed)
  BY DEF Common, Unharmed
<1>3. Unharmed' => ItemsOwn(call'[c], channel', hooks') /\ NewOwn(call'[c], channel')
  <2>1. Unharmed' => ItemsOwn(call[c], channel, hooks)
    BY <1>2 DEF RowsInv
  <2>2. ItemsOwn(call[c], channel, hooks) => ItemsOwn(call'[c], channel, hooks) /\ NewOwn(call'[c], channel)
    BY <1>2, Listless
  <2> QED BY <2>1, <2>2
<1> QED BY <1>1, <1>3, RowsKept

\* A call inside that is not deleting is no cleaning.
LEMMA NoCleaning ==
  ASSUME Gates, NEW c \in Calls, call[c].at \notin Outside \cup {"wipe", "forget"}
  PROVE  call[c].op # "clean" /\ Inside(c)
BY DEF Gates, Ways, JobWays, Inside

\* Steps that leave channels, webhooks and rows alone, and what is listed.
LEMMA QuietSteps ==
  ASSUME Gates, RowsInv, NEW c \in Calls,
         \/ BeginUpload(c) \/ BeginSetup(c) \/ BeginBackup(c) \/ BeginBoot(c) \/ Lock(c)
         \/ ListMeta(c) \/ List(c) \/ FindCategory(c) \/ PostCategory(c) \/ TakePool(c)
  PROVE  RowsInv'
<1> DEFINE k == call[c]
           j == call'[c]
<1>1. Typed /\ Ways
  BY DEF Gates
<1>2. Common(c)
  BY <1>1, BeginCommon, SetupCommon, SyncCommon, WriteCommon DEF Setup, Sync, Write
<1>3. CASE BeginUpload(c) \/ BeginSetup(c) \/ BeginBackup(c) \/ BeginBoot(c) \/ Lock(c)
  <2>1. /\ UNCHANGED <<channel, hooks, row>>
        /\ k.op \in {"boot"} \/ k.at = "lock" \/ k.op # "clean"
        /\ \/ \E st \in {"lock", "list", "meta"} : Goes(k, j, st)
           \/ Ends(k, j, "done", {})
    BY <1>1, <1>3, EnterView
  <2>2. k.op # "clean"
    BY <2>1 DEF Gates, Ways, JobWays
  <2>3. (j.items = k.items \/ j.items = Empty) /\ j.at # "posthook"
    <3> HIDE DEF k, j
    <3> QED BY <2>1 DEF Goes, Ends, KeepsRest
  <2> QED BY <1>2, <2>1, <2>2, <2>3, QuietRows
<1>4. CASE ListMeta(c) \/ List(c) \/ FindCategory(c) \/ PostCategory(c)
  <2>1. /\ UNCHANGED <<channel, hooks, row>> /\ k.at \in {"meta", "list", "grow", "postcat"}
        /\ \/ \E st \in {"postmeta", "postcat"} : Goes(k, j, st)
           \/ \E x \in Metas : Learns(k, j, x)
           \/ \E f, g, S, n : Lists(k, j, f, g, S, n)
           \/ \E f, g : Gets(k, j, f, g)
           \/ Ends(k, j, "failed", {})
    <3>1. CASE ListMeta(c)
      BY <1>1, <3>1, ListMetaView
    <3>2. CASE List(c)
      BY <1>1, <3>2, ListView
    <3>3. CASE FindCategory(c)
      BY <1>1, <3>3, FindCategoryView
    <3>4. CASE PostCategory(c)
      BY <1>1, <3>4, PostCategoryView
    <3> QED BY <1>4, <3>1, <3>2, <3>3, <3>4
  <2>2. k.op # "clean"
    BY <2>1, NoCleaning DEF Outside
  <2>3. (j.items = k.items \/ j.items = Empty) /\ j.at # "posthook"
    <3> HIDE DEF k, j
    <3> QED BY <2>1 DEF Goes, Learns, Lists, Gets, Ends, KeepsRest
  <2> QED BY <1>2, <2>1, <2>2, <2>3, QuietRows
<1>5. CASE TakePool(c)
  <2>1. /\ UNCHANGED <<channel, hooks, row>> /\ k.op = "upload"
        /\ Ends(k, j, "done", StorageRows)
    BY <1>1, <1>5, TakePoolView
  <2>2. j.items = Empty /\ j.at # "posthook"
    BY <2>1 DEF Ends
  <2> QED BY <1>2, <2>1, <2>2, QuietRows
<1> QED BY <1>3, <1>4, <1>5

\* A channel is made.
LEMMA ChannelGrows ==
  ASSUME Typed, NEW x \in ChanIds, channel[x] = None, NEW v \in {Meta} \cup CatIds,
         channel' = channel \/ channel' = [channel EXCEPT ![x] = v], hooks' = hooks
  PROVE  /\ Grows(channel, hooks, channel', hooks')
         /\ channel' = [channel EXCEPT ![x] = v] => There(x, channel')
<1>1. v \notin {None, Gone}
  BY MarksAssumption, PoolAssumption
<1>2. channel \in [ChanIds -> {None, Gone, Root, Meta} \cup CatIds] /\ hooks \in [ChanIds -> Nat]
  BY DEF Typed
<1> QED BY <1>1, <1>2 DEF Grows, There

\* The metadata channel comes into existence.
LEMMA PostMetaRows ==
  ASSUME Gates, RowsInv, NEW c \in Calls, PostMeta(c)
  PROVE  RowsInv'
<1> DEFINE k == call[c]
           j == call'[c]
<1>1. Typed /\ Ways
  BY DEF Gates
<1>2. Common(c)
  BY <1>1, SetupCommon DEF Setup
<1>3. PICK x \in ChanIds :
              /\ channel[x] = None
              /\ channel' = channel \/ channel' = [channel EXCEPT ![x] = Meta]
              /\ Learns(k, j, x) \/ Goes(k, j, "list")
  BY <1>1, PostMetaView
<1>4. k.at = "postmeta" /\ UNCHANGED <<hooks, row>>
  BY <1>1, PostMetaView
<1>5. Grows(channel, hooks, channel', hooks')
  BY <1>1, <1>3, <1>4, ChannelGrows
<1>6. k.op # "clean"
  BY <1>4, NoCleaning DEF Outside
<1>7. KeepsAsk(k, j) /\ j.items = k.items /\ j.at # "posthook"
  <2> HIDE DEF k, j
  <2> QED BY <1>3 DEF Learns, Goes, KeepsRest
<1>8. Unharmed' => ItemsOwn(j, channel', hooks') /\ NewOwn(j, channel')
  <2>1. Unharmed' => ItemsOwn(k, channel, hooks)
    BY <1>2 DEF RowsInv, Unharmed, Common
  <2>2. ItemsOwn(k, channel, hooks) => ItemsOwn(k, channel', hooks')
    BY <1>5, OwnGrows
  <2>3. ItemsOwn(k, channel', hooks') => ItemsOwn(j, channel', hooks') /\ NewOwn(j, channel')
    BY <1>7, Listless
  <2> QED BY <2>1, <2>2, <2>3
<1> QED BY <1>2, <1>4, <1>5, <1>6, <1>8, RowsKept

\* A channel comes into existence.
LEMMA PostChannelRows ==
  ASSUME Gates, RowsInv, NEW c \in Calls, PostChannel(c)
  PROVE  RowsInv'
<1> DEFINE k == call[c]
           j == call'[c]
<1>1. Typed /\ Ways
  BY DEF Gates
<1>2. Common(c)
  BY <1>1, SyncCommon DEF Sync
<1>3. k.at = "grow" /\ UNCHANGED <<hooks, row>>
  BY <1>1, PostChannelView
<1>4. \/ \E g \in CatIds, x \in ChanIds :
           /\ channel[x] = None /\ channel' = [channel EXCEPT ![x] = g]
           /\ \/ \E f, n : Takes(k, j, x, f, n)
              \/ (\E f, n : Takes(k, j, NoId, f, n)) /\ spoiled' = spoiled \cup Excuse(c)
              \/ Ends(k, j, "failed", {})
      \/ /\ channel' = channel
         /\ \/ (\E f, n : Takes(k, j, NoId, f, n)) /\ spoiled' = spoiled \cup Excuse(c)
            \/ Ends(k, j, "failed", {})
  <2>1. Filling(c) \subseteq CatIds
    BY <1>1, CallJob, JobIs DEF Filling
  <2> QED BY <1>1, <2>1, PostChannelView
<1>5. k.op # "clean"
  BY <1>3, NoCleaning DEF Outside
<1>6. Unharmed' => ItemsOwn(k, channel, hooks)
  BY <1>2 DEF RowsInv, Unharmed, Common
<1>7. ASSUME Grows(channel, hooks, channel', hooks'),
             Unharmed' /\ j.at = "posthook" /\ j.op = "setup" => There(j.new, channel'),
             (\E x, f, n : Takes(k, j, x, f, n)) \/ Ends(k, j, "failed", {})
      PROVE  RowsInv'
  <2>1. KeepsAsk(k, j) /\ (j.items = k.items \/ j.items = Empty)
    <3> HIDE DEF k, j
    <3> QED BY <1>7 DEF Takes, Ends, KeepsRest
  <2>2. ItemsOwn(k, channel, hooks) => ItemsOwn(k, channel', hooks')
    BY <1>7, OwnGrows
  <2>3. ItemsOwn(k, channel', hooks') => ItemsOwn(j, channel', hooks')
    <3> HIDE DEF k, j
    <3>1. DOMAIN Empty = {}
      BY OtherTables
    <3> QED BY <2>1, <3>1 DEF ItemsOwn, KeepsAsk
  <2>4. Unharmed' => ItemsOwn(j, channel', hooks') /\ NewOwn(j, channel')
    BY <1>6, <1>7, <2>2, <2>3 DEF NewOwn
  <2> QED BY <1>2, <1>3, <1>5, <1>7, <2>4, RowsKept
<1>8. ASSUME NEW g \in CatIds, NEW x \in ChanIds, channel[x] = None,
             channel' = [channel EXCEPT ![x] = g],
             \E f, n : Takes(k, j, x, f, n)
      PROVE  RowsInv'
  <2>1. Grows(channel, hooks, channel', hooks') /\ There(x, channel')
    BY <1>1, <1>3, <1>8, ChannelGrows
  <2>2. j.at = "posthook" => j.new = x
    <3> HIDE DEF k, j
    <3> QED BY <1>8 DEF Takes
  <2> QED BY <1>7, <1>8, <2>1, <2>2
<1>9. ASSUME channel' = channel \/ (\E g \in CatIds, x \in ChanIds :
                                      channel[x] = None /\ channel' = [channel EXCEPT ![x] = g]),
             \/ (\E f, n : Takes(k, j, NoId, f, n)) /\ spoiled' = spoiled \cup Excuse(c)
             \/ Ends(k, j, "failed", {})
      PROVE  RowsInv'
  <2>1. Grows(channel, hooks, channel', hooks')
    BY <1>1, <1>3, <1>9, NothingGone, ChannelGrows
  <2>2. ~(Unharmed' /\ j.at = "posthook" /\ j.op = "setup")
    <3>1. CASE Ends(k, j, "failed", {})
      <4> HIDE DEF k, j
      <4> QED BY <3>1 DEF Ends
    <3>2. CASE (\E f, n : Takes(k, j, NoId, f, n)) /\ spoiled' = spoiled \cup Excuse(c)
      <4>1. j.op = k.op
        <5> HIDE DEF k, j
        <5> QED BY <3>2 DEF Takes, KeepsAsk
      <4> QED BY <3>2, <4>1 DEF Unharmed, Excuse
    <3> QED BY <1>9, <3>1, <3>2
  <2> QED BY <1>7, <1>9, <2>1, <2>2
<1> QED BY <1>4, <1>8, <1>9

\* A channel more is listed.
LEMMA PutOwn ==
  ASSUME NEW k, NEW j, NEW chan, NEW hks, NEW x \in Places, NEW w \in Nat,
         k.items \in Partial(Places, Nat), ItemsOwn(k, chan, hks),
         Puts(k, j, x, With(k.items, x, w)),
         (k.op # "setup" /\ (x = NoId \/ w = NoHook)) \/ Own(x, w, chan, hks)
  PROVE  ItemsOwn(j, chan, hks) /\ NewOwn(j, chan)
<1> DEFINE g == k.items
           f == With(g, x, w)
<1>1. /\ DOMAIN f = DOMAIN g \cup {x} /\ f[x] = w
      /\ \A y \in DOMAIN g : y # x => f[y] = g[y]
  <2> HIDE DEF g
  <2>1. /\ DOMAIN f = DOMAIN g \cup {x}
        /\ \A y \in DOMAIN f : f[y] = IF y = x THEN w ELSE g[y]
    BY DEF With
  <2> HIDE DEF f
  <2> QED BY <2>1
<1>2. j.items = f /\ j.op = k.op /\ j.at = "grow"
  BY DEF Puts, KeepsAsk
<1> HIDE DEF f
<1>3. ASSUME NEW y \in DOMAIN j.items
      PROVE  \/ j.op # "setup" /\ (y = NoId \/ j.items[y] = NoHook)
             \/ Own(y, j.items[y], chan, hks)
  <2>1. CASE y = x
    BY <1>1, <1>2, <2>1
  <2>2. CASE y # x
    BY <1>1, <1>2, <1>3, <2>2 DEF ItemsOwn
  <2> QED BY <2>1, <2>2
<1> QED BY <1>2, <1>3 DEF ItemsOwn, NewOwn

\* A channel is passed over.
LEMMA PassOwn ==
  ASSUME NEW k, NEW j, NEW chan, NEW hks, NEW x, ItemsOwn(k, chan, hks),
         Puts(k, j, x, k.items) \/ Rehooks(k, j, x)
  PROVE  ItemsOwn(j, chan, hks) /\ NewOwn(j, chan)
<1>1. KeepsAsk(k, j) /\ j.items = k.items /\ j.at # "posthook"
  BY DEF Puts, Rehooks, KeepsRest
<1> QED BY <1>1, Listless

\* A webhook comes into existence.
LEMMA HookRows ==
  ASSUME Gates, RowsInv, NEW c \in Calls, HookNew(c) \/ HookOld(c)
  PROVE  RowsInv'
<1> DEFINE k == call[c]
           j == call'[c]
           x == call[c].new
           Lost == Ends(k, j, "failed", {}) \/ Puts(k, j, x, k.items)
<1>1. Typed /\ Ways
  BY DEF Gates
<1>2. Common(c)
  BY <1>1, SyncCommon DEF Sync
<1>3. /\ k.at \in {"posthook", "rehook"} /\ UNCHANGED <<channel, row>>
      /\ Posted(c, x)
  BY <1>1, HookView
<1>4. \/ /\ x \in Chans /\ hooks' = [hooks EXCEPT ![x] = @ + 1]
         /\ \/ Puts(k, j, x, With(k.items, x, hooks[x] + 1))
            \/ Puts(k, j, x, With(k.items, x, NoHook)) /\ spoiled' = spoiled \cup Excuse(c)
            \/ Lost
      \/ /\ hooks' = hooks
         /\ \/ Puts(k, j, x, With(k.items, x, NoHook)) /\ spoiled' = spoiled \cup Excuse(c)
            \/ Lost
  BY <1>3 DEF Posted
<1>5. k.op # "clean"
  BY <1>3, NoCleaning DEF Outside
<1>6. k.items \in Partial(Places, Nat) /\ x \in Places
  BY <1>1, CallJob, JobIs
<1>7. /\ channel \in [ChanIds -> {None, Gone, Root, Meta} \cup CatIds]
      /\ hooks \in [ChanIds -> Nat]
  BY <1>1 DEF Typed
<1>8. Grows(channel, hooks, channel', hooks')
  <2>1. CASE hooks' = hooks
    BY <1>1, <1>3, <2>1, NothingGone
  <2>2. CASE x \in Chans /\ hooks' = [hooks EXCEPT ![x] = @ + 1]
    <3>1. x \in ChanIds /\ hooks[x] \in Nat
      BY <1>7, <2>2 DEF Chans
    <3>2. \A y \in ChanIds : hooks[y] \in Nat /\ hooks'[y] = IF y = x THEN hooks[y] + 1 ELSE hooks[y]
      BY <1>7, <2>2, <3>1
    <3> HIDE DEF x
    <3>3. \A y \in ChanIds : hooks'[y] \in Nat /\ hooks[y] <= hooks'[y]
      BY <3>2
    <3> QED BY <1>3, <3>2, <3>3 DEF Grows
  <2> QED BY <1>4, <2>1, <2>2
<1>9. Unharmed' => ItemsOwn(k, channel', hooks')
  <2>1. Unharmed' => ItemsOwn(k, channel, hooks)
    BY <1>2 DEF RowsInv, Unharmed, Common
  <2> QED BY <2>1, <1>8, OwnGrows
<1>10. CASE Lost
  <2>1. Unharmed' => ItemsOwn(j, channel', hooks') /\ NewOwn(j, channel')
    <3>1. CASE Puts(k, j, x, k.items)
      BY <3>1, <1>9, PassOwn
    <3>2. CASE Ends(k, j, "failed", {})
      <4>1. KeepsAsk(k, j) /\ j.items = Empty /\ j.at # "posthook"
        BY <3>2 DEF Ends
      <4> QED BY <4>1, <1>9, Listless
    <3> QED BY <1>10, <3>1, <3>2
  <2> QED BY <2>1, <1>2, <1>3, <1>5, <1>8, RowsKept
<1>11. CASE /\ x \in Chans /\ hooks' = [hooks EXCEPT ![x] = @ + 1]
            /\ Puts(k, j, x, With(k.items, x, hooks[x] + 1))
  <2>1. x \in ChanIds /\ hooks[x] \in Nat /\ There(x, channel')
    BY <1>3, <1>7, <1>11 DEF Chans, There
  <2>2. hooks[x] + 1 \in Nat /\ hooks'[x] = hooks[x] + 1
    BY <1>7, <1>11, <2>1
  <2>3. Own(x, hooks[x] + 1, channel', hooks')
    BY <2>1, <2>2 DEF Own
  <2>4. Unharmed' => ItemsOwn(j, channel', hooks') /\ NewOwn(j, channel')
    <3> HIDE DEF x, k, j
    <3>1. k.items \in Partial(Places, Nat) /\ x \in Places /\ hooks[x] + 1 \in Nat
      BY <1>6, <2>2
    <3>2. Puts(k, j, x, With(k.items, x, hooks[x] + 1))
      BY <1>11
    <3> QED BY <3>1, <3>2, <1>9, <2>3, PutOwn
  <2> QED BY <2>4, <1>2, <1>3, <1>5, <1>8, RowsKept
<1>12. CASE Puts(k, j, x, With(k.items, x, NoHook)) /\ spoiled' = spoiled \cup Excuse(c)
  <2>1. Unharmed' => k.op # "setup"
    BY <1>12 DEF Unharmed, Excuse
  <2>2. NoHook \in Nat
    BY DEF NoHook
  <2>3. Unharmed' => ItemsOwn(j, channel', hooks') /\ NewOwn(j, channel')
    <3> HIDE DEF x, k, j
    <3> QED BY <1>6, <1>9, <1>12, <2>1, <2>2, PutOwn
  <2> QED BY <2>3, <1>2, <1>3, <1>5, <1>8, RowsKept
<1> QED BY <1>4, <1>10, <1>11, <1>12

\* A listed channel's webhooks.
LEMMA EnsureRows ==
  ASSUME Gates, RowsInv, NEW c \in Calls, Ensure(c)
  PROVE  RowsInv'
<1> DEFINE k == call[c]
           j == call'[c]
<1>1. Typed /\ Ways
  BY DEF Gates
<1>2. Common(c)
  BY <1>1, SyncCommon DEF Sync
<1>3. k.at = "grow" /\ UNCHANGED <<channel, hooks, row>>
  BY <1>1, EnsureView DEF Grown, At
<1>4. PICK x \in k.todo :
              \/ /\ x \in Chans
                 /\ \E w \in 1 .. hooks[x] : Puts(k, j, x, With(k.items, x, w))
              \/ Rehooks(k, j, x) \/ Puts(k, j, x, k.items)
  BY <1>1, EnsureView
<1>5. k.op # "clean"
  BY <1>3, NoCleaning DEF Outside
<1>6. k.items \in Partial(Places, Nat) /\ x \in Places
  <2>1. k.items \in Partial(Places, Nat) /\ k.todo \subseteq ChanIds
    BY <1>1, CallJob, JobIs
  <2> QED BY <2>1, <1>4 DEF Places
<1>7. Grows(channel, hooks, channel', hooks')
  BY <1>1, <1>3, NothingGone
<1>8. Unharmed' => ItemsOwn(k, channel, hooks)
  BY <1>2 DEF RowsInv, Unharmed, Common
<1>9. Unharmed' => ItemsOwn(j, channel, hooks) /\ NewOwn(j, channel)
  <2>1. CASE Rehooks(k, j, x) \/ Puts(k, j, x, k.items)
    BY <2>1, <1>8, PassOwn
  <2>2. ASSUME x \in Chans, NEW w \in 1 .. hooks[x], Puts(k, j, x, With(k.items, x, w))
        PROVE  Unharmed' => ItemsOwn(j, channel, hooks) /\ NewOwn(j, channel)
    <3>1. hooks[x] \in Nat /\ x \in ChanIds
      BY <1>1, <2>2 DEF Typed, Chans
    <3>2. w \in Nat
      BY <3>1, <2>2
    <3>3. Own(x, w, channel, hooks)
      BY <2>2, <3>1 DEF Own, There, Chans
    <3> HIDE DEF k, j
    <3> QED BY <1>6, <1>8, <2>2, <3>2, <3>3, PutOwn
  <2> QED BY <1>4, <2>1, <2>2
<1>10. Unharmed' => ItemsOwn(j, channel', hooks') /\ NewOwn(j, channel')
  BY <1>3, <1>9
<1> QED BY <1>2, <1>3, <1>5, <1>7, <1>10, RowsKept

\* A channel is written to the catalog.
LEMMA RecordRows ==
  ASSUME Gates, RowsInv, NEW c \in Calls, Record(c)
  PROVE  RowsInv'
<1> DEFINE k == call[c]
           j == call'[c]
<1>1. Typed /\ Ways
  BY DEF Gates
<1>2. Common(c)
  BY <1>1, WriteCommon DEF Write
<1>3. k.at = "grow" /\ UNCHANGED <<channel, hooks>>
  BY <1>1, RecordView DEF Synced, Grown, At
<1>4. PICK x \in Usable(c) :
              /\ row' = [row EXCEPT ![x] = [hook |-> k.items[x], guild |-> KnowsGuild(c),
                                            meta |-> FALSE]]
              /\ Writes(k, j, [z \in DOMAIN k.items \ {x} |-> k.items[z]])
  BY <1>1, RecordView
<1>5. k.op # "clean"
  BY <1>3, NoCleaning DEF Outside
<1>6. Grows(channel, hooks, channel', hooks')
  BY <1>1, <1>3, NothingGone
<1>7. Unharmed' => ItemsOwn(k, channel, hooks)
  BY <1>2 DEF RowsInv, Unharmed, Common
<1>8. Unharmed' => ItemsOwn(j, channel', hooks') /\ NewOwn(j, channel')
  <2> HIDE DEF k, j
  <2>1. /\ j.items = [z \in DOMAIN k.items \ {x} |-> k.items[z]] /\ j.op = k.op /\ j.at = k.at
    BY <1>4 DEF Writes, KeepsAsk
  <2>2. /\ DOMAIN j.items = DOMAIN k.items \ {x}
        /\ \A z \in DOMAIN j.items : j.items[z] = k.items[z]
    BY <2>1
  <2>3. Unharmed' => ItemsOwn(j, channel, hooks) /\ NewOwn(j, channel)
    BY <1>3, <1>7, <2>1, <2>2 DEF ItemsOwn, NewOwn
  <2> QED BY <2>3, <1>3
<1>9. ASSUME Unharmed', NEW y \in Places
      PROVE  row'[y] = row[y] \/ RowOwn(row'[y], y, channel', hooks')
  <2>1. row \in [Places -> Rows \cup {None}]
    BY <1>1 DEF Typed
  <2>2. CASE y # x
    BY <2>1, <2>2, <1>4
  <2>3. CASE y = x
    <3> DEFINE r == [hook |-> k.items[x], guild |-> KnowsGuild(c), meta |-> FALSE]
    <3>1. row'[y] = r /\ r.hook = k.items[x]
      BY <2>1, <2>3, <1>4
    <3>2. x \in DOMAIN k.items
      BY DEF Usable
    <3>3. ~(k.op # "setup" /\ (x = NoId \/ k.items[x] = NoHook))
      BY DEF Usable
    <3>4. Own(x, k.items[x], channel, hooks)
      BY <1>7, <1>9, <3>2, <3>3 DEF ItemsOwn
    <3> HIDE DEF r, k
    <3>5. RowOwn(r, x, channel', hooks')
      BY <3>1, <3>4, <1>3 DEF RowOwn
    <3> QED BY <3>1, <3>5, <2>3
  <2> QED BY <2>2, <2>3
<1> QED BY <1>2, <1>5, <1>6, <1>8, <1>9, RowsKept

\* The metadata channel is written to the catalog.
LEMMA RecordMetaRows ==
  ASSUME Gates, RowsInv, NEW c \in Calls, RecordMeta(c)
  PROVE  RowsInv'
<1> DEFINE k == call[c]
           j == call'[c]
<1>1. Typed /\ Ways
  BY DEF Gates
<1>2. Common(c)
  BY <1>1, WriteCommon DEF Write
<1>3. /\ k.at = "grow" /\ UNCHANGED <<channel, hooks>>
      /\ Ends(k, j, "done", {})
      /\ \/ row' = row
         \/ \E b \in BOOLEAN : row' = [row EXCEPT ![k.meta] =
                 [hook |-> NoHook, guild |-> b, meta |-> TRUE]]
  BY <1>1, RecordMetaView DEF Recorded, Synced, Grown, At
<1>4. k.op # "clean"
  BY <1>3, NoCleaning DEF Outside
<1>5. Grows(channel, hooks, channel', hooks')
  BY <1>1, <1>3, NothingGone
<1>6. Unharmed' => ItemsOwn(k, channel, hooks)
  BY <1>2 DEF RowsInv, Unharmed, Common
<1>7. Unharmed' => ItemsOwn(j, channel', hooks') /\ NewOwn(j, channel')
  <2>1. KeepsAsk(k, j) /\ j.items = Empty /\ j.at # "posthook"
    BY <1>3 DEF Ends
  <2>2. Unharmed' => ItemsOwn(j, channel, hooks) /\ NewOwn(j, channel)
    BY <1>6, <2>1, Listless
  <2> QED BY <2>2, <1>3
<1>8. ASSUME NEW y \in Places
      PROVE  row'[y] = row[y] \/ RowOwn(row'[y], y, channel', hooks')
  <2>1. row \in [Places -> Rows \cup {None}]
    BY <1>1 DEF Typed
  <2>2. CASE row' = row
    BY <2>2
  <2>3. ASSUME NEW b \in BOOLEAN,
               row' = [row EXCEPT ![k.meta] = [hook |-> NoHook, guild |-> b, meta |-> TRUE]]
        PROVE  row'[y] = row[y] \/ RowOwn(row'[y], y, channel', hooks')
    <3> DEFINE r == [hook |-> NoHook, guild |-> b, meta |-> TRUE]
    <3>1. row'[y] = row[y] \/ row'[y] = r
      BY <2>1, <2>3
    <3>2. r.meta
      OBVIOUS
    <3> HIDE DEF r
    <3> QED BY <3>1, <3>2 DEF RowOwn
  <2> QED BY <1>3, <2>2, <2>3
<1> QED BY <1>2, <1>4, <1>5, <1>7, <1>8, RowsKept

\* A call that lists nothing and has made nothing.
LEMMA EmptyOwn ==
  ASSUME NEW k, NEW chan, NEW hks, k.items = Empty, k.at # "posthook"
  PROVE  ItemsOwn(k, chan, hks) /\ NewOwn(k, chan)
BY OtherTables DEF ItemsOwn, NewOwn

\* A cleaning deletes what nobody relies on.
LEMMA CleanRows ==
  ASSUME Gates, RowsInv, NEW c \in Calls, Clean(c)
  PROVE  RowsInv'
<1> DEFINE k == call[c]
           j == call'[c]
<1>1. Typed /\ Ways
  BY DEF Gates
<1>2. Common(c)
  BY <1>1, WriteCommon
<1>3. /\ \A d \in Calls \ {c} : call'[d] = call[d]
      /\ KeepsAsk(k, j) /\ (Unharmed' => Unharmed)
  BY <1>2 DEF Common, Alone, Unharmed
<1>4. \A d \in Calls : JobWays(call[d])
  BY <1>1 DEF Ways
<1>5. CASE BeginClean(c)
  <2>1. UNCHANGED <<channel, hooks, row>> /\ k.at = "idle" /\ k.op = "clean" /\ Cleans(k, j)
    BY <1>1, <1>5, BeginCleanView
  <2>2. ~Free'
    BY <1>3, <2>1 DEF Free, Inside, Cleans, KeepsAsk, Outside
  <2>3. ItemsOwn(j, channel, hooks) /\ NewOwn(j, channel)
    <3>1. k.items = Empty
      BY <1>4, <2>1 DEF JobWays
    <3>2. j.items = Empty /\ j.at # "posthook"
      BY <2>1, <3>1 DEF Cleans
    <3> QED BY <3>2, EmptyOwn
  <2>4. Unharmed' => \A d \in Calls : ItemsOwn(call'[d], channel, hooks) /\ NewOwn(call'[d], channel)
    <3> SUFFICES ASSUME Unharmed', NEW d \in Calls
                 PROVE  ItemsOwn(call'[d], channel, hooks) /\ NewOwn(call'[d], channel)
      OBVIOUS
    <3>1. ItemsOwn(call[d], channel, hooks) /\ NewOwn(call[d], channel)
      BY <1>3 DEF RowsInv
    <3>2. d = c \/ call'[d] = call[d]
      BY <1>3
    <3> QED BY <2>3, <3>1, <3>2
  <2> QED BY <2>1, <2>2, <2>4 DEF RowsInv
<1>6. CASE Wipe(c)
  <2>1. UNCHANGED <<hooks, row>> /\ k.at = "wipe" /\ Cleans(k, j)
    BY <1>1, <1>6, WipeView
  <2>2. k.op = "clean" /\ Inside(c) /\ k.items = Empty
    BY <1>4, <2>1 DEF JobWays, Inside, Outside
  <2>3. ~Free'
    BY <1>3, <2>1, <2>2 DEF Free, Inside, Cleans, KeepsAsk, Outside
  <2>4. Unharmed' => \A d \in Calls : ItemsOwn(call'[d], channel', hooks') /\ NewOwn(call'[d], channel')
    <3> SUFFICES ASSUME Unharmed', NEW d \in Calls
                 PROVE  ItemsOwn(call'[d], channel', hooks') /\ NewOwn(call'[d], channel')
      OBVIOUS
    <3>1. "taken" \notin spoiled
      BY <1>3 DEF Unharmed
    <3>2. CASE d = c
      <4>1. j.items = Empty /\ j.at # "posthook"
        BY <2>1, <2>2 DEF Cleans
      <4> QED BY <3>2, <4>1, EmptyOwn
    <3>3. CASE d # c
      <4>1. call'[d] = call[d]
        BY <1>3, <3>3
      <4>2. ~Inside(d)
        BY <2>2, <3>1, <3>3 DEF Gates, Pure
      <4>3. call[d].items = Empty /\ call[d].at # "posthook"
        BY <1>4, <4>2 DEF JobWays, Inside, Outside
      <4> QED BY <4>1, <4>3, EmptyOwn
    <3> QED BY <3>2, <3>3
  <2> QED BY <2>3, <2>4 DEF RowsInv
<1>7. CASE Forget(c)
  <2>1. /\ UNCHANGED <<channel, hooks>> /\ Ends(k, j, "done", {})
        /\ \A x \in Places : row'[x] = None
    BY <1>1, <1>7, ForgetView
  <2>2. ItemsOwn(j, channel, hooks) /\ NewOwn(j, channel)
    <3>1. j.items = Empty /\ j.at # "posthook"
      BY <2>1 DEF Ends
    <3> QED BY <3>1, EmptyOwn
  <2>3. Unharmed' => \A d \in Calls : ItemsOwn(call'[d], channel, hooks) /\ NewOwn(call'[d], channel)
    <3> SUFFICES ASSUME Unharmed', NEW d \in Calls
                 PROVE  ItemsOwn(call'[d], channel, hooks) /\ NewOwn(call'[d], channel)
      OBVIOUS
    <3>1. ItemsOwn(call[d], channel, hooks) /\ NewOwn(call[d], channel)
      BY <1>3 DEF RowsInv
    <3>2. d = c \/ call'[d] = call[d]
      BY <1>3
    <3> QED BY <2>2, <3>1, <3>2
  <2>4. \A x \in Places : RowOwn(row'[x], x, channel', hooks')
    BY <2>1 DEF RowOwn
  <2> QED BY <2>1, <2>3, <2>4 DEF RowsInv
<1> QED BY <1>5, <1>6, <1>7 DEF Clean

\* The two invariants together are inductive.
LEMMA RowsInvariant == Spec => [](Gates /\ RowsInv)
<1>1. Init => RowsInv
  <2> SUFFICES ASSUME Init PROVE RowsInv
    OBVIOUS
  <2>1. \A c \in Calls : call[c].items = Empty /\ call[c].at # "posthook"
    BY InitTyped DEF Ends
  <2>2. \A x \in Places : row[x] = None
    BY DEF Init, Places
  <2> QED BY <2>1, <2>2, EmptyOwn DEF RowsInv, RowOwn
<1>2. Gates /\ RowsInv /\ [Next]_vars => RowsInv'
  <2> SUFFICES ASSUME Gates, RowsInv, [Next]_vars PROVE RowsInv'
    OBVIOUS
  <2>1. ASSUME NEW c \in Calls, Setup(c) PROVE RowsInv'
    BY <2>1, QuietSteps, PostMetaRows DEF Setup
  <2>2. ASSUME NEW c \in Calls, Sync(c) PROVE RowsInv'
    BY <2>2, QuietSteps, PostChannelRows, HookRows, EnsureRows DEF Sync
  <2>3. ASSUME NEW c \in Calls, Write(c) PROVE RowsInv'
    BY <2>3, QuietSteps, RecordRows, RecordMetaRows DEF Write
  <2>4. CASE UNCHANGED vars
    BY <2>4 DEF vars, RowsInv, Unharmed, Free, Inside
  <2> QED BY <2>1, <2>2, <2>3, <2>4, CleanRows DEF Next
<1> QED BY <1>1, <1>2, GatesInvariant, PTL DEF Spec

\* RowsUsable: a row of the catalog names a channel that is there and a webhook of its
\* own, so that an upload that takes the row can post there.
THEOREM RowsPointHome == Spec => []RowsUsable
<1>1. Gates /\ RowsInv => RowsUsable
  <2> SUFFICES ASSUME Gates, RowsInv, Unharmed, Free, NEW x \in StorageRows
               PROVE  x \in Chans /\ row[x].hook \in 1 .. hooks[x]
    BY DEF RowsUsable, Unharmed, Free, Inside
  <2>1. x \in Places /\ row[x] # None /\ row[x].guild /\ ~row[x].meta
    BY DEF StorageRows, GuildRows, Gates, Typed
  <2>2. Own(x, row[x].hook, channel, hooks)
    BY <2>1 DEF RowsInv, RowOwn
  <2> QED BY <2>2 DEF Own, There, Chans
<1> QED BY <1>1, RowsInvariant, PTL

-----------------------------------------------------------------------------
(***************************************************************************)
(* MadeOnce.                                                               *)
(***************************************************************************)
\* Category g exists; the channels in it, and those of a family.
Open(g, cat) == cat[g] \notin {None, Gone}
InIt(g, chan) == {x \in ChanIds : chan[x] = g}
InFamily(f, chan, cat) ==
  {x \in ChanIds : chan[x] \in CatIds /\ Open(chan[x], cat) /\ cat[chan[x]][1] = f}
Most == Max(Wants \cup {Target})

\* No list of webhooks was lost on its way.
Heard(sp) == "unheard" \notin sp

\* Nothing is there twice.
OneHook(chan, hks, sp) ==
  \A x \in ChanIds : /\ There(x, chan) /\ Heard(sp) => hks[x] <= 1
                     /\ chan[x] = None => hks[x] = 0
OneName(cat) == \A g, i \in CatIds : Open(g, cat) /\ Open(i, cat) /\ cat[g] = cat[i] => g = i
Housed(chan, cat) == \A x \in ChanIds : chan[x] \in CatIds => Open(chan[x], cat)
OneMeta(chan) == \A x, y \in ChanIds : chan[x] = Meta /\ chan[y] = Meta => x = y
Small(chan, cat) == /\ \A g \in CatIds : Cardinality(InIt(g, chan)) <= Cap
                    /\ \A f \in Families : Cardinality(InFamily(f, chan, cat)) <= Most
World(chan, cat, hks, sp) ==
  OneHook(chan, hks, sp) /\ OneName(cat) /\ Housed(chan, cat) /\ OneMeta(chan) /\ Small(chan, cat)

\* What a call that syncs the pool knows of the family f: all of it.
Syncing == {"grow", "postcat", "posthook", "rehook"}
KnowsNames(k, f, cat) ==
  /\ DOMAIN k.cats = DOMAIN k.order
  /\ \A g \in CatIds : g \in DOMAIN k.order <=> Open(g, cat) /\ cat[g][1] = f
  /\ \A g \in DOMAIN k.order : k.order[g] = cat[g][2]
KnowsSizes(k, f, chan, cat) ==
  /\ \A g \in DOMAIN k.cats : Cardinality(InIt(g, chan)) <= k.cats[g] /\ k.cats[g] <= Cap
  /\ Cardinality(InFamily(f, chan, cat)) <= k.count
Knows(k, f, chan, cat, hks, sp) ==
  /\ k.at = "postmeta" => \A x \in ChanIds : chan[x] # Meta
  /\ k.at \in Syncing => KnowsNames(k, f, cat) /\ KnowsSizes(k, f, chan, cat)
  /\ k.at \in {"posthook", "rehook"} /\ There(k.new, chan) /\ Heard(sp) => hks[k.new] = 0

Lone == "overlap" \notin spoiled

OnceInv ==
  Lone => /\ World(channel, category, hooks, spoiled)
          /\ \A c \in Calls : Knows(call[c], Family(c), channel, category, hooks, spoiled)

-----------------------------------------------------------------------------
\* Channels are finitely many.
LEMMA ChannelSets ==
  ASSUME NEW S \in SUBSET ChanIds
  PROVE  /\ IsFiniteSet(S) /\ Cardinality(S) \in Nat
         /\ \A T \in SUBSET S : Cardinality(T) <= Cardinality(S) /\ Cardinality(T) \in Nat
         /\ \A x \in ChanIds : Cardinality(S \cup {x}) <= Cardinality(S) + 1
<1>1. IsFiniteSet(S)
  BY PoolAssumption, FS_Subset
<1>2. Cardinality(S) \in Nat
  BY <1>1, FS_CardinalityType
<1>3. ASSUME NEW T \in SUBSET S PROVE Cardinality(T) <= Cardinality(S) /\ Cardinality(T) \in Nat
  <2>1. IsFiniteSet(T) /\ Cardinality(T) <= Cardinality(S)
    BY <1>1, FS_Subset
  <2>2. Cardinality(T) \in Nat
    BY <2>1, FS_CardinalityType
  <2> QED BY <2>1, <2>2
<1>4. ASSUME NEW x \in ChanIds PROVE Cardinality(S \cup {x}) <= Cardinality(S) + 1
  <2>1. Cardinality(S \cup {x}) = IF x \in S THEN Cardinality(S) ELSE Cardinality(S) + 1
    BY <1>1, FS_AddElement
  <2> QED BY <2>1, <1>2
<1> QED BY <1>1, <1>2, <1>3, <1>4

\* The greatest number of channels somebody asks for.
LEMMA MostIs ==
  /\ Most \in Nat
  /\ \A n \in Wants \cup {Target} : n \in Nat /\ n <= Most
<1>1. /\ Wants \cup {Target} \in SUBSET Nat /\ IsFiniteSet(Wants \cup {Target})
      /\ Wants \cup {Target} # {}
  BY PoolAssumption, FS_AddElement
<1> QED BY <1>1, Extremes DEF Most

\* What a call wants is a number, and no more than the greatest.
LEMMA WantIs ==
  ASSUME Typed, NEW c \in Calls
  PROVE  Want(c) \in Nat /\ Want(c) <= Most
<1>1. call[c].want \in Wants
  BY CallJob, JobIs
<1> QED BY <1>1, MostIs DEF Want

\* A channel comes into existence.
LEMMA NewChannel ==
  ASSUME NEW chan, NEW chan2, NEW cat, NEW x \in ChanIds, NEW g \in CatIds, Open(g, cat),
         chan[x] = None, chan2[x] = g, \A y \in ChanIds : y # x => chan2[y] = chan[y]
  PROVE  /\ \A i \in CatIds : InIt(i, chan2) = IF i = g THEN InIt(i, chan) \cup {x} ELSE InIt(i, chan)
         /\ \A e \in Families :
              InFamily(e, chan2, cat) = IF e = cat[g][1] THEN InFamily(e, chan, cat) \cup {x}
                                        ELSE InFamily(e, chan, cat)
<1>1. None \notin CatIds
  BY MarksAssumption, PoolAssumption
<1>3. ASSUME NEW i \in CatIds
      PROVE  InIt(i, chan2) = IF i = g THEN InIt(i, chan) \cup {x} ELSE InIt(i, chan)
  BY <1>1 DEF InIt
<1>4. ASSUME NEW e \in Families
      PROVE  InFamily(e, chan2, cat) = IF e = cat[g][1] THEN InFamily(e, chan, cat) \cup {x}
                                       ELSE InFamily(e, chan, cat)
  BY <1>1 DEF InFamily
<1> QED BY <1>3, <1>4

\* The base category stays what it is.
LEMMA PinnedStays ==
  ASSUME Next
  PROVE  pinned' = pinned
<1>1. ASSUME NEW c \in Calls, Setup(c) PROVE pinned' = pinned
  BY <1>1 DEF Setup, BeginSetup, BeginBackup, BeginBoot, Lock, ListMeta, PostMeta, Quiet
<1>2. ASSUME NEW c \in Calls, Sync(c) PROVE pinned' = pinned
  BY <1>2 DEF Sync, BeginUpload, Quiet, List, FindCategory, PostCategory, PostChannel, HookNew,
              Ensure, HookOld, PostHook
<1>3. ASSUME NEW c \in Calls, Write(c) PROVE pinned' = pinned
  BY <1>3 DEF Write, Record, TakePool, RecordMeta
<1>4. ASSUME NEW c \in Calls, Clean(c) PROVE pinned' = pinned
  BY <1>4 DEF Clean, BeginClean, Wipe, Forget
<1> QED BY <1>1, <1>2, <1>3, <1>4 DEF Next

\* It is enough to look at the call that steps: no other call is inside when it
\* changes something.
LEMMA OnceKept ==
  ASSUME Gates, OnceInv, NEW c \in Calls, Common(c), pinned' = pinned,
         Inside(c) \/ UNCHANGED <<category, channel, hooks>>,
         Lone' => /\ World(channel', category', hooks', spoiled')
                  /\ Knows(call'[c], Family(c), channel', category', hooks', spoiled')
  PROVE  OnceInv'
<1> SUFFICES ASSUME Lone'
             PROVE  /\ World(channel', category', hooks', spoiled')
                    /\ \A d \in Calls : Knows(call'[d], Family(d)', channel', category', hooks', spoiled')
  BY DEF OnceInv
<1>1. /\ Lone /\ \A d \in Calls \ {c} : call'[d] = call[d]
      /\ call'[c].op = call[c].op
  BY DEF Lone, Common, Alone, KeepsAsk
<1>2. \A d \in Calls : Family(d)' = Family(d)
  BY <1>1 DEF Family, Base
<1>3. ASSUME NEW d \in Calls PROVE Knows(call'[d], Family(d), channel', category', hooks', spoiled')
  <2>1. CASE d = c
    BY <2>1
  <2>2. CASE d # c /\ Inside(c)
    <3>1. call[d].at \in Outside
      BY <1>1, <2>2 DEF Gates, Solo, Lone, Inside
    <3>2. call'[d].at \notin Syncing \cup {"postmeta"}
      BY <1>1, <2>2, <3>1 DEF Outside, Syncing
    <3> QED BY <3>2 DEF Knows, Syncing
  <2>3. CASE d # c /\ UNCHANGED <<category, channel, hooks>>
    <3>1. Knows(call[d], Family(d), channel, category, hooks, spoiled)
      BY <1>1 DEF OnceInv
    <3> QED BY <1>1, <2>3, <3>1 DEF Knows, Heard, Common
  <2> QED BY <2>1, <2>2, <2>3
<1> QED BY <1>2, <1>3

\* A call that is not syncing claims nothing.
LEMMA Ignorant ==
  ASSUME NEW j, NEW f, NEW chan, NEW cat, NEW hks, NEW sp, j.at \notin Syncing \cup {"postmeta"}
  PROVE  Knows(j, f, chan, cat, hks, sp)
BY DEF Knows, Syncing

\* What a call knows of the pool it keeps.
LEMMA KeepsKnows ==
  ASSUME NEW k, NEW j, NEW f, NEW chan, NEW cat, NEW hks, NEW sp, KeepsPool(k, j),
         k.at \in Syncing, j.at \in Syncing,
         KnowsNames(k, f, cat), KnowsSizes(k, f, chan, cat),
         j.at \in {"posthook", "rehook"} /\ There(j.new, chan) /\ Heard(sp) => hks[j.new] = 0
  PROVE  Knows(j, f, chan, cat, hks, sp)
BY DEF Knows, KeepsPool, KnowsNames, KnowsSizes, Syncing

\* What holds inside as long as calls do not overlap.
LEMMA InsideKnows ==
  ASSUME Gates, OnceInv, NEW c \in Calls, Common(c), Lone'
  PROVE  /\ World(channel, category, hooks, spoiled')
         /\ Knows(call[c], Family(c), channel, category, hooks, spoiled')
<1>1. /\ World(channel, category, hooks, spoiled)
      /\ Knows(call[c], Family(c), channel, category, hooks, spoiled)
      /\ Heard(spoiled') => Heard(spoiled)
  BY DEF OnceInv, Lone, Common, Heard
<1> QED BY <1>1 DEF World, OneHook, Knows

\* Steps that change nothing at Discord and end or begin what a call knows.
LEMMA SetupOnce ==
  ASSUME Gates, OnceInv, pinned' = pinned, NEW c \in Calls,
         \/ BeginUpload(c) \/ BeginSetup(c) \/ BeginBackup(c) \/ BeginBoot(c) \/ Lock(c)
         \/ ListMeta(c) \/ TakePool(c) \/ RecordMeta(c) \/ Forget(c) \/ BeginClean(c)
  PROVE  OnceInv'
<1> DEFINE k == call[c]
           j == call'[c]
<1>1. Typed /\ Ways
  BY DEF Gates
<1>2. Common(c)
  BY <1>1, BeginCommon, SetupCommon, WriteCommon DEF Setup, Write, Clean
<1>3. /\ UNCHANGED <<category, channel, hooks>>
      /\ \/ \E st \in {"lock", "list", "meta"} : Goes(k, j, st)
         \/ \E x \in Metas : Learns(k, j, x)
         \/ \E st \in {"done", "failed"} : \E S : Ends(k, j, st, S)
         \/ Cleans(k, j)
         \/ Metas = {} /\ Goes(k, j, "postmeta")
  <2>1. CASE BeginUpload(c) \/ BeginSetup(c) \/ BeginBackup(c) \/ BeginBoot(c) \/ Lock(c)
    BY <1>1, <2>1, EnterView
  <2>2. CASE ListMeta(c)
    BY <1>1, <2>2, ListMetaView
  <2>3. CASE TakePool(c)
    BY <1>1, <2>3, TakePoolView
  <2>4. CASE RecordMeta(c)
    BY <1>1, <2>4, RecordMetaView
  <2>5. CASE Forget(c)
    BY <1>1, <2>5, ForgetView
  <2>6. CASE BeginClean(c)
    BY <1>1, <2>6, BeginCleanView
  <2> QED BY <2>1, <2>2, <2>3, <2>4, <2>5, <2>6
<1>4. Lone' => World(channel, category, hooks, spoiled')
  BY <1>2, InsideKnows
<1>5. CASE Metas = {} /\ Goes(k, j, "postmeta")
  <2>1. j.at = "postmeta"
    BY <1>5 DEF Goes
  <2>2. \A x \in ChanIds : channel[x] # Meta
    BY <1>5 DEF Metas
  <2>3. Knows(j, Family(c), channel, category, hooks, spoiled')
    BY <2>1, <2>2 DEF Knows, Syncing
  <2> QED BY <1>2, <1>3, <1>4, <2>3, OnceKept
<1>6. CASE \/ \E st \in {"lock", "list", "meta"} : Goes(k, j, st)
           \/ \E x \in Metas : Learns(k, j, x)
           \/ \E st \in {"done", "failed"} : \E S : Ends(k, j, st, S)
           \/ Cleans(k, j)
  <2>1. j.at \notin Syncing \cup {"postmeta"}
    <3> HIDE DEF k, j
    <3> QED BY <1>6 DEF Goes, Learns, Ends, Cleans, Syncing
  <2>2. Knows(j, Family(c), channel, category, hooks, spoiled')
    BY <2>1, Ignorant
  <2> QED BY <1>2, <1>3, <1>4, <2>2, OnceKept
<1> QED BY <1>3, <1>5, <1>6

\* Steps inside that leave Discord and what is known of the pool alone.
LEMMA LocalOnce ==
  ASSUME Gates, OnceInv, pinned' = pinned, NEW c \in Calls,
         FindCategory(c) \/ Ensure(c) \/ Record(c)
  PROVE  OnceInv'
<1> DEFINE k == call[c]
           j == call'[c]
<1>1. Typed /\ Ways
  BY DEF Gates
<1>2. Common(c)
  BY <1>1, SyncCommon, WriteCommon DEF Sync, Write
<1>3. /\ k.at = "grow" /\ UNCHANGED <<category, channel, hooks>>
      /\ \/ Goes(k, j, "postcat")
         \/ \E g \in Named(c) : TRUE
         \/ \E x : (x \in Chans /\ Heard(spoiled') => hooks[x] = 0) /\ Rehooks(k, j, x)
         \/ \E x, f : Puts(k, j, x, f)
         \/ \E f : Writes(k, j, f)
  <2>1. CASE FindCategory(c)
    BY <1>1, <2>1, FindCategoryView
  <2>2. CASE Ensure(c)
    BY <1>1, <2>2, EnsureView DEF Grown, At, Heard
  <2>3. CASE Record(c)
    BY <1>1, <2>3, RecordView DEF Synced, Grown, At
  <2> QED BY <2>1, <2>2, <2>3
<1>4. k.at \in Syncing
  BY <1>3 DEF Syncing
<1>5. SUFFICES ASSUME Lone' PROVE Knows(j, Family(c), channel, category, hooks, spoiled')
  <2>1. Lone' => World(channel, category, hooks, spoiled')
    BY <1>2, InsideKnows
  <2> QED BY <1>2, <1>3, <1>5, <2>1, OnceKept
<1>6. KnowsNames(k, Family(c), category) /\ KnowsSizes(k, Family(c), channel, category)
  <2>1. Knows(k, Family(c), channel, category, hooks, spoiled')
    BY <1>2, <1>5, InsideKnows
  <2> QED BY <1>4, <2>1 DEF Knows
<1>7. ASSUME NEW g \in Named(c) PROVE FALSE
  <2>1. /\ g \in CatIds /\ category[g] \notin {None, Gone}
        /\ category[g] = <<Family(c), NextNumber(c)>>
    BY DEF Named, Cats
  <2>2. category[g][1] = Family(c) /\ category[g][2] = NextNumber(c)
    BY <2>1
  <2>3. g \in DOMAIN k.order /\ k.order[g] = NextNumber(c)
    BY <1>6, <2>1, <2>2 DEF KnowsNames, Open
  <2>4. NextNumber(c) \in Numbers(c)
    BY <2>3 DEF Numbers
  <2> QED BY <1>1, <2>4, NextNumberIs
<1>8. CASE Goes(k, j, "postcat")
  <2>1. KeepsPool(k, j) /\ j.at = "postcat"
    BY <1>8 DEF Goes
  <2> QED BY <1>4, <1>6, <2>1, KeepsKnows DEF Syncing
<1>9. ASSUME NEW x, x \in Chans /\ Heard(spoiled') => hooks[x] = 0, Rehooks(k, j, x)
      PROVE  Knows(j, Family(c), channel, category, hooks, spoiled')
  <2>1. KeepsPool(k, j) /\ j.at = "rehook" /\ j.new = x
    BY <1>9 DEF Rehooks
  <2>2. There(x, channel) /\ Heard(spoiled') => hooks[x] = 0
    BY <1>9 DEF There, Chans
  <2> QED BY <1>4, <1>6, <2>1, <2>2, KeepsKnows DEF Syncing
<1>10. CASE (\E x, f : Puts(k, j, x, f)) \/ (\E f : Writes(k, j, f))
  <2>1. KeepsPool(k, j) /\ j.at = "grow"
    BY <1>3, <1>10 DEF Puts, Writes
  <2> QED BY <1>4, <1>6, <2>1, KeepsKnows DEF Syncing
<1> QED BY <1>3, <1>7, <1>8, <1>9, <1>10

\* The listing of the pool.
LEMMA ListOnce ==
  ASSUME Gates, OnceInv, pinned' = pinned, NEW c \in Calls, List(c)
  PROVE  OnceInv'
<1> DEFINE k == call[c]
           j == call'[c]
           f == [g \in Managed(c) |-> Listed(g)]
           o == [g \in Managed(c) |-> category[g][2]]
           S == {x \in Chans : channel[x] \in Managed(c)}
<1>1. Typed /\ Ways
  BY DEF Gates
<1>2. Common(c)
  BY <1>1, SyncCommon DEF Sync
<1>3. /\ UNCHANGED <<category, channel, hooks>>
      /\ \/ Ends(k, j, "failed", {})
         \/ Lists(k, j, f, o, S, Cardinality(S))
  BY <1>1, ListView
<1>4. Lone' => World(channel, category, hooks, spoiled')
  BY <1>2, InsideKnows
<1>5. CASE Ends(k, j, "failed", {})
  <2>1. j.at \notin Syncing \cup {"postmeta"}
    BY <1>5 DEF Ends, Syncing
  <2>2. Knows(j, Family(c), channel, category, hooks, spoiled')
    BY <2>1, Ignorant
  <2> QED BY <1>2, <1>3, <1>4, <2>2, OnceKept
<1>6. CASE Lists(k, j, f, o, S, Cardinality(S))
  <2>1. /\ j.cats = f /\ j.order = o /\ j.count = Cardinality(S) /\ j.at = "grow"
    BY <1>6 DEF Lists
  <2>2. Managed(c) = {g \in CatIds : Open(g, category) /\ category[g][1] = Family(c)}
    BY DEF Managed, Cats, Open
  <2>3. /\ DOMAIN f = Managed(c) /\ DOMAIN o = Managed(c)
        /\ \A g \in Managed(c) : f[g] = Listed(g) /\ o[g] = category[g][2]
    OBVIOUS
  <2>4. {None, Gone} \cap CatIds = {}
    BY MarksAssumption, PoolAssumption
  <2>5. S = InFamily(Family(c), channel, category)
    BY <2>2, <2>4 DEF InFamily, Chans
  <2>6. \A g \in CatIds : Listed(g) = Cardinality(InIt(g, channel))
    <3> TAKE g \in CatIds
    <3>1. {x \in Chans : channel[x] = g} = InIt(g, channel)
      BY <2>4 DEF Chans, InIt
    <3> QED BY <3>1 DEF Listed
  <2> HIDE DEF f, o, S
  <2>7. KnowsNames(j, Family(c), category)
    BY <2>1, <2>2, <2>3 DEF KnowsNames
  <2>8. Lone' => KnowsSizes(j, Family(c), channel, category)
    <3> SUFFICES ASSUME Lone' PROVE KnowsSizes(j, Family(c), channel, category)
      OBVIOUS
    <3>1. ASSUME NEW g \in DOMAIN j.cats
          PROVE  Cardinality(InIt(g, channel)) <= j.cats[g] /\ j.cats[g] <= Cap
      <4>1. g \in CatIds /\ j.cats[g] = Cardinality(InIt(g, channel))
        BY <2>1, <2>2, <2>3, <2>6, <3>1
      <4>2. Cardinality(InIt(g, channel)) <= Cap
        BY <1>4, <4>1 DEF World, Small
      <4>3. Cardinality(InIt(g, channel)) \in Nat
        BY ChannelSets DEF InIt
      <4> QED BY <4>1, <4>2, <4>3
    <3>2. Cardinality(InFamily(Family(c), channel, category)) \in Nat
      BY ChannelSets DEF InFamily
    <3>3. Cardinality(InFamily(Family(c), channel, category)) <= j.count
      BY <2>1, <2>5, <3>2
    <3> QED BY <3>1, <3>3 DEF KnowsSizes
  <2>9. Lone' => Knows(j, Family(c), channel, category, hooks, spoiled')
    BY <2>1, <2>7, <2>8 DEF Knows
  <2> QED BY <1>2, <1>3, <1>4, <2>9, OnceKept
<1> QED BY <1>3, <1>5, <1>6

\* Categories that gain nothing grow no larger.
LEMMA StaysSmall ==
  ASSUME NEW chan, NEW cat, NEW chan2, NEW cat2, Small(chan, cat),
         \A x \in ChanIds : chan2[x] \in CatIds => chan2[x] = chan[x],
         \A x \in ChanIds : chan2[x] \in CatIds /\ Open(chan2[x], cat2) =>
                              Open(chan2[x], cat) /\ cat2[chan2[x]] = cat[chan2[x]]
  PROVE  Small(chan2, cat2)
<1>1. ASSUME NEW g \in CatIds PROVE Cardinality(InIt(g, chan2)) <= Cap
  <2> DEFINE S == InIt(g, chan)
             T == InIt(g, chan2)
  <2>1. S \in SUBSET ChanIds /\ T \in SUBSET S
    BY DEF InIt
  <2>2. Cardinality(S) <= Cap
    BY DEF Small
  <2> HIDE DEF S, T
  <2>3. Cardinality(T) <= Cardinality(S) /\ Cardinality(T) \in Nat /\ Cardinality(S) \in Nat
    BY <2>1, ChannelSets
  <2> QED BY <2>2, <2>3, PoolAssumption DEF T
<1>2. ASSUME NEW f \in Families PROVE Cardinality(InFamily(f, chan2, cat2)) <= Most
  <2> DEFINE S == InFamily(f, chan, cat)
             T == InFamily(f, chan2, cat2)
  <2>1. S \in SUBSET ChanIds /\ T \in SUBSET S
    BY DEF InFamily
  <2>2. Cardinality(S) <= Most
    BY DEF Small
  <2> HIDE DEF S, T
  <2>3. Cardinality(T) <= Cardinality(S) /\ Cardinality(T) \in Nat /\ Cardinality(S) \in Nat
    BY <2>1, ChannelSets
  <2> QED BY <2>2, <2>3, MostIs DEF T
<1> QED BY <1>1, <1>2 DEF Small

\* The metadata channel.
LEMMA PostMetaOnce ==
  ASSUME Gates, OnceInv, pinned' = pinned, NEW c \in Calls, PostMeta(c)
  PROVE  OnceInv'
<1> DEFINE k == call[c]
           j == call'[c]
<1>1. Typed /\ Ways
  BY DEF Gates
<1>2. Common(c)
  BY <1>1, SetupCommon DEF Setup
<1>3. /\ UNCHANGED <<category, hooks>> /\ k.at = "postmeta"
      /\ \E x \in ChanIds :
           /\ channel[x] = None
           /\ channel' = channel \/ channel' = [channel EXCEPT ![x] = Meta]
           /\ Learns(k, j, x) \/ Goes(k, j, "list")
  BY <1>1, PostMetaView
<1>4. PICK x \in ChanIds :
           /\ channel[x] = None
           /\ channel' = channel \/ channel' = [channel EXCEPT ![x] = Meta]
           /\ Learns(k, j, x) \/ Goes(k, j, "list")
  BY <1>3
<1>5. j.at \notin Syncing \cup {"postmeta"} /\ Inside(c)
  <2>1. Inside(c)
    BY <1>3 DEF Inside, Outside
  <2> HIDE DEF k, j
  <2> QED BY <1>4, <2>1 DEF Learns, Goes, Syncing
<1>6. Knows(j, Family(c), channel', category', hooks', spoiled')
  BY <1>5, Ignorant
<1>7. ASSUME Lone' PROVE World(channel', category', hooks', spoiled')
  <2>1. /\ OneHook(channel, hooks, spoiled') /\ OneName(category) /\ Housed(channel, category)
        /\ OneMeta(channel) /\ Small(channel, category)
    BY <1>2, <1>7, InsideKnows DEF World
  <2>2. \A y \in ChanIds : channel[y] # Meta
    <3>1. Knows(k, Family(c), channel, category, hooks, spoiled')
      BY <1>2, <1>7, InsideKnows
    <3> QED BY <1>3, <3>1 DEF Knows
  <2>3. CASE channel' = channel
    BY <1>3, <2>1, <2>3 DEF World
  <2>4. CASE channel' = [channel EXCEPT ![x] = Meta]
    <3>1. channel'[x] = Meta /\ \A y \in ChanIds : y # x => channel'[y] = channel[y]
      BY <1>1, <2>4 DEF Typed
    <3>2. Meta \notin CatIds /\ Meta \notin {None, Gone}
      BY MarksAssumption, PoolAssumption
    <3>3. OneHook(channel', hooks, spoiled')
      <4>1. ASSUME NEW y \in ChanIds
            PROVE  /\ There(y, channel') /\ Heard(spoiled') => hooks[y] <= 1
                   /\ channel'[y] = None => hooks[y] = 0
        <5>1. CASE y = x
          BY <1>4, <2>1, <3>1, <3>2, <5>1 DEF OneHook
        <5>2. CASE y # x
          BY <2>1, <3>1, <5>2 DEF OneHook, There
        <5> QED BY <5>1, <5>2
      <4> QED BY <4>1 DEF OneHook
    <3>4. Housed(channel', category)
      BY <2>1, <3>1, <3>2 DEF Housed
    <3>5. OneMeta(channel')
      BY <2>2, <3>1 DEF OneMeta
    <3>6. Small(channel', category)
      BY <2>1, <3>1, <3>2, StaysSmall
    <3> QED BY <1>3, <2>1, <3>3, <3>4, <3>5, <3>6 DEF World
  <2> QED BY <1>4, <2>3, <2>4
<1> QED BY <1>2, <1>5, <1>6, <1>7, OnceKept

\* A category more, or another number of channels, in a call's table.
LEMMA Widened ==
  ASSUME NEW u \in Partial(CatIds, Nat), NEW g \in CatIds, NEW w \in Nat, NEW s, s = With(u, g, w)
  PROVE  /\ DOMAIN s = DOMAIN u \cup {g} /\ s[g] = w
         /\ \A i \in DOMAIN u : i # g => s[i] = u[i]
<1>1. /\ DOMAIN With(u, g, w) = DOMAIN u \cup {g}
      /\ With(u, g, w)[g] = w
      /\ \A i \in DOMAIN u : i # g => With(u, g, w)[i] = u[i]
  BY WithIs
<1> QED BY <1>1

\* A category.
LEMMA PostCategoryOnce ==
  ASSUME Gates, OnceInv, pinned' = pinned, NEW c \in Calls, PostCategory(c)
  PROVE  OnceInv'
<1> DEFINE k == call[c]
           j == call'[c]
           n == NextNumber(c)
           f == Family(c)
           v == <<f, n>>
<1>1. Typed /\ Ways
  BY DEF Gates
<1>2. Common(c)
  BY <1>1, SyncCommon DEF Sync
<1>3. /\ UNCHANGED <<channel, hooks>> /\ k.at = "postcat"
      /\ \E g \in CatIds :
           /\ category[g] = None
           /\ \/ /\ category' = [category EXCEPT ![g] = v]
                 /\ Gets(k, j, With(k.cats, g, 0), With(k.order, g, n))
              \/ /\ category' = category \/ category' = [category EXCEPT ![g] = v]
                 /\ Ends(k, j, "failed", {})
  BY <1>1, PostCategoryView
<1>4. PICK g \in CatIds :
           /\ category[g] = None
           /\ \/ /\ category' = [category EXCEPT ![g] = v]
                 /\ Gets(k, j, With(k.cats, g, 0), With(k.order, g, n))
              \/ /\ category' = category \/ category' = [category EXCEPT ![g] = v]
                 /\ Ends(k, j, "failed", {})
  BY <1>3
<1>5. Inside(c)
  BY <1>3 DEF Inside, Outside
<1>6. v[1] = f /\ v[2] = n /\ v \notin {None, Gone} /\ n \in Nat /\ n \notin Numbers(c) /\ f \in Families
  <2>1. n \in Nat /\ n \notin Numbers(c) /\ f \in Families
    BY <1>1, NextNumberIs, FamilyType
  <2>2. v \in Families \X Nat /\ v[1] = f /\ v[2] = n
    BY <2>1
  <2> QED BY <2>1, <2>2, MarksAssumption
<1>7. SUFFICES ASSUME Lone'
               PROVE  World(channel', category', hooks', spoiled') /\ Knows(j, f, channel', category', hooks', spoiled')
  BY <1>2, <1>5, OnceKept
<1>8. /\ OneHook(channel, hooks, spoiled') /\ OneName(category) /\ Housed(channel, category)
      /\ OneMeta(channel) /\ Small(channel, category)
  BY <1>2, <1>7, InsideKnows DEF World
<1>9. KnowsNames(k, f, category) /\ KnowsSizes(k, f, channel, category)
  <2>1. Knows(k, f, channel, category, hooks, spoiled')
    BY <1>2, <1>7, InsideKnows
  <2> QED BY <1>3, <2>1 DEF Knows, Syncing
<1>10. \A i \in CatIds : Open(i, category) /\ category[i][1] = f => category[i][2] # n
  BY <1>6, <1>9 DEF KnowsNames, Numbers
<1>11. k.cats \in Partial(CatIds, Nat) /\ k.order \in Partial(CatIds, Nat)
  BY <1>1, CallJob, JobIs
<1>12. ASSUME category' = [category EXCEPT ![g] = v]
       PROVE  /\ World(channel', category', hooks', spoiled')
              /\ category'[g] = v /\ \A i \in CatIds : i # g => category'[i] = category[i]
  <2>1. category'[g] = v /\ \A i \in CatIds : i # g => category'[i] = category[i]
    BY <1>1, <1>12 DEF Typed
  <2> HIDE DEF v, n, f
  <2>2. OneName(category')
    <3>1. ASSUME NEW i \in CatIds, Open(i, category), category[i] = v PROVE FALSE
      BY <1>6, <1>10, <3>1
    <3> QED BY <1>8, <2>1, <3>1 DEF OneName, Open
  <2>3. Housed(channel, category')
    BY <1>6, <1>8, <2>1 DEF Housed, Open
  <2>4. Small(channel, category')
    <3>1. \A x \in ChanIds : channel[x] \in CatIds => channel[x] # g /\ Open(channel[x], category)
      BY <1>4, <1>8 DEF Housed, Open
    <3>2. \A x \in ChanIds : channel[x] \in CatIds => category'[channel[x]] = category[channel[x]]
      BY <2>1, <3>1
    <3> QED BY <1>8, <3>1, <3>2, StaysSmall
  <2> QED BY <1>3, <1>8, <2>1, <2>2, <2>3, <2>4 DEF World
<1>13. CASE Ends(k, j, "failed", {})
  <2>1. Knows(j, f, channel', category', hooks', spoiled')
    <3>1. j.at \notin Syncing \cup {"postmeta"}
      BY <1>13 DEF Ends, Syncing
    <3> QED BY <3>1, Ignorant
  <2>2. category' = category => World(channel', category', hooks', spoiled')
    BY <1>3, <1>8 DEF World
  <2> QED BY <1>4, <1>12, <2>1, <2>2
<1>14. CASE category' = [category EXCEPT ![g] = v] /\ Gets(k, j, With(k.cats, g, 0), With(k.order, g, n))
  <2> DEFINE t == With(k.cats, g, 0)
             o == With(k.order, g, n)
  <2>1. category'[g] = v /\ \A i \in CatIds : i # g => category'[i] = category[i]
    BY <1>12, <1>14
  <2>2. /\ DOMAIN t = DOMAIN k.cats \cup {g} /\ t[g] = 0
        /\ \A i \in DOMAIN k.cats : i # g => t[i] = k.cats[i]
    <3> DEFINE u == k.cats
    <3>1. u \in Partial(CatIds, Nat) /\ 0 \in Nat /\ g \in CatIds /\ t = With(u, g, 0)
      BY <1>4, <1>11
    <3> HIDE DEF t, o, u, j, k, n, v, f
    <3>2. DOMAIN t = DOMAIN u \cup {g} /\ t[g] = 0 /\ \A i \in DOMAIN u : i # g => t[i] = u[i]
      BY <3>1, Widened
    <3> QED BY <3>2 DEF u
  <2>3. /\ DOMAIN o = DOMAIN k.order \cup {g} /\ o[g] = n
        /\ \A i \in DOMAIN k.order : i # g => o[i] = k.order[i]
    <3> DEFINE u == k.order
    <3>1. u \in Partial(CatIds, Nat) /\ n \in Nat /\ g \in CatIds /\ o = With(u, g, n)
      BY <1>4, <1>6, <1>11
    <3> HIDE DEF t, o, u, j, k, n, v, f
    <3>2. DOMAIN o = DOMAIN u \cup {g} /\ o[g] = n /\ \A i \in DOMAIN u : i # g => o[i] = u[i]
      BY <3>1, Widened
    <3> QED BY <3>2 DEF u
  <2>4. j.cats = t /\ j.order = o /\ j.count = k.count /\ j.at = "grow"
    BY <1>14 DEF Gets
  <2>5. DOMAIN k.cats \subseteq CatIds /\ DOMAIN k.order \subseteq CatIds
    BY <1>1, CallJob, JobIs
  <2>6. DOMAIN k.cats = DOMAIN k.order
    BY <1>9 DEF KnowsNames
  <2>7. KnowsNames(j, f, category')
    <3>1. \A i \in CatIds : i \in DOMAIN j.order <=> Open(i, category') /\ category'[i][1] = f
      <4> HIDE DEF t, o, v, n, f
      <4> QED BY <1>6, <1>9, <2>1, <2>3, <2>4 DEF KnowsNames, Open
    <3>2. \A i \in DOMAIN j.order : j.order[i] = category'[i][2]
      <4> HIDE DEF t, o, v, n, f
      <4> QED BY <1>6, <1>9, <2>1, <2>3, <2>4, <2>5 DEF KnowsNames
    <3> QED BY <2>2, <2>3, <2>4, <2>6, <3>1, <3>2 DEF KnowsNames
  <2>8. KnowsSizes(j, f, channel, category')
    <3>1. ASSUME NEW i \in DOMAIN j.cats
          PROVE  Cardinality(InIt(i, channel)) <= j.cats[i] /\ j.cats[i] <= Cap
      <4>1. CASE i = g
        <5>1. InIt(g, channel) = {}
          BY <1>4, <1>8 DEF InIt, Housed, Open
        <5>2. Cardinality(InIt(g, channel)) = 0
          BY <5>1, FS_EmptySet
        <5> QED BY <4>1, <5>2, <2>2, <2>4, PoolAssumption
      <4>2. CASE i # g
        <5>1. i \in DOMAIN k.cats /\ j.cats[i] = k.cats[i]
          BY <2>2, <2>4, <3>1, <4>2
        <5> QED BY <5>1, <1>9 DEF KnowsSizes
      <4> QED BY <4>1, <4>2
    <3>2. InFamily(f, channel, category') = InFamily(f, channel, category)
      <4>1. \A x \in ChanIds : channel[x] \in CatIds => channel[x] # g
        BY <1>4, <1>8 DEF Housed, Open
      <4>2. \A x \in ChanIds : channel[x] \in CatIds => category'[channel[x]] = category[channel[x]]
        BY <2>1, <4>1
      <4> HIDE DEF t, o, v, n, f
      <4> QED BY <4>2 DEF InFamily, Open
    <3>3. Cardinality(InFamily(f, channel, category)) <= k.count
      BY <1>9 DEF KnowsSizes
    <3> HIDE DEF f
    <3> QED BY <2>4, <3>1, <3>2, <3>3 DEF KnowsSizes
  <2> QED BY <1>3, <1>12, <1>14, <2>4, <2>7, <2>8 DEF Knows
<1> QED BY <1>4, <1>13, <1>14

\* A channel more in category g, for a call that knows the pool.
LEMMA Tallied ==
  ASSUME NEW k \in JobSet, NEW j, NEW x, NEW g \in DOMAIN k.cats, NEW f, NEW chan, NEW chan2, NEW cat, NEW hks, NEW sp,
         KnowsNames(k, f, cat), k.cats[g] < Cap,
         Takes(k, j, x, With(k.cats, g, k.cats[g] + 1), k.count + 1),
         \A i \in DOMAIN k.cats :
           Cardinality(InIt(i, chan2)) <= IF i = g THEN k.cats[i] + 1 ELSE k.cats[i],
         \A i \in DOMAIN k.cats : k.cats[i] <= Cap,
         Cardinality(InFamily(f, chan2, cat)) <= k.count + 1,
         There(x, chan2) /\ Heard(sp) => hks[x] = 0
  PROVE  Knows(j, f, chan2, cat, hks, sp)
<1> DEFINE u == k.cats
           o == k.order
           n == k.count + 1
           w == u[g] + 1
           t == With(u, g, w)
<1>1. /\ u \in Partial(CatIds, Nat) /\ DOMAIN u \subseteq CatIds
      /\ u[g] \in Nat /\ k.count \in Nat
  BY JobIs
<1>2. g \in DOMAIN u /\ g \in CatIds /\ w \in Nat /\ u[g] < Cap /\ w <= Cap
  BY <1>1, PoolAssumption
<1>3. /\ \A i \in DOMAIN u : Cardinality(InIt(i, chan2)) <= IF i = g THEN w ELSE u[i]
      /\ \A i \in DOMAIN u : u[i] <= Cap
      /\ Cardinality(InFamily(f, chan2, cat)) <= n
  BY <1>1
<1>4. j.cats = t /\ j.order = o /\ j.count = n /\ j.at = "posthook" /\ j.new = x
  BY DEF Takes
<1>5. /\ DOMAIN u = DOMAIN o /\ \A i \in DOMAIN o : o[i] = cat[i][2]
      /\ \A i \in CatIds : i \in DOMAIN o <=> Open(i, cat) /\ cat[i][1] = f
  BY DEF KnowsNames
<1> HIDE DEF n, w, u, o
<1>9. t = With(u, g, w)
  OBVIOUS
<1> HIDE DEF t
<1>6. /\ DOMAIN t = DOMAIN u \cup {g} /\ t[g] = w
      /\ \A i \in DOMAIN u : i # g => t[i] = u[i]
  BY <1>1, <1>2, <1>9, Widened
<1>7. KnowsNames(j, f, cat)
  BY <1>2, <1>4, <1>5, <1>6 DEF KnowsNames
<1>8. KnowsSizes(j, f, chan2, cat)
  <2>1. \A i \in DOMAIN t : i \in DOMAIN u /\ t[i] = IF i = g THEN w ELSE u[i]
    BY <1>2, <1>6
  <2>2. \A i \in DOMAIN t : Cardinality(InIt(i, chan2)) <= t[i] /\ t[i] <= Cap
    BY <1>2, <1>3, <2>1
  <2> QED BY <1>3, <1>4, <2>2 DEF KnowsSizes
<1> QED BY <1>4, <1>7, <1>8 DEF Knows

\* A channel.
LEMMA PostChannelOnce ==
  ASSUME Gates, OnceInv, pinned' = pinned, NEW c \in Calls, PostChannel(c)
  PROVE  OnceInv'
<1> DEFINE k == call[c]
           j == call'[c]
           f == Family(c)
           T(x, g) == Takes(k, j, x, With(k.cats, g, k.cats[g] + 1), k.count + 1)
<1>1. Typed /\ Ways
  BY DEF Gates
<1>2. Common(c)
  BY <1>1, SyncCommon DEF Sync
<1>3. /\ UNCHANGED <<category, hooks>> /\ k.at = "grow" /\ NeedsChannel(c)
      /\ \E g \in Filling(c) :
           \/ \E x \in ChanIds : /\ channel[x] = None /\ channel' = [channel EXCEPT ![x] = g]
                                 /\ T(x, g) \/ T(NoId, g) \/ Ends(k, j, "failed", {})
           \/ /\ channel' = channel
              /\ T(NoId, g) \/ Ends(k, j, "failed", {})
  BY <1>1, PostChannelView
<1>4. PICK g \in Filling(c) :
           \/ \E x \in ChanIds : /\ channel[x] = None /\ channel' = [channel EXCEPT ![x] = g]
                                 /\ T(x, g) \/ T(NoId, g) \/ Ends(k, j, "failed", {})
           \/ /\ channel' = channel
              /\ T(NoId, g) \/ Ends(k, j, "failed", {})
  BY <1>3
<1>5. Inside(c)
  BY <1>3 DEF Inside, Outside
<1>6. SUFFICES ASSUME Lone'
               PROVE  World(channel', category', hooks', spoiled') /\ Knows(j, f, channel', category', hooks', spoiled')
  BY <1>2, <1>5, OnceKept
<1>7. /\ OneHook(channel, hooks, spoiled') /\ OneName(category) /\ Housed(channel, category)
      /\ OneMeta(channel) /\ Small(channel, category)
  BY <1>2, <1>6, InsideKnows DEF World
<1>8. KnowsNames(k, f, category) /\ KnowsSizes(k, f, channel, category)
  <2>1. Knows(k, f, channel, category, hooks, spoiled')
    BY <1>2, <1>6, InsideKnows
  <2> QED BY <1>3, <2>1 DEF Knows, Syncing
<1>9. /\ g \in DOMAIN k.cats /\ k.cats[g] < Cap /\ k \in JobSet
      /\ k.count < Want(c) /\ Want(c) \in Nat /\ Want(c) <= Most
      /\ k.count \in Nat /\ DOMAIN k.cats \subseteq CatIds
      /\ \A i \in DOMAIN k.cats : k.cats[i] \in Nat
  BY <1>1, <1>3, WantIs, CallJob, JobIs DEF Filling, Room, NeedsChannel
<1>10. g \in CatIds /\ Open(g, category) /\ category[g][1] = f
  BY <1>8, <1>9 DEF KnowsNames
<1>11. /\ \A i \in DOMAIN k.cats : Cardinality(InIt(i, channel)) <= k.cats[i] /\ k.cats[i] <= Cap
       /\ Cardinality(InFamily(f, channel, category)) <= k.count
  BY <1>8 DEF KnowsSizes
<1>12. /\ \A i \in CatIds : Cardinality(InIt(i, channel)) \in Nat
       /\ Cardinality(InFamily(f, channel, category)) \in Nat
  BY ChannelSets DEF InIt, InFamily
<1>13. ASSUME NEW chan2, Ends(k, j, "failed", {})
       PROVE  Knows(j, f, chan2, category, hooks, spoiled')
  <2>1. j.at \notin Syncing \cup {"postmeta"}
    BY <1>13 DEF Ends, Syncing
  <2> QED BY <2>1, Ignorant
<1>14. CASE /\ channel' = channel
            /\ T(NoId, g) \/ Ends(k, j, "failed", {})
  <2>1. World(channel', category', hooks', spoiled')
    BY <1>3, <1>7, <1>14 DEF World
  <2>2. ASSUME T(NoId, g) PROVE Knows(j, f, channel, category, hooks, spoiled')
    <3>1. \A i \in DOMAIN k.cats : Cardinality(InIt(i, channel)) <= IF i = g THEN k.cats[i] + 1 ELSE k.cats[i]
      BY <1>9, <1>11, <1>12
    <3>2. Cardinality(InFamily(f, channel, category)) <= k.count + 1
      BY <1>9, <1>11, <1>12
    <3>3. ~There(NoId, channel)
      BY PoolAssumption DEF There, NoId
    <3> HIDE DEF k, j, f
    <3> QED BY <1>8, <1>9, <1>11, <2>2, <3>1, <3>2, <3>3, Tallied
  <2> QED BY <1>3, <1>13, <1>14, <2>1, <2>2
<1>15. ASSUME NEW x \in ChanIds, channel[x] = None, channel' = [channel EXCEPT ![x] = g],
              T(x, g) \/ T(NoId, g) \/ Ends(k, j, "failed", {})
       PROVE  World(channel', category', hooks', spoiled') /\ Knows(j, f, channel', category', hooks', spoiled')
  <2>1. /\ \A i \in CatIds : InIt(i, channel') = IF i = g THEN InIt(i, channel) \cup {x} ELSE InIt(i, channel)
        /\ \A e \in Families :
             InFamily(e, channel', category) = IF e = f THEN InFamily(e, channel, category) \cup {x}
                                               ELSE InFamily(e, channel, category)
    <3> HIDE DEF f
    <3> DEFINE chan2 == channel'
    <3>1. chan2[x] = g /\ \A y \in ChanIds : y # x => chan2[y] = channel[y]
      BY <1>1, <1>15 DEF Typed
    <3>2. channel[x] = None
      BY <1>15
    <3>4. g \in CatIds /\ Open(g, category) /\ category[g][1] = f
      BY <1>10
    <3> HIDE DEF chan2, k, j, f, T
    <3>5. /\ \A i \in CatIds : InIt(i, chan2) = IF i = g THEN InIt(i, channel) \cup {x} ELSE InIt(i, channel)
          /\ \A e \in Families :
               InFamily(e, chan2, category) = IF e = category[g][1] THEN InFamily(e, channel, category) \cup {x}
                                              ELSE InFamily(e, channel, category)
      BY <3>1, <3>2, <3>4, NewChannel
    <3> QED BY <3>4, <3>5 DEF chan2
  <2>2. \A i \in DOMAIN k.cats : Cardinality(InIt(i, channel')) <= IF i = g THEN k.cats[i] + 1 ELSE k.cats[i]
    <3>1. ASSUME NEW i \in DOMAIN k.cats, i = g PROVE Cardinality(InIt(i, channel')) <= k.cats[i] + 1
      <4>1. InIt(i, channel') = InIt(i, channel) \cup {x} /\ i \in CatIds
        BY <1>9, <2>1, <3>1
      <4>2. Cardinality(InIt(i, channel) \cup {x}) <= Cardinality(InIt(i, channel)) + 1
        BY ChannelSets DEF InIt
      <4>3. Cardinality(InIt(i, channel')) \in Nat /\ Cardinality(InIt(i, channel)) \in Nat
        BY ChannelSets DEF InIt
      <4> QED BY <1>9, <1>11, <4>1, <4>2, <4>3
    <3>2. ASSUME NEW i \in DOMAIN k.cats, i # g PROVE Cardinality(InIt(i, channel')) <= k.cats[i]
      BY <1>9, <1>11, <2>1, <3>2
    <3> QED BY <3>1, <3>2
  <2>3. /\ Cardinality(InFamily(f, channel', category)) <= k.count + 1
        /\ Cardinality(InFamily(f, channel', category)) \in Nat
    <3>1. InFamily(f, channel', category) = InFamily(f, channel, category) \cup {x}
      BY <2>1, FamilyType
    <3>2. Cardinality(InFamily(f, channel, category) \cup {x}) <= Cardinality(InFamily(f, channel, category)) + 1
      BY ChannelSets DEF InFamily
    <3>3. Cardinality(InFamily(f, channel', category)) \in Nat
      BY ChannelSets DEF InFamily
    <3> HIDE DEF f
    <3> QED BY <1>9, <1>11, <1>12, <3>1, <3>2, <3>3
  <2>4. hooks[x] = 0
    BY <1>7, <1>15 DEF OneHook
  <2>5. channel'[x] = g /\ \A y \in ChanIds : y # x => channel'[y] = channel[y]
    BY <1>1, <1>15 DEF Typed
  <2>6. g \notin {None, Gone, Meta}
    BY <1>10, MarksAssumption, PoolAssumption
  <2>7. OneHook(channel', hooks, spoiled')
    <3>1. ASSUME NEW y \in ChanIds
          PROVE  /\ There(y, channel') /\ Heard(spoiled') => hooks[y] <= 1
                 /\ channel'[y] = None => hooks[y] = 0
      <4>1. CASE y = x
        BY <2>4, <4>1
      <4>2. CASE y # x
        BY <1>7, <2>5, <4>2 DEF OneHook, There
      <4> QED BY <4>1, <4>2
    <3> QED BY <3>1 DEF OneHook
  <2>8. Housed(channel', category)
    BY <1>7, <1>10, <2>5 DEF Housed
  <2>9. OneMeta(channel')
    BY <1>7, <2>5, <2>6 DEF OneMeta
  <2>10. Small(channel', category)
    <3>1. ASSUME NEW i \in CatIds PROVE Cardinality(InIt(i, channel')) <= Cap
      <4>1. CASE i = g
        <5>1. Cardinality(InIt(g, channel')) <= k.cats[g] + 1 /\ Cardinality(InIt(g, channel')) \in Nat
          BY <1>9, <2>2, ChannelSets DEF InIt
        <5> QED BY <1>9, <4>1, <5>1, PoolAssumption
      <4>2. CASE i # g
        BY <1>7, <2>1, <4>2 DEF Small
      <4> QED BY <4>1, <4>2
    <3>2. ASSUME NEW e \in Families PROVE Cardinality(InFamily(e, channel', category)) <= Most
      <4>1. CASE e = f
        <5> HIDE DEF f
        <5>1. k.count + 1 <= Most
          BY <1>9, MostIs
        <5> QED BY <1>9, <2>3, <4>1, <5>1, MostIs
      <4>2. CASE e # f
        BY <1>7, <2>1, <4>2 DEF Small
      <4> QED BY <4>1, <4>2
    <3> QED BY <3>1, <3>2 DEF Small
  <2>11. World(channel', category', hooks', spoiled')
    BY <1>3, <1>7, <2>7, <2>8, <2>9, <2>10 DEF World
  <2>12. ASSUME NEW z \in {x, NoId}, T(z, g) PROVE Knows(j, f, channel', category, hooks, spoiled')
    <3>1. \A i \in DOMAIN k.cats : k.cats[i] <= Cap
      BY <1>11
    <3> DEFINE chan2 == channel'
    <3>3. There(z, chan2) /\ Heard(spoiled') => hooks[z] = 0
      BY <2>4, PoolAssumption DEF There, NoId
    <3> HIDE DEF k, j, f, chan2
    <3>2. Knows(j, f, chan2, category, hooks, spoiled')
      BY <1>8, <1>9, <2>2, <2>3, <2>12, <3>1, <3>3, Tallied DEF chan2
    <3> QED BY <3>2 DEF chan2
  <2> QED BY <1>3, <1>13, <1>15, <2>11, <2>12
<1> QED BY <1>4, <1>14, <1>15

\* A webhook.
LEMMA HookOnce ==
  ASSUME Gates, OnceInv, pinned' = pinned, NEW c \in Calls, HookNew(c) \/ HookOld(c)
  PROVE  OnceInv'
<1> DEFINE k == call[c]
           j == call'[c]
           f == Family(c)
           x == k.new
<1>1. Typed /\ Ways
  BY DEF Gates
<1>2. Common(c)
  BY <1>1, SyncCommon DEF Sync
<1>3. /\ UNCHANGED <<category, channel>> /\ k.at \in {"posthook", "rehook"}
      /\ Posted(c, x)
  BY <1>1, HookView
<1>4. /\ hooks' = hooks \/ (x \in Chans /\ hooks' = [hooks EXCEPT ![x] = @ + 1])
      /\ Ends(k, j, "failed", {}) \/ (KeepsPool(k, j) /\ j.at = "grow")
  BY <1>3 DEF Posted, Puts
<1>5. Inside(c)
  BY <1>3 DEF Inside, Outside
<1>6. SUFFICES ASSUME Lone'
               PROVE  World(channel', category', hooks', spoiled') /\ Knows(j, f, channel', category', hooks', spoiled')
  BY <1>2, <1>5, OnceKept
<1>7. /\ OneHook(channel, hooks, spoiled') /\ OneName(category) /\ Housed(channel, category)
      /\ OneMeta(channel) /\ Small(channel, category)
  BY <1>2, <1>6, InsideKnows DEF World
<1>8. /\ KnowsNames(k, f, category) /\ KnowsSizes(k, f, channel, category)
      /\ There(x, channel) /\ Heard(spoiled') => hooks[x] = 0
  <2>1. Knows(k, f, channel, category, hooks, spoiled')
    BY <1>2, <1>6, InsideKnows
  <2> QED BY <1>3, <2>1 DEF Knows, Syncing
<1>9. OneHook(channel, hooks', spoiled')
  <2>1. CASE x \in Chans /\ hooks' = [hooks EXCEPT ![x] = @ + 1]
    <3>1. x \in ChanIds /\ channel[x] \notin {None, Gone} /\ (Heard(spoiled') => hooks[x] = 0)
      BY <1>8, <2>1 DEF Chans, There
    <3>2. (Heard(spoiled') => hooks'[x] = 1) /\ \A y \in ChanIds : y # x => hooks'[y] = hooks[y]
      BY <1>1, <2>1, <3>1 DEF Typed
    <3> QED BY <1>7, <3>1, <3>2 DEF OneHook
  <2> QED BY <1>4, <1>7, <2>1
<1>10. World(channel', category', hooks', spoiled')
  BY <1>3, <1>7, <1>9 DEF World
<1>11. Knows(j, f, channel, category, hooks', spoiled')
  <2>1. CASE Ends(k, j, "failed", {})
    <3>1. j.at \notin Syncing \cup {"postmeta"}
      BY <2>1 DEF Ends, Syncing
    <3> QED BY <3>1, Ignorant
  <2>2. CASE KeepsPool(k, j) /\ j.at = "grow"
    <3>1. KnowsNames(j, f, category) /\ KnowsSizes(j, f, channel, category)
      <4> HIDE DEF k, j, f
      <4> QED BY <1>8, <2>2 DEF KnowsNames, KnowsSizes, KeepsPool
    <3> QED BY <2>2, <3>1 DEF Knows
  <2> QED BY <1>4, <2>1, <2>2
<1> QED BY <1>3, <1>10, <1>11

\* A cleaning only takes away.
LEMMA WipeOnce ==
  ASSUME Gates, OnceInv, pinned' = pinned, NEW c \in Calls, Wipe(c)
  PROVE  OnceInv'
<1> DEFINE j == call'[c]
<1>1. Typed /\ Ways
  BY DEF Gates
<1>2. Common(c)
  BY <1>1, WriteCommon DEF Clean
<1>3. /\ hooks' = hooks /\ call[c].at = "wipe" /\ Cleans(call[c], j)
      /\ \/ UNCHANGED <<category, channel>>
         \/ category' = category /\ \E x \in ChanIds : channel' = [channel EXCEPT ![x] = Gone]
         \/ \E g \in CatIds :
              /\ category' = [category EXCEPT ![g] = Gone]
              /\ channel' = [x \in ChanIds |-> IF channel[x] = g THEN Root ELSE channel[x]]
  BY <1>1, WipeView
<1>4. Inside(c) /\ j.at \notin Syncing \cup {"postmeta"}
  BY <1>3 DEF Inside, Outside, Cleans, Syncing
<1>5. Knows(j, Family(c), channel', category', hooks', spoiled')
  BY <1>4, Ignorant
<1>6. SUFFICES ASSUME Lone' PROVE World(channel', category', hooks', spoiled')
  BY <1>2, <1>4, <1>5, OnceKept
<1>7. /\ OneHook(channel, hooks, spoiled') /\ OneName(category) /\ Housed(channel, category)
      /\ OneMeta(channel) /\ Small(channel, category)
  BY <1>2, <1>6, InsideKnows DEF World
<1>8. /\ {None, Gone, Root, Meta} \cap CatIds = {} /\ None # Gone /\ Meta # Gone /\ None # Root /\ Meta # Root
  BY MarksAssumption, PoolAssumption
<1>9. CASE UNCHANGED <<category, channel>>
  BY <1>3, <1>7, <1>9 DEF World
<1>10. ASSUME NEW x \in ChanIds, channel' = [channel EXCEPT ![x] = Gone], category' = category
       PROVE  World(channel', category', hooks', spoiled')
  <2>1. channel'[x] = Gone /\ \A y \in ChanIds : y # x => channel'[y] = channel[y]
    BY <1>1, <1>10 DEF Typed
  <2>2. OneHook(channel', hooks, spoiled')
    <3>1. ASSUME NEW y \in ChanIds
          PROVE  /\ There(y, channel') /\ Heard(spoiled') => hooks[y] <= 1
                 /\ channel'[y] = None => hooks[y] = 0
      <4>1. CASE y = x
        BY <1>8, <2>1, <4>1 DEF There
      <4>2. CASE y # x
        BY <1>7, <2>1, <4>2 DEF OneHook, There
      <4> QED BY <4>1, <4>2
    <3> QED BY <3>1 DEF OneHook
  <2>3. Housed(channel', category)
    BY <1>7, <1>8, <2>1 DEF Housed
  <2>4. OneMeta(channel')
    BY <1>7, <1>8, <2>1 DEF OneMeta
  <2>5. Small(channel', category)
    BY <1>7, <1>8, <2>1, StaysSmall
  <2> QED BY <1>3, <1>7, <1>10, <2>2, <2>3, <2>4, <2>5 DEF World
<1>11. ASSUME NEW g \in CatIds, category' = [category EXCEPT ![g] = Gone],
              channel' = [x \in ChanIds |-> IF channel[x] = g THEN Root ELSE channel[x]]
       PROVE  World(channel', category', hooks', spoiled')
  <2>1. /\ \A x \in ChanIds : channel'[x] = IF channel[x] = g THEN Root ELSE channel[x]
        /\ category'[g] = Gone /\ \A i \in CatIds : i # g => category'[i] = category[i]
    BY <1>1, <1>11 DEF Typed
  <2>2. OneHook(channel', hooks, spoiled')
    <3>1. ASSUME NEW y \in ChanIds
          PROVE  /\ There(y, channel') /\ Heard(spoiled') => hooks[y] <= 1
                 /\ channel'[y] = None => hooks[y] = 0
      <4>1. CASE channel[y] = g
        BY <1>7, <1>8, <2>1, <4>1 DEF OneHook, There
      <4>2. CASE channel[y] # g
        BY <1>7, <2>1, <4>2 DEF OneHook, There
      <4> QED BY <4>1, <4>2
    <3> QED BY <3>1 DEF OneHook
  <2>3. \A x \in ChanIds : channel'[x] \in CatIds => channel'[x] = channel[x] /\ channel[x] # g
    BY <1>8, <2>1
  <2>4. Housed(channel', category')
    BY <1>7, <2>1, <2>3 DEF Housed, Open
  <2>5. OneName(category')
    BY <1>7, <2>1 DEF OneName, Open
  <2>6. OneMeta(channel')
    BY <1>7, <1>8, <2>1 DEF OneMeta
  <2>7. Small(channel', category')
    <3>1. \A x \in ChanIds : channel'[x] \in CatIds /\ Open(channel'[x], category') =>
             Open(channel'[x], category) /\ category'[channel'[x]] = category[channel'[x]]
      BY <2>1, <2>3 DEF Open
    <3> QED BY <1>7, <2>3, <3>1, StaysSmall
  <2> QED BY <1>3, <2>2, <2>4, <2>5, <2>6, <2>7 DEF World
<1> QED BY <1>3, <1>9, <1>10, <1>11

\* A new server has nothing twice, and nobody knows anything.
LEMMA InitOnce ==
  ASSUME Init
  PROVE  OnceInv
<1>1. /\ channel = [x \in ChanIds |-> None] /\ hooks = [x \in ChanIds |-> 0]
      /\ category = [g \in CatIds |-> IF g = pinned THEN <<"pinned", 1>> ELSE None]
  BY DEF Init
<1>2. None \notin CatIds /\ None # Meta /\ None # Gone
  BY MarksAssumption, PoolAssumption
<1>3. World(channel, category, hooks, spoiled)
  <2>1. OneHook(channel, hooks, spoiled) /\ Housed(channel, category) /\ OneMeta(channel)
    BY <1>1, <1>2 DEF OneHook, Housed, OneMeta, There
  <2>2. OneName(category)
    BY <1>1 DEF OneName, Open
  <2>3. Small(channel, category)
    <3>1. ASSUME NEW g \in CatIds PROVE Cardinality(InIt(g, channel)) <= Cap
      <4>1. InIt(g, channel) = {}
        BY <1>1, <1>2 DEF InIt
      <4>2. Cardinality(InIt(g, channel)) = 0
        BY <4>1, FS_EmptySet
      <4> QED BY <4>2, PoolAssumption
    <3>2. ASSUME NEW f \in Families PROVE Cardinality(InFamily(f, channel, category)) <= Most
      <4>1. InFamily(f, channel, category) = {}
        BY <1>1, <1>2 DEF InFamily
      <4>2. Cardinality(InFamily(f, channel, category)) = 0
        BY <4>1, FS_EmptySet
      <4> QED BY <4>2, MostIs
    <3> QED BY <3>1, <3>2 DEF Small
  <2> QED BY <2>1, <2>2, <2>3 DEF World
<1>4. \A c \in Calls : Knows(call[c], Family(c), channel, category, hooks, spoiled)
  BY InitTyped, Ignorant DEF Syncing
<1> QED BY <1>3, <1>4 DEF OnceInv

\* The two invariants together are inductive.
LEMMA OnceInvariant == Spec => [](Gates /\ OnceInv)
<1>1. Init => OnceInv
  BY InitOnce
<1>2. Gates /\ OnceInv /\ [Next]_vars => OnceInv'
  <2>1. ASSUME Gates, OnceInv, Next PROVE OnceInv'
    <3>1. pinned' = pinned
      BY <2>1, PinnedStays
    <3>2. PICK c \in Calls : Setup(c) \/ Sync(c) \/ Write(c) \/ Clean(c)
      BY <2>1 DEF Next
    <3>3. CASE \/ BeginUpload(c) \/ BeginSetup(c) \/ BeginBackup(c) \/ BeginBoot(c) \/ Lock(c)
               \/ ListMeta(c) \/ TakePool(c) \/ RecordMeta(c) \/ Forget(c) \/ BeginClean(c)
      BY <2>1, <3>1, <3>3, SetupOnce
    <3>4. CASE FindCategory(c) \/ Ensure(c) \/ Record(c)
      BY <2>1, <3>1, <3>4, LocalOnce
    <3>5. CASE List(c) \/ PostMeta(c) \/ PostCategory(c) \/ PostChannel(c)
      BY <2>1, <3>1, <3>5, ListOnce, PostMetaOnce, PostCategoryOnce, PostChannelOnce
    <3>6. CASE HookNew(c) \/ HookOld(c) \/ Wipe(c)
      BY <2>1, <3>1, <3>6, HookOnce, WipeOnce
    <3> QED BY <3>2, <3>3, <3>4, <3>5, <3>6 DEF Setup, Sync, Write, Clean
  <2>2. ASSUME OnceInv, UNCHANGED vars PROVE OnceInv'
    BY <2>2 DEF OnceInv, Lone, vars, Family, Base
  <2> QED BY <2>1, <2>2
<1> QED BY <1>1, <1>2, GatesInvariant, PTL DEF Spec

\* MadeOnce: nothing is made twice as long as calls do not overlap: no second webhook,
\* category or metadata channel, no category too full, no pool larger than asked for.
\* (A second webhook does appear when a list of webhooks lost its body.)
THEOREM NothingTwice == Spec => []MadeOnce
<1>1. Gates /\ OnceInv => MadeOnce
  <2> SUFFICES ASSUME Gates, OnceInv, Lone PROVE
        /\ Heard(spoiled) => \A x \in Chans : hooks[x] <= 1
        /\ \A i, g \in Cats : category[i] = category[g] => i = g
        /\ \A g \in Cats : Listed(g) <= Cap
        /\ Cardinality(Metas) <= 1
        /\ \A f \in Families : Cardinality({x \in Chans : channel[x] \in Cats /\ category[channel[x]][1] = f})
                                 <= Max(Wants \cup {Target})
    BY DEF MadeOnce, Lone, Heard
  <2>1. /\ OneHook(channel, hooks, spoiled) /\ OneName(category) /\ OneMeta(channel) /\ Small(channel, category)
    BY DEF OnceInv, World
  <2>2. None \notin CatIds /\ Gone \notin CatIds
    BY MarksAssumption, PoolAssumption
  <2>3. Heard(spoiled) => \A x \in Chans : hooks[x] <= 1
    BY <2>1 DEF OneHook, Chans, There
  <2>4. \A i, g \in Cats : category[i] = category[g] => i = g
    BY <2>1 DEF OneName, Cats, Open
  <2>5. \A g \in Cats : Listed(g) <= Cap
    <3> TAKE g \in Cats
    <3>1. g \in CatIds
      BY DEF Cats
    <3>2. {x \in Chans : channel[x] = g} = InIt(g, channel)
      BY <3>1, <2>2 DEF Chans, InIt
    <3> QED BY <2>1, <3>1, <3>2 DEF Listed, Small
  <2>6. Cardinality(Metas) <= 1
    <3>1. CASE Metas = {}
      BY <3>1, FS_EmptySet
    <3>2. ASSUME NEW x \in Metas PROVE Cardinality(Metas) <= 1
      <4>1. Metas = {x}
        BY <2>1 DEF OneMeta, Metas
      <4> QED BY <4>1, FS_Singleton
    <3> QED BY <3>1, <3>2
  <2>7. \A f \in Families : Cardinality({x \in Chans : channel[x] \in Cats /\ category[channel[x]][1] = f}) <= Most
    <3> TAKE f \in Families
    <3>1. {x \in Chans : channel[x] \in Cats /\ category[channel[x]][1] = f} = InFamily(f, channel, category)
      BY <2>2 DEF Chans, Cats, InFamily, Open
    <3> QED BY <2>1, <3>1 DEF Small
  <2> QED BY <2>3, <2>4, <2>5, <2>6, <2>7 DEF Most
<1> QED BY <1>1, OnceInvariant, PTL

-----------------------------------------------------------------------------
(***************************************************************************)
(* EnoughChannels.                                                         *)
(***************************************************************************)
\* No cleaning, and no setup that names no server, met another call.
Calm == "taken" \notin spoiled

Stored(r) == r # None /\ r.guild /\ ~r.meta

\* The channels of categories a call has listed, has just made, or finds in the catalog.
Secured(k, chan, rows) ==
  {x \in ChanIds : /\ chan[x] \in CatIds
                   /\ \/ x \in k.todo \cup DOMAIN k.items
                      \/ k.at = "posthook" /\ x = k.new
                      \/ Stored(rows[x])}

\* An upload whose requests were answered: what it counts is there.
Sure(k, chan, cat, rows) ==
  /\ k.at \in Syncing =>
       /\ k.count <= Cardinality(Secured(k, chan, rows))
       /\ \A x \in DOMAIN k.items : x # NoId /\ k.items[x] # NoHook
       /\ \A x \in k.todo : There(x, chan)
       /\ k.at \in {"posthook", "rehook"} => There(k.new, chan)
       /\ \A g \in DOMAIN k.cats : Open(g, cat)
  /\ k.at = "done" => k.want <= Cardinality(k.result)

\* The metadata channel a call knows is one.
MetaOwn(k, chan) ==
  /\ k.op # "clean" /\ k.meta # NoId => chan[k.meta] = Meta
  /\ k.at \in Outside => k.meta = NoId

EnoughInv ==
  Calm => \A c \in Calls :
            /\ MetaOwn(call[c], channel)
            /\ call[c].op = "upload" /\ c \notin hit => Sure(call[c], channel, category, row)

\* Nothing an upload relies on goes away.
Stays(chan, cat, rows, chan2, cat2, rows2) ==
  /\ \A x \in ChanIds : /\ There(x, chan) => There(x, chan2)
                        /\ chan[x] = Meta => chan2[x] = Meta
                        /\ chan[x] \in CatIds => chan2[x] \in CatIds
                        /\ chan[x] \in CatIds /\ Stored(rows[x]) => Stored(rows2[x])
  /\ \A g \in CatIds : Open(g, cat) => Open(g, cat2)

\* What is secured stays so.
LEMMA SureStays ==
  ASSUME NEW k \in JobSet, NEW chan, NEW cat, NEW rows, NEW chan2, NEW cat2, NEW rows2,
         Sure(k, chan, cat, rows), Stays(chan, cat, rows, chan2, cat2, rows2)
  PROVE  Sure(k, chan2, cat2, rows2)
<1>1. SUFFICES ASSUME k.at \in Syncing
               PROVE  /\ k.count <= Cardinality(Secured(k, chan2, rows2))
                      /\ \A x \in DOMAIN k.items : x # NoId /\ k.items[x] # NoHook
                      /\ \A x \in k.todo : There(x, chan2)
                      /\ k.at \in {"posthook", "rehook"} => There(k.new, chan2)
                      /\ \A g \in DOMAIN k.cats : Open(g, cat2)
  BY DEF Sure
<1>2. /\ k.count <= Cardinality(Secured(k, chan, rows))
      /\ \A x \in DOMAIN k.items : x # NoId /\ k.items[x] # NoHook
      /\ \A x \in k.todo : There(x, chan)
      /\ k.at \in {"posthook", "rehook"} => There(k.new, chan)
      /\ \A g \in DOMAIN k.cats : Open(g, cat)
  BY <1>1 DEF Sure
<1>3. k.count \in Nat /\ DOMAIN k.cats \subseteq CatIds
  BY JobIs
<1>4. Secured(k, chan, rows) \subseteq Secured(k, chan2, rows2) /\ Secured(k, chan2, rows2) \subseteq ChanIds
  BY DEF Secured, Stays
<1>5. /\ Cardinality(Secured(k, chan, rows)) <= Cardinality(Secured(k, chan2, rows2))
      /\ Cardinality(Secured(k, chan, rows)) \in Nat /\ Cardinality(Secured(k, chan2, rows2)) \in Nat
  BY <1>4, ChannelSets
<1>6. k.count <= Cardinality(Secured(k, chan2, rows2))
  BY <1>2, <1>3, <1>5
<1>7. \A x : There(x, chan) => There(x, chan2)
  BY DEF There, Stays
<1>8. \A g \in DOMAIN k.cats : Open(g, cat2)
  BY <1>2, <1>3 DEF Stays
<1> QED BY <1>2, <1>6, <1>7, <1>8

\* It is enough to look at the call that steps.
LEMMA EnoughKept ==
  ASSUME Gates, EnoughInv, NEW c \in Calls, Common(c),
         Calm' => \/ Stays(channel, category, row, channel', category', row')
                  \/ Inside(c) /\ call[c].op \in {"auto", "clean"},
         Calm' => /\ MetaOwn(call'[c], channel')
                  /\ call[c].op = "upload" /\ c \notin hit' => Sure(call'[c], channel', category', row')
  PROVE  EnoughInv'
<1> SUFFICES ASSUME Calm', NEW d \in Calls
             PROVE  /\ MetaOwn(call'[d], channel')
                    /\ call'[d].op = "upload" /\ d \notin hit' => Sure(call'[d], channel', category', row')
  BY DEF EnoughInv
<1>1. /\ Calm /\ \A e \in Calls \ {c} : call'[e] = call[e]
      /\ call'[c].op = call[c].op /\ hit \subseteq hit' /\ hit' \subseteq hit \cup {c}
  BY DEF Calm, Common, Alone, KeepsAsk
<1>2. CASE d = c
  BY <1>1, <1>2
<1>3. CASE d # c
  <2>1. /\ MetaOwn(call[d], channel)
        /\ call[d].op = "upload" /\ d \notin hit => Sure(call[d], channel, category, row)
        /\ call'[d] = call[d] /\ (d \notin hit' => d \notin hit)
    BY <1>1, <1>3 DEF EnoughInv
  <2>2. call[d] \in JobSet
    BY CallJob DEF Gates
  <2>3. CASE Stays(channel, category, row, channel', category', row')
    <3>1. call[d].op = "upload" /\ d \notin hit' => Sure(call[d], channel', category', row')
      BY <2>1, <2>2, <2>3, SureStays
    <3>2. MetaOwn(call[d], channel')
      <4>1. call[d].meta \in Places
        BY <2>2, JobIs
      <4>2. call[d].meta # NoId => call[d].meta \in ChanIds
        BY <4>1 DEF Places
      <4> QED BY <2>1, <2>3, <4>2 DEF MetaOwn, Stays
    <3> QED BY <2>1, <3>1, <3>2
  <2>4. CASE Inside(c) /\ call[c].op \in {"auto", "clean"}
    <3>1. call[d].at \in Outside
      BY <1>1, <1>3, <2>4 DEF Gates, Pure, Calm, Inside
    <3>2. MetaOwn(call[d], channel')
      BY <2>1, <3>1 DEF MetaOwn
    <3>3. call[d].op = "upload" /\ d \notin hit' => Sure(call[d], channel', category', row')
      BY <2>1, <3>1 DEF Sure, Outside, Syncing
    <3> QED BY <2>1, <3>2, <3>3
  <2> QED BY <2>3, <2>4
<1> QED BY <1>2, <1>3

\* A world that stands still keeps everything.
LEMMA StandsStill ==
  ASSUME UNCHANGED <<category, channel, row>>
  PROVE  Stays(channel, category, row, channel', category', row')
BY DEF Stays

\* A call that syncs nothing and ends nothing promises nothing.
LEMMA PromisesNothing ==
  ASSUME NEW k, NEW chan, NEW cat, NEW rows, k.at \notin Syncing \cup {"done"}
  PROVE  Sure(k, chan, cat, rows)
BY DEF Sure

\* The metadata channel a call knows is there as long as nobody deletes it.
LEMMA MetaStays ==
  ASSUME NEW k \in JobSet, NEW j, NEW chan, NEW chan2, MetaOwn(k, chan),
         KeepsAsk(k, j), \/ j.meta = NoId
                         \/ j.meta = k.meta /\ (j.at \in Outside => k.at \in Outside),
         \A x \in ChanIds : chan[x] = Meta => chan2[x] = Meta
  PROVE  MetaOwn(j, chan2)
<1>1. k.meta \in Places
  BY JobIs
<1>2. k.meta # NoId => k.meta \in ChanIds
  BY <1>1 DEF Places
<1> QED BY <1>2 DEF MetaOwn, KeepsAsk

\* Before the pool is listed nothing is promised.
LEMMA EarlyEnough ==
  ASSUME Gates, EnoughInv, NEW c \in Calls,
         \/ BeginUpload(c) \/ BeginSetup(c) \/ BeginBackup(c) \/ BeginBoot(c) \/ Lock(c)
         \/ ListMeta(c) \/ BeginClean(c)
  PROVE  EnoughInv'
<1> DEFINE k == call[c]
           j == call'[c]
<1>1. Typed /\ Ways
  BY DEF Gates
<1>2. Common(c)
  BY <1>1, BeginCommon, SetupCommon, WriteCommon DEF Setup, Clean
<1>3. /\ UNCHANGED <<category, channel, row>>
      /\ \/ \E st \in {"lock", "list", "meta", "postmeta"} : Goes(k, j, st)
         \/ \E x \in Metas : Learns(k, j, x)
         \/ Ends(k, j, "failed", {})
         \/ k.op = "boot" /\ Ends(k, j, "done", {})
         \/ k.op = "clean" /\ Cleans(k, j)
  <2>1. CASE BeginUpload(c) \/ BeginSetup(c) \/ BeginBackup(c) \/ BeginBoot(c) \/ Lock(c)
    <3>1. JobWays(k)
      BY <1>1 DEF Ways
    <3>2. k.at = "lock" => k.op = "boot"
      BY <3>1 DEF JobWays
    <3> QED BY <1>1, <2>1, <3>2, EnterView
  <2>2. CASE ListMeta(c)
    BY <1>1, <2>2, ListMetaView
  <2>3. CASE BeginClean(c)
    BY <1>1, <2>3, BeginCleanView
  <2> QED BY <2>1, <2>2, <2>3
<1>4. Stays(channel, category, row, channel', category', row')
  BY <1>3, StandsStill
<1>5. k \in JobSet /\ KeepsAsk(k, j) /\ (Calm' => MetaOwn(k, channel))
  BY <1>1, <1>2, CallJob DEF Common, EnoughInv, Calm
<1>6. SUFFICES ASSUME Calm'
               PROVE  /\ MetaOwn(j, channel')
                      /\ k.op = "upload" /\ c \notin hit' => Sure(j, channel', category', row')
  BY <1>2, <1>4, EnoughKept
<1>7. CASE \E st \in {"lock", "list", "meta", "postmeta"} : Goes(k, j, st)
  <2>1. PICK st \in {"lock", "list", "meta", "postmeta"} : Goes(k, j, st)
    BY <1>7
  <2>2. j.meta = k.meta /\ j.at = st /\ j.at \notin Syncing \cup {"done"}
    <3> HIDE DEF j, k
    <3> QED BY <2>1 DEF Goes, Syncing
  <2>3. j.at \in Outside => k.at \in Outside
    <3>1. CASE BeginBoot(c)
      BY <3>1 DEF BeginBoot, Idle, At, Outside
    <3>2. CASE ~BeginBoot(c)
      <4>1. st # "lock"
        <5>1. CASE BeginUpload(c) \/ BeginSetup(c) \/ BeginBackup(c) \/ Lock(c)
          BY <5>1, <1>1, <2>1 DEF BeginUpload, BeginSetup, BeginBackup, Lock, Enter, Goto, Set, End,
             Job, Goes, Typed, JobSet
        <5>2. CASE ListMeta(c)
          BY <5>2, <1>1, <2>1, ListMetaView DEF Goes, Learns, Ends
        <5>3. CASE BeginClean(c)
          BY <5>3, <1>1, <2>1, BeginCleanView DEF Goes, Cleans
        <5> QED BY <3>2, <5>1, <5>2, <5>3
      <4> QED BY <2>2, <4>1 DEF Outside
    <3> QED BY <3>1, <3>2
  <2>4. MetaOwn(j, channel)
    BY <1>5, <1>6, <2>2, <2>3, MetaStays
  <2> QED BY <1>3, <2>2, <2>4, PromisesNothing
<1>8. CASE \E x \in Metas : Learns(k, j, x)
  <2>1. PICK x \in Metas : Learns(k, j, x)
    BY <1>8
  <2>2. j.meta = x /\ j.at = "list" /\ channel[x] = Meta
    BY <2>1 DEF Learns, Metas
  <2>3. MetaOwn(j, channel)
    BY <2>2 DEF MetaOwn, Outside
  <2>4. j.at \notin Syncing \cup {"done"}
    BY <2>2 DEF Syncing
  <2> QED BY <1>3, <2>3, <2>4, PromisesNothing
<1>9. CASE Ends(k, j, "failed", {}) \/ (k.op = "boot" /\ Ends(k, j, "done", {}))
  <2>1. j.meta = NoId /\ (j.at \notin Syncing \cup {"done"} \/ k.op = "boot")
    BY <1>9 DEF Ends, Syncing
  <2>2. MetaOwn(j, channel)
    BY <2>1 DEF MetaOwn
  <2> QED BY <1>3, <2>1, <2>2, PromisesNothing
<1>10. CASE k.op = "clean" /\ Cleans(k, j)
  <2>1. j.op = "clean" /\ j.at \in {"wipe", "forget"}
    BY <1>10 DEF Cleans, KeepsAsk
  <2>2. MetaOwn(j, channel)
    BY <2>1 DEF MetaOwn, Outside
  <2> QED BY <1>3, <1>10, <2>2
<1> QED BY <1>3, <1>7, <1>8, <1>9, <1>10

\* A cleaning meets no upload, or spoils it.
LEMMA CleanEnough ==
  ASSUME Gates, EnoughInv, NEW c \in Calls, Wipe(c) \/ Forget(c)
  PROVE  EnoughInv'
<1> DEFINE k == call[c]
           j == call'[c]
<1>1. Typed /\ Ways
  BY DEF Gates
<1>2. Common(c)
  BY <1>1, WriteCommon DEF Write, Clean
<1>3. k.at \in {"wipe", "forget"} /\ (Cleans(k, j) \/ Ends(k, j, "done", {}))
  BY <1>1, WipeView, ForgetView
<1>4. Inside(c) /\ k.op = "clean"
  <2>1. JobWays(k)
    BY <1>1 DEF Ways
  <2> QED BY <1>3, <2>1 DEF JobWays, Inside, Outside
<1>5. MetaOwn(j, channel')
  <2>1. KeepsAsk(k, j)
    BY <1>2 DEF Common
  <2>2. j.at \in {"wipe", "forget"} \/ j.meta = NoId
    BY <1>3 DEF Cleans, Ends
  <2> QED BY <1>4, <2>1, <2>2 DEF MetaOwn, KeepsAsk, Outside
<1> QED BY <1>2, <1>4, <1>5, EnoughKept

\* The metadata channel comes into existence.
LEMMA PostMetaEnough ==
  ASSUME Gates, EnoughInv, NEW c \in Calls, PostMeta(c)
  PROVE  EnoughInv'
<1> DEFINE k == call[c]
           j == call'[c]
<1>1. Typed /\ Ways
  BY DEF Gates
<1>2. Common(c)
  BY <1>1, SetupCommon DEF Setup
<1>3. UNCHANGED <<category, row>> /\ k.at = "postmeta"
  BY <1>1, PostMetaView
<1>4. PICK x \in ChanIds :
           /\ channel[x] = None
           /\ channel' = channel \/ channel' = [channel EXCEPT ![x] = Meta]
           /\ \/ Learns(k, j, x) /\ channel' = [channel EXCEPT ![x] = Meta]
              \/ Goes(k, j, "list")
  BY <1>1, PostMetaView
<1>5. /\ channel'[x] = Meta \/ channel'[x] = None
      /\ \A y \in ChanIds : y # x => channel'[y] = channel[y]
      /\ (Learns(k, j, x) /\ channel'[x] = Meta) \/ Goes(k, j, "list")
  <2> HIDE DEF k, j
  <2> QED BY <1>1, <1>4 DEF Typed
<1>6. None # Meta /\ None \notin CatIds
  BY MarksAssumption, PoolAssumption
<1>7. Stays(channel, category, row, channel', category', row')
  <2> HIDE DEF k, j
  <2> QED BY <1>3, <1>4, <1>5, <1>6 DEF Stays, There
<1>8. j.at \notin Syncing \cup {"done"} /\ j.at \notin Outside
  <2> HIDE DEF k, j
  <2> QED BY <1>5 DEF Learns, Goes, Syncing, Outside
<1>9. Calm' => MetaOwn(j, channel')
  <2>1. CASE Learns(k, j, x) /\ channel'[x] = Meta
    <3>1. j.meta = x /\ channel'[x] = Meta
      BY <2>1 DEF Learns
    <3> QED BY <1>8, <3>1 DEF MetaOwn
  <2>2. CASE Goes(k, j, "list")
    <3>1. k \in JobSet /\ KeepsAsk(k, j) /\ (Calm' => MetaOwn(k, channel)) /\ j.meta = k.meta
      BY <1>1, <1>2, <2>2, CallJob DEF Common, EnoughInv, Calm, Goes
    <3>2. \A y \in ChanIds : channel[y] = Meta => channel'[y] = Meta
      BY <1>7 DEF Stays
    <3> DEFINE chan2 == channel'
    <3>3. \A y \in ChanIds : channel[y] = Meta => chan2[y] = Meta
      BY <3>2
    <3> HIDE DEF k, j, chan2
    <3>4. Calm' => MetaOwn(j, chan2)
      BY <1>8, <3>1, <3>3, MetaStays
    <3> QED BY <3>4 DEF chan2
  <2> QED BY <1>5, <2>1, <2>2
<1> QED BY <1>2, <1>7, <1>8, <1>9, PromisesNothing, EnoughKept

\* A call that goes on inside, or ends: only what it counts is left to look at.
LEMMA PoolEnough ==
  ASSUME Gates, EnoughInv, NEW c \in Calls, Common(c),
         \/ call'[c].meta = NoId
         \/ call'[c].meta = call[c].meta /\ call'[c].at \notin Outside,
         Stays(channel, category, row, channel', category', row'),
         /\ Calm' /\ call[c].op = "upload" /\ c \notin hit'
         /\ Sure(call[c], channel, category, row)
         => Sure(call'[c], channel', category', row')
  PROVE  EnoughInv'
<1>1. /\ call[c] \in JobSet /\ KeepsAsk(call[c], call'[c]) /\ (c \notin hit' => c \notin hit)
      /\ Calm' => MetaOwn(call[c], channel)
      /\ Calm' /\ call[c].op = "upload" /\ c \notin hit' => Sure(call[c], channel, category, row)
  BY CallJob DEF Gates, Common, EnoughInv, Calm
<1>2. Calm' => MetaOwn(call'[c], channel')
  <2> DEFINE k == call[c]
             j == call'[c]
             chan2 == channel'
  <2>1. /\ k \in JobSet /\ KeepsAsk(k, j) /\ (Calm' => MetaOwn(k, channel))
        /\ j.meta = NoId \/ (j.meta = k.meta /\ j.at \notin Outside)
        /\ \A x \in ChanIds : channel[x] = Meta => chan2[x] = Meta
    BY <1>1 DEF Stays
  <2> HIDE DEF k, j, chan2
  <2>2. Calm' => MetaOwn(j, chan2)
    BY <2>1, MetaStays
  <2> QED BY <2>2 DEF j, chan2
<1> QED BY <1>1, <1>2, EnoughKept

\* The call lists the same channels as before.
LEMMA GrowSure ==
  ASSUME NEW k \in JobSet, NEW j, NEW chan, NEW cat, NEW rows, Sure(k, chan, cat, rows),
         k.at \in {"grow", "postcat"}, j.at \in {"grow", "postcat", "rehook"}, KeepsRest(k, j),
         j.count = k.count, j.at = "rehook" => There(j.new, chan),
         \A g \in DOMAIN j.cats : Open(g, cat)
  PROVE  Sure(j, chan, cat, rows)
<1>1. Secured(j, chan, rows) = Secured(k, chan, rows)
  BY DEF Secured, KeepsRest
<1>2. /\ k.count <= Cardinality(Secured(k, chan, rows))
      /\ \A x \in DOMAIN k.items : x # NoId /\ k.items[x] # NoHook
      /\ \A x \in k.todo : There(x, chan)
  BY DEF Sure, Syncing
<1> QED BY <1>1, <1>2 DEF Sure, KeepsRest

\* The listing.
LEMMA ListEnough ==
  ASSUME Gates, EnoughInv, NEW c \in Calls, List(c)
  PROVE  EnoughInv'
<1> DEFINE k == call[c]
           j == call'[c]
           f == [g \in Managed(c) |-> Listed(g)]
           o == [g \in Managed(c) |-> category[g][2]]
           S == {x \in Chans : channel[x] \in Managed(c)}
<1>1. Typed /\ Ways
  BY DEF Gates
<1>2. Common(c)
  BY <1>1, SyncCommon DEF Sync
<1>3. /\ UNCHANGED <<category, channel, row>> /\ k.at = "list"
      /\ \/ Ends(k, j, "failed", {})
         \/ Lists(k, j, f, o, S, Cardinality(S))
  BY <1>1, ListView
<1>4. Stays(channel, category, row, channel', category', row')
  BY <1>3, StandsStill
<1>5. CASE Ends(k, j, "failed", {})
  <2>1. j.meta = NoId /\ j.at \notin Syncing \cup {"done"}
    BY <1>5 DEF Ends, Syncing
  <2> QED BY <1>2, <1>4, <2>1, PromisesNothing, PoolEnough
<1>6. CASE Lists(k, j, f, o, S, Cardinality(S))
  <2>1. JobWays(k)
    BY <1>1 DEF Ways
  <2>2. k.items = Empty /\ DOMAIN Empty = {}
    <3>1. DOMAIN Empty = {}
      BY OtherTables
    <3> QED BY <1>3, <2>1, <3>1 DEF JobWays
  <2>3. /\ j.meta = k.meta /\ j.at = "grow" /\ j.todo = S /\ j.items = k.items
        /\ j.count = Cardinality(S) /\ j.cats = f
    BY <1>6 DEF Lists
  <2>4. DOMAIN f = Managed(c) /\ \A g \in Managed(c) : g \in CatIds /\ Open(g, category)
    BY DEF Managed, Cats, Open
  <2>5. \A x \in S : x \in ChanIds /\ There(x, channel) /\ channel[x] \in CatIds
    BY <2>4 DEF Chans, There
  <2> HIDE DEF S, f, o
  <2>6. S \subseteq Secured(j, channel, row) /\ Secured(j, channel, row) \subseteq ChanIds
    BY <2>3, <2>5 DEF Secured
  <2>7. j.count <= Cardinality(Secured(j, channel, row))
    BY <2>3, <2>6, ChannelSets
  <2>8. Sure(j, channel, category, row)
    BY <2>2, <2>3, <2>4, <2>5, <2>7 DEF Sure
  <2>9. j.at \notin Outside
    BY <2>3 DEF Outside
  <2> QED BY <1>2, <1>3, <1>4, <2>3, <2>8, <2>9, PoolEnough
<1> QED BY <1>3, <1>5, <1>6

\* A category is found.
LEMMA FindEnough ==
  ASSUME Gates, EnoughInv, NEW c \in Calls, FindCategory(c)
  PROVE  EnoughInv'
<1> DEFINE k == call[c]
           j == call'[c]
           n == NextNumber(c)
<1>1. Typed /\ Ways
  BY DEF Gates
<1>2. Common(c)
  BY <1>1, SyncCommon DEF Sync
<1>3. /\ UNCHANGED <<category, channel, row>> /\ k.at = "grow"
      /\ \/ \E g \in Named(c) : Gets(k, j, With(k.cats, g, 0), With(k.order, g, n))
         \/ Goes(k, j, "postcat")
  BY <1>1, FindCategoryView
<1>4. Stays(channel, category, row, channel', category', row')
  BY <1>3, StandsStill
<1>5. /\ k \in JobSet /\ KeepsRest(k, j) /\ j.count = k.count /\ j.meta = k.meta
      /\ j.at \in {"grow", "postcat"}
  <2>1. k \in JobSet
    BY <1>1, CallJob
  <2> HIDE DEF k, j, n
  <2> QED BY <1>3, <2>1 DEF Gets, Goes, KeepsPool
<1>6. ASSUME Sure(k, channel, category, row) PROVE \A g \in DOMAIN j.cats : Open(g, category)
  <2>1. \A g \in DOMAIN k.cats : Open(g, category)
    BY <1>3, <1>6 DEF Sure, Syncing
  <2>2. CASE Goes(k, j, "postcat")
    BY <2>1, <2>2 DEF Goes, KeepsPool
  <2>3. ASSUME NEW g \in Named(c), Gets(k, j, With(k.cats, g, 0), With(k.order, g, n))
        PROVE  \A i \in DOMAIN j.cats : Open(i, category)
    <3>1. g \in CatIds /\ Open(g, category) /\ j.cats = With(k.cats, g, 0)
      BY <2>3 DEF Named, Cats, Open, Gets
    <3> DEFINE u == k.cats
               t == j.cats
    <3>2. u \in Partial(CatIds, Nat) /\ 0 \in Nat /\ g \in CatIds /\ t = With(u, g, 0)
      BY <1>1, <3>1, CallJob, JobIs
    <3> HIDE DEF u, t, j, k, n
    <3>3. DOMAIN t = DOMAIN u \cup {g}
      BY <3>2, Widened
    <3> QED BY <2>1, <3>1, <3>3 DEF u, t
  <2> QED BY <1>3, <2>2, <2>3
<1>7. Sure(k, channel, category, row) => Sure(j, channel, category, row)
  <2> HIDE DEF k, j, n
  <2> QED BY <1>3, <1>5, <1>6, GrowSure
<1>8. j.at \notin Outside
  BY <1>5 DEF Outside
<1> QED BY <1>2, <1>3, <1>4, <1>5, <1>7, <1>8, PoolEnough

\* A category comes into existence.
LEMMA PostCategoryEnough ==
  ASSUME Gates, EnoughInv, NEW c \in Calls, PostCategory(c)
  PROVE  EnoughInv'
<1> DEFINE k == call[c]
           j == call'[c]
           n == NextNumber(c)
           v == <<Family(c), n>>
<1>1. Typed /\ Ways
  BY DEF Gates
<1>2. Common(c)
  BY <1>1, SyncCommon DEF Sync
<1>3. UNCHANGED <<channel, row>> /\ k.at = "postcat"
  BY <1>1, PostCategoryView
<1>4. PICK g \in CatIds :
           /\ category[g] = None
           /\ category' = category \/ category' = [category EXCEPT ![g] = v]
           /\ \/ category' = [category EXCEPT ![g] = v] /\ Gets(k, j, With(k.cats, g, 0), With(k.order, g, n))
              \/ Ends(k, j, "failed", {})
  BY <1>1, PostCategoryView
<1>5. v \notin {None, Gone}
  <2>1. v \in Families \X Nat
    BY <1>1, NextNumberIs, FamilyType
  <2> QED BY <2>1, MarksAssumption
<1>6. /\ category[g] = None /\ \A i \in CatIds : i # g => category'[i] = category[i]
      /\ Ends(k, j, "failed", {}) \/ (category'[g] = v /\ Gets(k, j, With(k.cats, g, 0), With(k.order, g, n)))
  <2> HIDE DEF k, j, n, v
  <2> QED BY <1>1, <1>4 DEF Typed
<1>7. Stays(channel, category, row, channel', category', row')
  <2> HIDE DEF k, j, n, v
  <2> QED BY <1>3, <1>6 DEF Stays, Open
<1>8. CASE Ends(k, j, "failed", {})
  <2>1. j.meta = NoId /\ j.at \notin Syncing \cup {"done"}
    BY <1>8 DEF Ends, Syncing
  <2> QED BY <1>2, <1>7, <2>1, PromisesNothing, PoolEnough
<1>9. CASE category'[g] = v /\ Gets(k, j, With(k.cats, g, 0), With(k.order, g, n))
  <2>1. /\ k \in JobSet /\ KeepsRest(k, j) /\ j.count = k.count /\ j.meta = k.meta /\ j.at = "grow"
        /\ j.cats = With(k.cats, g, 0)
    BY <1>1, <1>9, CallJob DEF Gets
  <2> DEFINE chan2 == channel'
             cat2 == category'
             rows2 == row'
  <2>2. ASSUME Sure(k, channel, category, row) PROVE Sure(j, chan2, cat2, rows2)
    <3>1. Sure(k, chan2, cat2, rows2)
      <4> HIDE DEF k, j, n, v, chan2, cat2, rows2
      <4>1. Stays(channel, category, row, chan2, cat2, rows2)
        BY <1>7 DEF chan2, cat2, rows2
      <4> QED BY <2>1, <2>2, <4>1, SureStays
    <3>2. \A i \in DOMAIN k.cats : Open(i, cat2)
      BY <1>3, <3>1 DEF Sure, Syncing
    <3>3. Open(g, cat2)
      BY <1>5, <1>9 DEF Open
    <3>4. \A i \in DOMAIN j.cats : Open(i, cat2)
      <4> DEFINE u == k.cats
                 t == j.cats
      <4>1. u \in Partial(CatIds, Nat) /\ 0 \in Nat /\ g \in CatIds /\ t = With(u, g, 0)
        BY <2>1, JobIs
      <4> HIDE DEF u, t, j, k, n, v, cat2
      <4>2. DOMAIN t = DOMAIN u \cup {g}
        BY <4>1, Widened
      <4> QED BY <3>2, <3>3, <4>2 DEF u, t
    <3> HIDE DEF k, j, n, v, chan2, cat2, rows2
    <3> QED BY <1>3, <2>1, <3>1, <3>4, GrowSure
  <2>3. j.at \notin Outside
    BY <2>1 DEF Outside
  <2> QED BY <1>2, <1>7, <2>1, <2>2, <2>3, PoolEnough
<1> QED BY <1>6, <1>8, <1>9

\* A channel just made is one more.
LEMMA TakeSure ==
  ASSUME NEW k \in JobSet, NEW j, NEW x \in ChanIds, NEW g \in DOMAIN k.cats,
         NEW chan, NEW chan2, NEW cat, NEW rows,
         Sure(k, chan, cat, rows), k.at = "grow",
         Takes(k, j, x, With(k.cats, g, k.cats[g] + 1), k.count + 1),
         chan[x] = None, chan2[x] = g, \A y \in ChanIds : y # x => chan2[y] = chan[y]
  PROVE  Sure(j, chan2, cat, rows)
<1>1. /\ k.count \in Nat /\ g \in CatIds /\ k.cats \in Partial(CatIds, Nat)
      /\ k.cats[g] \in Nat /\ g \notin {None, Gone} /\ None \notin CatIds
  BY JobIs, MarksAssumption, PoolAssumption
<1>2. /\ k.count <= Cardinality(Secured(k, chan, rows))
      /\ \A y \in DOMAIN k.items : y # NoId /\ k.items[y] # NoHook
      /\ \A y \in k.todo : There(y, chan)
      /\ \A i \in DOMAIN k.cats : Open(i, cat)
  BY DEF Sure, Syncing
<1>3. /\ j.todo = k.todo /\ j.items = k.items /\ j.at = "posthook" /\ j.new = x
      /\ j.count = k.count + 1 /\ j.cats = With(k.cats, g, k.cats[g] + 1)
  BY DEF Takes, KeepsRest
<1> DEFINE A == Secured(k, chan, rows)
           B == Secured(j, chan2, rows)
<1>4. A \cup {x} \subseteq B /\ x \notin A /\ A \subseteq ChanIds /\ B \subseteq ChanIds
  BY <1>1, <1>3 DEF Secured
<1>5. j.count <= Cardinality(B)
  <2> HIDE DEF A, B
  <2>1. IsFiniteSet(A) /\ Cardinality(A) \in Nat /\ IsFiniteSet(B)
    BY <1>4, ChannelSets
  <2>2. Cardinality(A \cup {x}) = Cardinality(A) + 1
    BY <1>4, <2>1, FS_AddElement
  <2>3. Cardinality(A \cup {x}) <= Cardinality(B) /\ Cardinality(B) \in Nat
    BY <1>4, ChannelSets
  <2>4. k.count <= Cardinality(A)
    BY <1>2 DEF A
  <2> QED BY <1>1, <1>3, <2>1, <2>2, <2>3, <2>4
<1>6. \A y : There(y, chan) => There(y, chan2)
  BY <1>1 DEF There
<1>7. There(x, chan2)
  BY <1>1 DEF There
<1>8. \A i \in DOMAIN j.cats : Open(i, cat)
  <2> DEFINE u == k.cats
             w == u[g] + 1
             t == With(u, g, w)
  <2>1. u \in Partial(CatIds, Nat) /\ w \in Nat /\ g \in CatIds /\ g \in DOMAIN u /\ j.cats = t
    BY <1>1, <1>3
  <2> HIDE DEF u, w, t, A, B
  <2>2. DOMAIN t = DOMAIN u \cup {g}
    BY DEF With, t
  <2> QED BY <1>2, <2>1, <2>2 DEF u
<1> HIDE DEF A, B
<1> QED BY <1>2, <1>3, <1>5, <1>6, <1>7, <1>8 DEF Sure, B

\* A channel listed with its webhook is still there.
LEMMA PutSure ==
  ASSUME NEW k \in JobSet, NEW j, NEW x \in ChanIds, NEW w \in Nat \ {0},
         NEW chan, NEW cat, NEW rows, Sure(k, chan, cat, rows), k.at \in Syncing,
         k.at = "posthook" => x = k.new, Puts(k, j, x, With(k.items, x, w))
  PROVE  Sure(j, chan, cat, rows)
<1> DEFINE u == k.items
           t == j.items
<1>1. /\ k.count \in Nat /\ u \in Partial(Places, Nat)
      /\ x \in Places /\ w \in Nat /\ t = With(u, x, w)
      /\ j.todo = k.todo \ {x} /\ j.at = "grow" /\ j.count = k.count /\ j.cats = k.cats
  BY JobIs DEF Places, Puts, KeepsPool
<1>2. /\ k.count <= Cardinality(Secured(k, chan, rows))
      /\ \A y \in DOMAIN u : y # NoId /\ u[y] # NoHook
      /\ \A y \in k.todo : There(y, chan)
      /\ \A i \in DOMAIN k.cats : Open(i, cat)
  BY DEF Sure, Syncing
<1>3. DOMAIN t = DOMAIN u \cup {x} /\ t[x] = w /\ \A y \in DOMAIN u : y # x => t[y] = u[y]
  <2> HIDE DEF u, t
  <2>1. /\ DOMAIN With(u, x, w) = DOMAIN u \cup {x} /\ With(u, x, w)[x] = w
        /\ \A y \in DOMAIN u : y # x => With(u, x, w)[y] = u[y]
    BY <1>1, WithIs
  <2> QED BY <1>1, <2>1
<1>4. x # NoId /\ w # NoHook
  BY PoolAssumption DEF NoId, NoHook
<1>5. \A y \in DOMAIN t : y # NoId /\ t[y] # NoHook
  <2> HIDE DEF u, t
  <2> QED BY <1>2, <1>3, <1>4
<1>6. /\ Secured(k, chan, rows) \subseteq Secured(j, chan, rows)
      /\ Secured(j, chan, rows) \subseteq ChanIds
  BY <1>1, <1>3 DEF Secured
<1>7. j.count <= Cardinality(Secured(j, chan, rows))
  <2> DEFINE A == Secured(k, chan, rows)
             B == Secured(j, chan, rows)
  <2>1. A \subseteq B /\ B \subseteq ChanIds /\ k.count <= Cardinality(A)
    BY <1>2, <1>6
  <2> HIDE DEF A, B
  <2>2. Cardinality(A) <= Cardinality(B) /\ Cardinality(A) \in Nat /\ Cardinality(B) \in Nat
    BY <2>1, ChannelSets
  <2>3. k.count <= Cardinality(B)
    BY <1>1, <2>1, <2>2
  <2> QED BY <1>1, <2>3 DEF B
<1>8. \A y \in j.todo : There(y, chan)
  BY <1>1, <1>2
<1> QED BY <1>1, <1>2, <1>5, <1>7, <1>8 DEF Sure

\* A channel.
LEMMA PostChannelEnough ==
  ASSUME Gates, EnoughInv, NEW c \in Calls, PostChannel(c)
  PROVE  EnoughInv'
<1> DEFINE k == call[c]
           j == call'[c]
           T(x, g) == Takes(k, j, x, With(k.cats, g, k.cats[g] + 1), k.count + 1)
<1>1. Typed /\ Ways
  BY DEF Gates
<1>2. Common(c)
  BY <1>1, SyncCommon DEF Sync
<1>3. UNCHANGED <<category, row>> /\ k.at = "grow"
  BY <1>1, PostChannelView
<1>4. PICK g \in Filling(c) :
         \/ \E x \in ChanIds : /\ channel[x] = None /\ channel' = [channel EXCEPT ![x] = g]
                               /\ T(x, g) \/ (T(NoId, g) /\ c \in hit') \/ Ends(k, j, "failed", {})
         \/ /\ channel' = channel
            /\ \/ T(NoId, g) /\ hit' = IF g \in Cats THEN hit \cup {c} ELSE hit
               \/ Ends(k, j, "failed", {})
  BY <1>1, PostChannelView
<1>5. g \in DOMAIN k.cats /\ g \in CatIds /\ k \in JobSet /\ None \notin CatIds /\ Meta \notin CatIds /\ None # Meta
      /\ g \notin {None, Gone}
  BY <1>1, CallJob, JobIs, MarksAssumption, PoolAssumption DEF Filling
<1>6. ASSUME Ends(k, j, "failed", {}), Stays(channel, category, row, channel', category', row')
      PROVE  EnoughInv'
  <2>1. j.meta = NoId /\ j.at \notin Syncing \cup {"done"}
    BY <1>6 DEF Ends, Syncing
  <2> QED BY <1>2, <1>6, <2>1, PromisesNothing, PoolEnough
<1>7. ASSUME NEW x, T(x, g)
      PROVE  j.meta = k.meta /\ j.at \notin Outside
  BY <1>7 DEF Takes, Outside
<1>8. CASE channel' = channel
  <2>1. Stays(channel, category, row, channel', category', row')
    BY <1>3, <1>8, StandsStill
  <2>2. CASE T(NoId, g) /\ hit' = IF g \in Cats THEN hit \cup {c} ELSE hit
    <3>1. ASSUME Sure(k, channel, category, row), c \notin hit'
          PROVE  FALSE
      <4>1. Open(g, category)
        BY <1>3, <1>5, <3>1 DEF Sure, Syncing
      <4>2. g \in Cats
        BY <1>5, <4>1 DEF Cats, Open
      <4> QED BY <2>2, <3>1, <4>2
    <3> QED BY <1>2, <1>7, <2>1, <2>2, <3>1, PoolEnough
  <2>3. ASSUME NEW x \in ChanIds, channel[x] = None, channel' = [channel EXCEPT ![x] = g] PROVE FALSE
    BY <1>1, <1>5, <1>8, <2>3 DEF Typed
  <2> QED BY <1>4, <1>6, <2>1, <2>2, <2>3
<1>9. ASSUME NEW x \in ChanIds, channel[x] = None, channel' = [channel EXCEPT ![x] = g],
             T(x, g) \/ (T(NoId, g) /\ c \in hit') \/ Ends(k, j, "failed", {})
      PROVE  EnoughInv'
  <2>1. channel'[x] = g /\ \A y \in ChanIds : y # x => channel'[y] = channel[y]
    BY <1>1, <1>9 DEF Typed
  <2>2. Stays(channel, category, row, channel', category', row')
    <3> HIDE DEF k, j, T
    <3> QED BY <1>3, <1>5, <1>9, <2>1 DEF Stays, There
  <2>3. CASE T(x, g)
    <3>1. ASSUME Sure(k, channel, category, row) PROVE Sure(j, channel', category', row')
      <4> DEFINE chan2 == channel'
      <4>1. T(x, g) /\ chan2[x] = g /\ channel[x] = None /\ \A y \in ChanIds : y # x => chan2[y] = channel[y]
        BY <1>9, <2>1, <2>3
      <4> HIDE DEF k, j, chan2
      <4>2. Sure(j, chan2, category, row)
        BY <1>3, <1>5, <3>1, <4>1, TakeSure
      <4> QED BY <1>3, <4>2 DEF chan2
    <3> QED BY <1>2, <1>7, <2>2, <2>3, <3>1, PoolEnough
  <2>4. CASE T(NoId, g) /\ c \in hit'
    BY <1>2, <1>7, <2>2, <2>4, PoolEnough
  <2> QED BY <1>6, <1>9, <2>2, <2>3, <2>4
<1> QED BY <1>4, <1>8, <1>9

\* A webhook.
LEMMA HookEnough ==
  ASSUME Gates, EnoughInv, NEW c \in Calls, HookNew(c) \/ HookOld(c)
  PROVE  EnoughInv'
<1> DEFINE k == call[c]
           j == call'[c]
           x == k.new
<1>1. Typed /\ Ways
  BY DEF Gates
<1>2. Common(c)
  BY <1>1, SyncCommon DEF Sync
<1>3. /\ UNCHANGED <<category, channel, row>> /\ k.at \in {"posthook", "rehook"}
      /\ Posted(c, x)
  BY <1>1, HookView
<1>4. /\ \/ x \in Chans /\ Puts(k, j, x, With(k.items, x, hooks[x] + 1))
         \/ Puts(k, j, x, With(k.items, x, NoHook)) /\ (x \in Chans => c \in hit')
         \/ Puts(k, j, x, k.items) /\ c \in hit'
         \/ Ends(k, j, "failed", {})
      /\ Ends(k, j, "failed", {}) \/ (j.meta = k.meta /\ j.at = "grow")
  BY <1>3 DEF Posted, Puts
<1>5. Stays(channel, category, row, channel', category', row')
  BY <1>3, StandsStill
<1>6. CASE Ends(k, j, "failed", {})
  <2>1. j.meta = NoId /\ j.at \notin Syncing \cup {"done"}
    BY <1>6 DEF Ends, Syncing
  <2> QED BY <1>2, <1>5, <2>1, PromisesNothing, PoolEnough
<1>7. CASE j.meta = k.meta /\ j.at = "grow"
  <2>1. ASSUME Sure(k, channel, category, row), c \notin hit' PROVE Sure(j, channel, category, row)
    <3>1. There(x, channel)
      BY <1>3, <2>1 DEF Sure, Syncing
    <3>2. x \in Chans /\ x \in ChanIds /\ hooks[x] \in Nat
      BY <1>1, <3>1 DEF There, Chans, Typed
    <3>3. k \in JobSet /\ k.at \in Syncing
      BY <1>1, <1>3, CallJob DEF Syncing
    <3> DEFINE w == hooks[x] + 1
    <3>4. w \in Nat \ {0}
      BY <3>2
    <3>5. CASE Puts(k, j, x, With(k.items, x, w))
      <4>1. k.at = "posthook" => x = k.new
        OBVIOUS
      <4> HIDE DEF k, j, x, w
      <4> QED BY <2>1, <3>2, <3>3, <3>4, <3>5, <4>1, PutSure
    <3>6. CASE Ends(k, j, "failed", {})
      BY <1>7, <3>6 DEF Ends
    <3> QED BY <1>4, <2>1, <3>2, <3>5, <3>6
  <2>2. j.at \notin Outside
    BY <1>7 DEF Outside
  <2> QED BY <1>2, <1>3, <1>5, <1>7, <2>1, <2>2, PoolEnough
<1> QED BY <1>4, <1>6, <1>7

\* A listed channel's webhooks.
LEMMA EnsureEnough ==
  ASSUME Gates, EnoughInv, NEW c \in Calls, Ensure(c)
  PROVE  EnoughInv'
<1> DEFINE k == call[c]
           j == call'[c]
<1>1. Typed /\ Ways
  BY DEF Gates
<1>2. Common(c)
  BY <1>1, SyncCommon DEF Sync
<1>3. UNCHANGED <<category, channel, row>> /\ k.at = "grow" /\ k \in JobSet
  BY <1>1, EnsureView, CallJob DEF Grown, At
<1>4. PICK x \in k.todo :
         \/ \E w \in 1 .. hooks[x] : Puts(k, j, x, With(k.items, x, w))
         \/ Rehooks(k, j, x)
         \/ Puts(k, j, x, k.items) /\ hit' = hit \cup {c}
  BY <1>1, EnsureView
<1>5. Stays(channel, category, row, channel', category', row')
  BY <1>3, StandsStill
<1>6. j.meta = k.meta /\ j.at \in {"grow", "rehook"}
  <2> HIDE DEF k, j
  <2> QED BY <1>4 DEF Puts, Rehooks
<1>7. ASSUME Sure(k, channel, category, row), c \notin hit' PROVE Sure(j, channel, category, row)
  <2>1. x \in ChanIds /\ There(x, channel) /\ hooks[x] \in Nat
    BY <1>1, <1>3, <1>7, JobIs DEF Sure, Syncing, Typed
  <2>2. CASE Rehooks(k, j, x)
    <3>1. /\ KeepsRest(k, j) /\ j.count = k.count /\ j.new = x /\ j.cats = k.cats /\ j.at = "rehook"
      BY <2>2 DEF Rehooks, KeepsPool
    <3>2. \A g \in DOMAIN j.cats : Open(g, category)
      BY <1>3, <1>7, <3>1 DEF Sure, Syncing
    <3> HIDE DEF k, j
    <3> QED BY <1>3, <1>7, <2>1, <3>1, <3>2, GrowSure
  <2>3. ASSUME NEW w \in 1 .. hooks[x], Puts(k, j, x, With(k.items, x, w))
        PROVE  Sure(j, channel, category, row)
    <3>1. w \in Nat \ {0} /\ k.at \in Syncing /\ k.at # "posthook"
      BY <1>3, <2>1 DEF Syncing
    <3> HIDE DEF k, j
    <3> QED BY <1>3, <1>7, <2>1, <2>3, <3>1, PutSure
  <2> QED BY <1>4, <1>7, <2>2, <2>3
<1>8. j.at \notin Outside
  BY <1>6 DEF Outside
<1> QED BY <1>2, <1>3, <1>5, <1>6, <1>7, <1>8, PoolEnough

\* A channel written down is found in the catalog from then on.
LEMMA WriteSure ==
  ASSUME NEW k \in JobSet, NEW j, NEW x, NEW chan, NEW cat, NEW rows, NEW rows2,
         Sure(k, chan, cat, rows), k.at = "grow",
         Writes(k, j, [z \in DOMAIN k.items \ {x} |-> k.items[z]]),
         Stored(rows2[x]), \A y \in ChanIds : y # x => rows2[y] = rows[y]
  PROVE  Sure(j, chan, cat, rows2)
<1> DEFINE u == k.items
           t == [z \in DOMAIN u \ {x} |-> u[z]]
<1>1. /\ k.count \in Nat /\ j.todo = k.todo /\ j.items = t /\ j.count = k.count /\ j.cats = k.cats
      /\ j.at = "grow"
  BY JobIs DEF Writes, KeepsPool
<1>2. /\ k.count <= Cardinality(Secured(k, chan, rows))
      /\ \A y \in DOMAIN u : y # NoId /\ u[y] # NoHook
      /\ \A y \in k.todo : There(y, chan)
      /\ \A i \in DOMAIN k.cats : Open(i, cat)
  BY DEF Sure, Syncing
<1>3. DOMAIN t = DOMAIN u \ {x} /\ \A y \in DOMAIN t : t[y] = u[y]
  OBVIOUS
<1> HIDE DEF t
<1>4. /\ Secured(k, chan, rows) \subseteq Secured(j, chan, rows2)
      /\ Secured(j, chan, rows2) \subseteq ChanIds
  BY <1>1, <1>3 DEF Secured
<1>5. j.count <= Cardinality(Secured(j, chan, rows2))
  <2> DEFINE A == Secured(k, chan, rows)
             B == Secured(j, chan, rows2)
  <2>1. A \subseteq B /\ B \subseteq ChanIds /\ k.count <= Cardinality(A)
    BY <1>2, <1>4
  <2> HIDE DEF A, B
  <2>2. Cardinality(A) <= Cardinality(B) /\ Cardinality(A) \in Nat /\ Cardinality(B) \in Nat
    BY <2>1, ChannelSets
  <2>3. k.count <= Cardinality(B)
    BY <1>1, <2>1, <2>2
  <2> QED BY <1>1, <2>3 DEF B
<1>6. \A y \in DOMAIN j.items : y # NoId /\ j.items[y] # NoHook
  <2> DEFINE e == j.items
  <2>1. e = t
    BY <1>1
  <2> HIDE DEF u, e
  <2>2. \A y \in DOMAIN e : y # NoId /\ e[y] # NoHook
    BY <1>2, <1>3, <2>1
  <2> QED BY <2>2 DEF e
<1> QED BY <1>1, <1>2, <1>5, <1>6 DEF Sure

\* A channel is written to the catalog.
LEMMA RecordEnough ==
  ASSUME Gates, EnoughInv, NEW c \in Calls, Record(c)
  PROVE  EnoughInv'
<1> DEFINE k == call[c]
           j == call'[c]
<1>1. Typed /\ Ways
  BY DEF Gates
<1>2. Common(c)
  BY <1>1, WriteCommon DEF Write
<1>3. UNCHANGED <<category, channel, hit>> /\ k.at = "grow" /\ k \in JobSet
  BY <1>1, RecordView, CallJob DEF Synced, Grown, At
<1>4. PICK x \in Usable(c) :
        /\ row' = [row EXCEPT ![x] = [hook |-> k.items[x], guild |-> KnowsGuild(c), meta |-> FALSE]]
        /\ Writes(k, j, [z \in DOMAIN k.items \ {x} |-> k.items[z]])
  BY <1>1, RecordView
<1>5. Inside(c) /\ j.meta = k.meta /\ j.at \notin Outside /\ j.at = "grow"
  BY <1>3, <1>4 DEF Writes, Inside, Outside
<1>6. x \in Places
  <2>1. x \in DOMAIN k.items
    BY DEF Usable
  <2> QED BY <1>3, <2>1, JobIs
<1>7. CASE k.op = "auto"
  <2>1. Calm' => MetaOwn(j, channel')
    <3>1. Calm' => MetaOwn(k, channel)
      BY <1>2 DEF EnoughInv, Calm, Common
    <3>2. KeepsAsk(k, j)
      BY <1>2 DEF Common
    <3> QED BY <1>3, <1>5, <3>1, <3>2 DEF MetaOwn, KeepsAsk
  <2> QED BY <1>2, <1>5, <1>7, <2>1, EnoughKept
<1>8. CASE k.op # "auto"
  <2> DEFINE r == [hook |-> k.items[x], guild |-> KnowsGuild(c), meta |-> FALSE]
             rows2 == row'
  <2>1. Stored(r)
    <3>1. KnowsGuild(c) = TRUE
      BY <1>8 DEF KnowsGuild
    <3>2. r \in Rows
      <4>1. k.items[x] \in Nat
        BY <1>3, JobIs DEF Usable
      <4> QED BY <3>1, <4>1 DEF Rows
    <3>3. r.guild /\ ~r.meta
      BY <3>1
    <3>4. r # None
      BY <3>2, MarksAssumption
    <3> QED BY <3>3, <3>4 DEF Stored
  <2>2. rows2[x] = r /\ \A y \in Places : y # x => rows2[y] = row[y]
    <3> HIDE DEF r
    <3>1. row' = [row EXCEPT ![x] = r]
      BY <1>4 DEF r
    <3> QED BY <1>1, <1>6, <3>1 DEF Typed
  <2>3. Writes(k, j, [z \in DOMAIN k.items \ {x} |-> k.items[z]])
    BY <1>4
  <2> HIDE DEF r, k, j, rows2
  <2>4. Stored(rows2[x]) /\ \A y \in ChanIds : y # x => rows2[y] = row[y]
    BY <2>1, <2>2 DEF Places
  <2>5. Stays(channel, category, row, channel', category', rows2)
    BY <1>3, <2>4 DEF Stays
  <2>6. Sure(k, channel, category, row) => Sure(j, channel, category, rows2)
    BY <1>3, <2>3, <2>4, WriteSure
  <2> QED BY <1>2, <1>3, <1>5, <2>5, <2>6, PoolEnough DEF k, j, rows2
<1> QED BY <1>7, <1>8

\* The metadata channel is written to the catalog.
LEMMA RecordMetaEnough ==
  ASSUME Gates, EnoughInv, NEW c \in Calls, RecordMeta(c)
  PROVE  EnoughInv'
<1> DEFINE k == call[c]
           j == call'[c]
<1>1. Typed /\ Ways
  BY DEF Gates
<1>2. Common(c)
  BY <1>1, WriteCommon DEF Write
<1>3. /\ UNCHANGED <<category, channel>> /\ k.at = "grow" /\ k \in JobSet /\ k.op # "upload"
      /\ j.meta = NoId
      /\ row' = row \/ \E r : row' = [row EXCEPT ![k.meta] = r] /\ k.meta # NoId
  <2>1. /\ UNCHANGED <<category, channel>> /\ k.op # "upload" /\ Recorded(c)
        /\ Ends(k, j, "done", {})
        /\ \/ row' = row
           \/ \E b \in BOOLEAN : row' = [row EXCEPT ![k.meta] =
                 [hook |-> NoHook, guild |-> b, meta |-> TRUE]] /\ k.meta # NoId
    BY <1>1, RecordMetaView
  <2>2. row' = row \/ \E r : row' = [row EXCEPT ![k.meta] = r] /\ k.meta # NoId
    BY <2>1
  <2>3. k.at = "grow" /\ j.meta = NoId
    BY <2>1 DEF Recorded, Synced, Grown, At, Ends
  <2> QED BY <1>1, <2>1, <2>2, <2>3, CallJob
<1>4. k.op # "clean"
  <2>1. JobWays(k)
    BY <1>1 DEF Ways
  <2> QED BY <1>3, <2>1 DEF JobWays, Outside
<1>5. Calm' => Stays(channel, category, row, channel', category', row')
  <2>1. CASE row' = row
    BY <1>3, <2>1, StandsStill
  <2>2. ASSUME NEW r, row' = [row EXCEPT ![k.meta] = r], k.meta # NoId, Calm'
        PROVE  Stays(channel, category, row, channel', category', row')
    <3>1. channel[k.meta] = Meta
      BY <1>2, <1>4, <2>2 DEF EnoughInv, MetaOwn, Calm, Common
    <3>2. Meta \notin CatIds
      BY MarksAssumption, PoolAssumption
    <3> DEFINE m == k.meta
    <3>3. \A y \in ChanIds : y # m => row'[y] = row[y]
      BY <1>1, <2>2 DEF Typed, Places
    <3>4. channel[m] = Meta
      BY <3>1
    <3> HIDE DEF m
    <3> QED BY <1>3, <3>2, <3>3, <3>4 DEF Stays
  <2> QED BY <1>3, <2>1, <2>2
<1>6. MetaOwn(j, channel')
  BY <1>3 DEF MetaOwn
<1> QED BY <1>2, <1>3, <1>5, <1>6, EnoughKept

\* The upload takes what it finds.
LEMMA TakePoolEnough ==
  ASSUME Gates, EnoughInv, NEW c \in Calls, TakePool(c)
  PROVE  EnoughInv'
<1> DEFINE k == call[c]
           j == call'[c]
<1>1. Typed /\ Ways
  BY DEF Gates
<1>2. Common(c)
  BY <1>1, WriteCommon DEF Write
<1>3. /\ UNCHANGED <<category, channel, row>> /\ Recorded(c) /\ k.op = "upload" /\ k \in JobSet
      /\ Ends(k, j, "done", StorageRows)
  BY <1>1, TakePoolView, CallJob
<1>4. k.at = "grow" /\ k.todo = {} /\ k.count >= Want(c) /\ Usable(c) = {} /\ Want(c) = k.want
  BY <1>3 DEF Recorded, Synced, Grown, At, Want
<1>5. j.meta = NoId /\ j.at = "done" /\ j.want = k.want /\ j.result = StorageRows
  BY <1>3 DEF Ends, KeepsAsk
<1>6. Stays(channel, category, row, channel', category', row')
  BY <1>3, StandsStill
<1>7. ASSUME Sure(k, channel, category, row) PROVE Sure(j, channel, category, row)
  <2>1. /\ k.count <= Cardinality(Secured(k, channel, row))
        /\ \A x \in DOMAIN k.items : x # NoId /\ k.items[x] # NoHook
    BY <1>4, <1>7 DEF Sure, Syncing
  <2>2. DOMAIN k.items = {}
    BY <1>4, <2>1 DEF Usable
  <2>3. Secured(k, channel, row) \subseteq StorageRows
    <3>1. \A x \in ChanIds : Stored(row[x]) => x \in StorageRows
      BY <1>1 DEF Stored, StorageRows, GuildRows, Typed, Places
    <3> QED BY <1>4, <2>2, <3>1 DEF Secured
  <2>4. IsFiniteSet(StorageRows)
    <3>1. IsFiniteSet(Places)
      BY PoolAssumption, FS_AddElement DEF Places
    <3>2. StorageRows \subseteq Places
      BY <1>1 DEF StorageRows, GuildRows, Typed
    <3> QED BY <3>1, <3>2, FS_Subset
  <2>5. /\ Cardinality(Secured(k, channel, row)) <= Cardinality(StorageRows)
        /\ IsFiniteSet(Secured(k, channel, row))
    BY <2>3, <2>4, FS_Subset
  <2>6. Cardinality(StorageRows) \in Nat /\ Cardinality(Secured(k, channel, row)) \in Nat
    BY <2>4, <2>5, FS_CardinalityType
  <2>7. k.want \in Nat /\ k.count \in Nat
    <3>1. k.want \in Wants /\ k.count \in Nat
      BY <1>3, JobIs
    <3> QED BY <3>1, PoolAssumption
  <2>8. k.want <= Cardinality(StorageRows)
    BY <1>4, <2>1, <2>5, <2>6, <2>7
  <2> QED BY <1>5, <2>8 DEF Sure, Syncing
<1> QED BY <1>2, <1>3, <1>5, <1>6, <1>7, PoolEnough

\* The two invariants together are inductive.
LEMMA EnoughInvariant == Spec => [](Gates /\ EnoughInv)
<1>1. Init => EnoughInv
  <2>1. ASSUME Init, NEW c \in Calls PROVE call[c].at = "idle" /\ call[c].meta = NoId
    BY <2>1, InitTyped DEF Ends
  <2>2. ASSUME Init, NEW c \in Calls
        PROVE  MetaOwn(call[c], channel) /\ Sure(call[c], channel, category, row)
    <3>1. call[c].at \notin Syncing \cup {"done"}
      BY <2>1, <2>2 DEF Syncing
    <3> QED BY <2>1, <2>2, <3>1, PromisesNothing DEF MetaOwn
  <2> QED BY <2>2 DEF EnoughInv
<1>2. Gates /\ EnoughInv /\ [Next]_vars => EnoughInv'
  <2> SUFFICES ASSUME Gates, EnoughInv, [Next]_vars PROVE EnoughInv'
    OBVIOUS
  <2>1. ASSUME NEW c \in Calls, Setup(c) PROVE EnoughInv'
    BY <2>1, EarlyEnough, PostMetaEnough DEF Setup
  <2>2. ASSUME NEW c \in Calls, Sync(c) PROVE EnoughInv'
    BY <2>2, EarlyEnough, ListEnough, FindEnough, PostCategoryEnough, PostChannelEnough, HookEnough,
       EnsureEnough DEF Sync
  <2>3. ASSUME NEW c \in Calls, Write(c) PROVE EnoughInv'
    BY <2>3, RecordEnough, RecordMetaEnough, TakePoolEnough DEF Write
  <2>4. ASSUME NEW c \in Calls, Clean(c) PROVE EnoughInv'
    BY <2>4, EarlyEnough, CleanEnough DEF Clean
  <2>5. CASE UNCHANGED vars
    BY <2>5 DEF vars, EnoughInv, Calm
  <2> QED BY <2>1, <2>2, <2>3, <2>4, <2>5 DEF Next
<1> QED BY <1>1, <1>2, GatesInvariant, PTL DEF Spec

\* EnoughChannels: an upload whose own requests were answered gets as many channels as
\* it wants, whatever failed before it and whoever else syncs the pool.
THEOREM UploadsGetChannels == Spec => []EnoughChannels
<1>1. Gates /\ EnoughInv => EnoughChannels
  <2> SUFFICES ASSUME Gates, EnoughInv, NEW c \in Calls, call[c].op = "upload", call[c].at = "done",
                      c \notin hit, Calm
               PROVE  Cardinality(call[c].result) >= call[c].want
    BY DEF EnoughChannels, Calm, At
  <2>1. call[c].want <= Cardinality(call[c].result)
    BY DEF EnoughInv, Sure
  <2>2. call[c].want \in Nat
    <3>1. call[c].want \in Wants
      BY CallJob, JobIs DEF Gates
    <3> QED BY <3>1, PoolAssumption
  <2>3. Cardinality(call[c].result) \in Nat
    <3>1. call[c].result \subseteq Places
      BY CallJob, JobIs DEF Gates
    <3>2. IsFiniteSet(Places)
      BY PoolAssumption, FS_AddElement DEF Places
    <3>3. IsFiniteSet(call[c].result)
      BY <3>1, <3>2, FS_Subset
    <3> QED BY <3>3, FS_CardinalityType
  <2> QED BY <2>1, <2>2, <2>3
<1> QED BY <1>1, EnoughInvariant, PTL
=============================================================================
