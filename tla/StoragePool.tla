------------------------------ MODULE StoragePool ------------------------------
(***************************************************************************)
(* The storage pool of one Discord server: SyncPool and the calls it is    *)
(* made of (internal/discord/pool.go, client.go), the handlers that run it *)
(* and write its result to the catalog (uploader.go, server.go,            *)
(* catalog.go), and the handler that removes the pool.                     *)
(*                                                                         *)
(* One step is one request to Discord or one statement of the catalog.     *)
(* Names of channels, bot tokens and pauses are left out; a category's     *)
(* name is its family (its base name) and its number.                      *)
(***************************************************************************)
EXTENDS Naturals, FiniteSets, FiniteSetsExt

CONSTANTS
  Calls,       (* calls of the handlers                                      *)
  Asks,        (* what each call may be, see Ops                             *)
  Cap,         (* MaxChannelsPerCategory                                     *)
  Target,      (* DefaultPoolTarget                                          *)
  Wants,       (* what poolDesired may ask for                               *)
  CatIds,      (* ids Discord gives to categories                            *)
  ChanIds,     (* ids Discord gives to channels                              *)
  MaxFaults,   (* bound: requests that fail                                  *)
  None, Gone,  (* not made yet; deleted                                      *)
  Root, Meta   (* outside every category; the metadata catalog               *)

Ops == {"upload", "boot", "setup", "auto", "backup", "clean"}

NoId   == 0                 \* the id of a channel nobody created
NoHook == 0                 \* the URL of a webhook nobody created
Families == {"files", "pinned"}
Rows   == [hook : Nat, guild : BOOLEAN, meta : BOOLEAN]

ASSUME PoolAssumption ==
  /\ IsFiniteSet(Calls) /\ Asks \in [Calls -> SUBSET Ops]
  /\ {Cap, Target} \subseteq Nat \ {0}
  /\ Wants # {} /\ Wants \subseteq Nat \ {0} /\ IsFiniteSet(Wants)
  /\ CatIds # {} /\ CatIds \subseteq Nat \ {0} /\ IsFiniteSet(CatIds)
  /\ ChanIds \subseteq Nat \ {0} /\ IsFiniteSet(ChanIds)
  /\ MaxFaults \in Nat

\* The marks are no numbers, no categories, no rows and not each other.
ASSUME MarksAssumption ==
  /\ {None, Gone, Root, Meta} \cap (Nat \cup (Families \X Nat) \cup Rows) = {}
  /\ None # Gone /\ Root # Meta /\ {None, Gone} \cap {Root, Meta} = {}

VARIABLES
  category,  \* Discord: <<family, number>> of each category
  channel,   \* Discord: the category of each channel, Root or Meta
  hooks,     \* Discord: how many webhooks a channel has
  row,       \* table channels
  pinned,    \* settings: the base category, if one is configured
  call,      \* local state of each call
  faults,    \* requests that failed
  hit,       \* (history) the calls whose requests failed
  spoiled    \* (history) what happened that no call can repair, see Spoilers

vars == <<category, channel, hooks, row, pinned, call, faults, hit, spoiled>>
discord == <<category, channel, hooks>>

Outside == {"idle", "lock", "done", "failed"}
Spoilers == {"overlap", "taken", "refused", "unheard"}

Empty == [x \in {} |-> 0]
At(c, st) == call[c].at = st
Set(c, k) == call' = [call EXCEPT ![c] = k]
Goto(c, st) == Set(c, [call[c] EXCEPT !.at = st])
Job(op, want, st, result) ==
  [op |-> op, want |-> want, at |-> st, cats |-> Empty, order |-> Empty, count |-> 0,
   new |-> NoId, todo |-> {}, items |-> Empty, meta |-> NoId, result |-> result]
End(c, st, result) == Set(c, Job(call[c].op, call[c].want, st, result))
Fail(c) == End(c, "failed", {})
With(f, k, v) == [x \in DOMAIN f \cup {k} |-> IF x = k THEN v ELSE f[x]]

Fault(c) == faults < MaxFaults /\ faults' = faults + 1 /\ hit' = hit \cup {c}
Fine == UNCHANGED <<faults, hit>>
Fresh(ids, f) == {i \in ids : f[i] = None /\ \A j \in ids : j < i => f[j] # None}

Cats == {k \in CatIds : category[k] \notin {None, Gone}}
Chans == {h \in ChanIds : channel[h] \notin {None, Gone}}
Metas == {h \in ChanIds : channel[h] = Meta}

-----------------------------------------------------------------------------
(***************************************************************************)
(* The catalog.                                                            *)
(***************************************************************************)
\* GetChannelsByGuild and GetStorageChannelsForGuild.
GuildRows == {h \in DOMAIN row : row[h] # None /\ row[h].guild}
StorageRows == {h \in GuildRows : ~row[h].meta}

\* Slip: a channel that has a row keeps it.
AddChannelOnce(h, hook, guild, meta) ==
  row' = [row EXCEPT ![h] = IF @ = None THEN [hook |-> hook, guild |-> guild, meta |-> meta] ELSE @]

\* AddChannelFull, AddChannelWithGuild and AddChannel, which knows no server.
AddChannel(h, hook, guild, meta) ==
  row' = [row EXCEPT ![h] = [hook |-> hook, guild |-> guild, meta |-> meta]]

-----------------------------------------------------------------------------
(***************************************************************************)
(* Who starts a call.                                                      *)
(***************************************************************************)
\* Two calls are in the pool at the same time.
Crowd(c) ==
  LET others == {call[d].op : d \in {d \in Calls \ {c} : call[d].at \notin Outside}}
      both == others \cup {call[c].op}
  IN IF others = {} \/ both = {"boot"} THEN {}
     ELSE {"overlap"} \cup (IF both \cap {"auto", "clean"} = {} THEN {} ELSE {"taken"})

Enter(c, st) ==
  /\ Goto(c, st) /\ spoiled' = spoiled \cup Crowd(c)

Idle(c, op) == At(c, "idle") /\ call[c].op = op
Quiet == UNCHANGED <<category, channel, hooks, row, pinned, faults, hit>>

\* UploadFile, when the server has fewer channels than poolDesired says.
BeginUpload(c) ==
  /\ Idle(c, "upload") /\ Cardinality(StorageRows) < call[c].want
  /\ Enter(c, "list") /\ Quiet

\* handleServerSetupChannels and handleAutoSetup.
BeginSetup(c) ==
  /\ Idle(c, "setup") \/ Idle(c, "auto")
  /\ Enter(c, "meta") /\ Quiet

\* catalog.Sync and Restore, when no metadata channel is known.
BeginBackup(c) ==
  /\ Idle(c, "backup") /\ ~\E h \in DOMAIN row : row[h] # None /\ row[h].meta
  /\ Enter(c, "meta") /\ Quiet

\* syncAllBotGuilds takes syncMu.
BeginBoot(c) ==
  /\ Idle(c, "boot") /\ Goto(c, "lock")
  /\ spoiled' = spoiled /\ Quiet

\* Slip: nobody waits for the other.
LockFreely(c) ==
  /\ At(c, "lock")
  /\ IF GuildRows = {} THEN Enter(c, "meta") ELSE End(c, "done", {}) /\ spoiled' = spoiled
  /\ Quiet

\* A server whose channels are known is left alone.
Lock(c) ==
  /\ At(c, "lock")
  /\ \A d \in Calls \ {c} : call[d].op = "boot" => call[d].at \in Outside
  /\ IF GuildRows = {} THEN Enter(c, "meta") ELSE End(c, "done", {}) /\ spoiled' = spoiled
  /\ Quiet

-----------------------------------------------------------------------------
(***************************************************************************)
(* SetupServer: the metadata channel, then the pool.                       *)
(***************************************************************************)
ListMeta(c) ==
  /\ At(c, "meta")
  /\ \/ /\ Metas = {} /\ Goto(c, "postmeta") /\ Fine
     \/ /\ \E h \in Metas : Set(c, [call[c] EXCEPT !.at = "list", !.meta = h])
        /\ Fine
     \/ Fail(c) /\ Fault(c)
  /\ UNCHANGED <<discord, row, pinned, spoiled>>

\* An answer that is lost or refuses leaves the setup without the channel.
PostMeta(c) ==
  /\ At(c, "postmeta")
  /\ \E h \in Fresh(ChanIds, channel) :
       \/ /\ channel' = [channel EXCEPT ![h] = Meta]
          /\ \/ Set(c, [call[c] EXCEPT !.at = "list", !.meta = h]) /\ Fine
             \/ Goto(c, "list") /\ Fault(c)
       \/ channel' = channel /\ Goto(c, "list") /\ Fault(c)
  /\ UNCHANGED <<category, hooks, row, pinned, spoiled>>

-----------------------------------------------------------------------------
(***************************************************************************)
(* SyncPool.                                                               *)
(***************************************************************************)
Want(c) == IF call[c].op = "upload" THEN call[c].want ELSE Target

\* SetupServerWithToken makes a client of its own, which knows no base category.
Base(c) == IF call[c].op = "setup" THEN None ELSE pinned
Family(c) == IF Base(c) = None THEN "files" ELSE "pinned"

\* buildManagedCategories: every category of the family, whatever its number.
Managed(c) == {k \in Cats : category[k][1] = Family(c)}
Listed(k) == Cardinality({h \in Chans : channel[h] = k})

\* The server's channels as one list.
List(c) ==
  /\ At(c, "list")
  /\ \/ Fail(c) /\ Fault(c)
     \/ /\ Base(c) # None /\ Base(c) \notin Cats
        /\ Fail(c) /\ Fine
     \/ /\ Base(c) # None => Base(c) \in Cats
        /\ Set(c, [call[c] EXCEPT
             !.cats = [k \in Managed(c) |-> Listed(k)],
             !.order = [k \in Managed(c) |-> category[k][2]],
             !.todo = {h \in Chans : channel[h] \in Managed(c)},
             !.count = Cardinality({h \in Chans : channel[h] \in Managed(c)}),
             !.at = "grow"])
        /\ Fine
  /\ UNCHANGED <<discord, row, pinned, spoiled>>

Room(c, k) == call[c].cats[k] < Cap

\* The first category with room, the base category first.
Before(c, j, k) == \/ call[c].order[j] < call[c].order[k]
                   \/ call[c].order[j] = call[c].order[k] /\ j < k
Filling(c) == {k \in DOMAIN call[c].cats :
                 /\ Room(c, k)
                 /\ \A j \in DOMAIN call[c].cats : Room(c, j) => ~Before(c, j, k)}

\* The loop: a base category, then channels, then overflow categories.
Numbers(c) == {call[c].order[k] : k \in DOMAIN call[c].order}
NeedsCategory(c) == 1 \notin Numbers(c) \/ (call[c].count < Want(c) /\ Filling(c) = {})
NextNumber(c) == IF 1 \notin Numbers(c) THEN 1 ELSE Max(Numbers(c)) + 1
NeedsChannel(c) == 1 \in Numbers(c) /\ call[c].count < Want(c)
Grown(c) == At(c, "grow") /\ 1 \in Numbers(c) /\ call[c].count >= Want(c)

Named(c) == {k \in Cats : category[k] = <<Family(c), NextNumber(c)>>}
Got(c, k) == Set(c, [call[c] EXCEPT !.at = "grow", !.cats = With(@, k, 0),
                                    !.order = With(@, k, NextNumber(c))])

\* FindOrCreateCategory: a list that fails is taken for an empty one.
FindCategory(c) ==
  /\ At(c, "grow") /\ NeedsCategory(c)
  /\ \/ \E k \in Named(c) : Got(c, k) /\ Fine
     \/ Named(c) = {} /\ Goto(c, "postcat") /\ Fine
     \/ Goto(c, "postcat") /\ Fault(c)
  /\ UNCHANGED <<discord, row, pinned, spoiled>>

PostCategory(c) ==
  /\ At(c, "postcat")
  /\ \E k \in Fresh(CatIds, category) :
       \/ /\ category' = [category EXCEPT ![k] = <<Family(c), NextNumber(c)>>]
          /\ \/ Got(c, k) /\ Fine
             \/ Fail(c) /\ Fault(c)
       \/ category' = category /\ Fail(c) /\ Fault(c)
  /\ UNCHANGED <<channel, hooks, row, pinned, spoiled>>

Refused(c) == spoiled' = spoiled \cup IF call[c].op = "setup" THEN {"refused"} ELSE {}

\* CreateChannel.  A status that refuses is not looked at, nor a body that does not
\* come: the channel counts, without an id.
PostChannel(c) ==
  /\ At(c, "grow") /\ NeedsChannel(c)
  /\ \E k \in Filling(c) :
       LET Took(h) == Set(c, [call[c] EXCEPT !.at = "posthook", !.new = h,
                                      !.cats = With(@, k, @[k] + 1), !.count = @ + 1])
       IN \/ \E h \in Fresh(ChanIds, channel) :
               /\ channel' = [channel EXCEPT ![h] = k]
               /\ k \in Cats
               /\ \/ Took(h) /\ Fine /\ spoiled' = spoiled
                  \/ Took(NoId) /\ Fault(c) /\ Refused(c)
                  \/ Fail(c) /\ Fault(c) /\ spoiled' = spoiled
          \/ /\ channel' = channel
             /\ \/ /\ IF k \in Cats THEN Fault(c) ELSE Fine
                   /\ Took(NoId) /\ Refused(c)
                \/ Fail(c) /\ Fault(c) /\ spoiled' = spoiled
  /\ UNCHANGED <<category, hooks, row, pinned>>

\* Channel h is listed with webhook w.
Item(c, h, w) ==
  Set(c, [call[c] EXCEPT !.items = With(@, h, w), !.todo = @ \ {h}, !.new = NoId, !.at = "grow"])

\* CreateWebhook for channel h, which may be no channel (any more); a status that
\* refuses and a body that does not come are not looked at either.  Lost is what
\* the caller does on an error.
PostHook(c, h, Lost) ==
  /\ \/ /\ h \in Chans /\ hooks' = [hooks EXCEPT ![h] = @ + 1]
        /\ \/ Item(c, h, hooks[h] + 1) /\ Fine /\ spoiled' = spoiled
           \/ Item(c, h, NoHook) /\ Fault(c) /\ Refused(c)
           \/ Lost /\ Fault(c) /\ spoiled' = spoiled
     \/ /\ hooks' = hooks
        /\ \/ Item(c, h, NoHook) /\ Refused(c) /\ (IF h \in Chans THEN Fault(c) ELSE Fine)
           \/ Lost /\ Fault(c) /\ spoiled' = spoiled
  /\ UNCHANGED <<category, channel, row, pinned>>

HookNew(c) == At(c, "posthook") /\ PostHook(c, call[c].new, Fail(c))

Skip(c, h) == Set(c, [call[c] EXCEPT !.todo = @ \ {h}, !.new = NoId, !.at = "grow"])

\* Slip: a webhook is made without a look at those there are.
EnsureBlind(c) ==
  /\ Grown(c) /\ call[c].todo # {}
  /\ Set(c, [call[c] EXCEPT !.new = Min(call[c].todo), !.at = "rehook"]) /\ Fine
  /\ UNCHANGED <<discord, row, pinned, spoiled>>

\* ensureSingleWebhook takes the first webhook there is; a channel whose webhooks
\* cannot be listed is skipped, but a list whose body does not come is taken for an
\* empty one.
Ensure(c) ==
  /\ Grown(c) /\ call[c].todo # {}
  /\ LET h == Min(call[c].todo)
     IN \/ /\ h \in Chans /\ hooks[h] > 0
           /\ \E w \in 1 .. hooks[h] : Item(c, h, w)
           /\ Fine /\ spoiled' = spoiled
        \/ /\ Set(c, [call[c] EXCEPT !.new = h, !.at = "rehook"])
           /\ \/ /\ h \in Chans => hooks[h] = 0
                 /\ Fine /\ spoiled' = spoiled
              \/ /\ h \in Chans /\ hooks[h] > 0
                 /\ Fault(c) /\ spoiled' = spoiled \cup {"unheard"}
        \/ Skip(c, h) /\ Fault(c) /\ spoiled' = spoiled
  /\ UNCHANGED <<discord, row, pinned>>

HookOld(c) == At(c, "rehook") /\ PostHook(c, call[c].new, Skip(c, call[c].new))

Synced(c) == Grown(c) /\ call[c].todo = {}

-----------------------------------------------------------------------------
(***************************************************************************)
(* What the handlers write.                                                *)
(***************************************************************************)
\* Channels without id or webhook are left out, but not by
\* handleServerSetupChannels.
Usable(c) == {h \in DOMAIN call[c].items :
                \/ call[c].op = "setup"
                \/ h # NoId /\ call[c].items[h] # NoHook}

\* handleAutoSetup names no server.
KnowsGuild(c) == call[c].op # "auto"

\* Slip: every channel gets the webhook of the first.
RecordMixed(c) ==
  /\ Synced(c) /\ call[c].op # "backup"
  /\ \E h \in Usable(c) :
       /\ AddChannel(h, call[c].items[Min(Usable(c))], KnowsGuild(c), FALSE)
       /\ Set(c, [call[c] EXCEPT !.items = [x \in DOMAIN @ \ {h} |-> @[x]]])
  /\ UNCHANGED <<discord, pinned, faults, hit, spoiled>>

Record(c) ==
  /\ Synced(c) /\ call[c].op # "backup"
  /\ \E h \in Usable(c) :
       /\ AddChannel(h, call[c].items[h], KnowsGuild(c), FALSE)
       /\ Set(c, [call[c] EXCEPT !.items = [x \in DOMAIN @ \ {h} |-> @[x]]])
  /\ UNCHANGED <<discord, pinned, faults, hit, spoiled>>

Recorded(c) == Synced(c) /\ (call[c].op = "backup" \/ Usable(c) = {})

\* The list an upload works with.
TakePool(c) ==
  /\ Recorded(c) /\ call[c].op = "upload"
  /\ End(c, "done", StorageRows)
  /\ UNCHANGED <<discord, row, pinned, faults, hit, spoiled>>

\* The metadata channel (which handleAutoSetup writes before the others);
\* syncAllBotGuilds and the setup of a server know the server.
RecordMeta(c) ==
  /\ Recorded(c) /\ call[c].op # "upload"
  /\ End(c, "done", {})
  /\ IF call[c].meta = NoId THEN row' = row
     ELSE AddChannel(call[c].meta, NoHook, call[c].op \in {"boot", "setup"}, TRUE)
  /\ UNCHANGED <<discord, pinned, faults, hit, spoiled>>

-----------------------------------------------------------------------------
(***************************************************************************)
(* handleCleanChannels and CleanExistingStorageChannels.                   *)
(***************************************************************************)
\* A list that fails is taken for an empty one.
BeginClean(c) ==
  /\ Idle(c, "clean")
  /\ spoiled' = spoiled \cup Crowd(c)
  /\ \/ /\ Set(c, [call[c] EXCEPT !.at = "wipe", !.todo = Chans \ Metas,
                                  !.order = [k \in Cats |-> 0]])
        /\ Fine
     \/ Goto(c, "forget") /\ Fault(c)
  /\ UNCHANGED <<discord, row, pinned>>

\* Channels first, then categories, whose remaining channels move to the root.
Wipe(c) ==
  /\ At(c, "wipe")
  /\ \/ /\ call[c].todo # {}
        /\ LET h == Min(call[c].todo)
           IN /\ Set(c, [call[c] EXCEPT !.todo = @ \ {h}])
              /\ \/ channel' = [channel EXCEPT ![h] = Gone] /\ Fine
                 \/ channel' = channel /\ Fault(c)
        /\ category' = category
     \/ /\ call[c].todo = {} /\ DOMAIN call[c].order # {}
        /\ LET k == Min(DOMAIN call[c].order)
           IN /\ Set(c, [call[c] EXCEPT !.order = [j \in DOMAIN @ \ {k} |-> 0]])
              /\ \/ /\ category' = [category EXCEPT ![k] = Gone]
                    /\ channel' = [h \in ChanIds |-> IF channel[h] = k THEN Root ELSE channel[h]]
                    /\ Fine
                 \/ UNCHANGED <<category, channel>> /\ Fault(c)
     \/ /\ call[c].todo = {} /\ DOMAIN call[c].order = {}
        /\ Goto(c, "forget") /\ Fine /\ UNCHANGED <<category, channel>>
  /\ UNCHANGED <<hooks, row, pinned, spoiled>>

\* ClearChannels.
Forget(c) ==
  /\ At(c, "forget") /\ End(c, "done", {})
  /\ row' = [h \in DOMAIN row |-> None]
  /\ UNCHANGED <<discord, pinned, faults, hit, spoiled>>

-----------------------------------------------------------------------------
\* A new server, with or without a configured base category that an operator made.
Init ==
  /\ pinned \in {None, Min(CatIds)}
  /\ category = [k \in CatIds |-> IF k = pinned THEN <<"pinned", 1>> ELSE None]
  /\ channel = [h \in ChanIds |-> None] /\ hooks = [h \in ChanIds |-> 0]
  /\ row = [h \in ChanIds \cup {NoId} |-> None]
  /\ \E op \in [Calls -> Ops], want \in [Calls -> Wants] :
       /\ \A c \in Calls : op[c] \in Asks[c]
       /\ \A c \in Calls : op[c] # "upload" => want[c] = Min(Wants)
       /\ call = [c \in Calls |-> Job(op[c], want[c], "idle", {})]
  /\ faults = 0 /\ hit = {} /\ spoiled = {}

Setup(c) == BeginSetup(c) \/ BeginBackup(c) \/ BeginBoot(c) \/ Lock(c) \/ ListMeta(c) \/ PostMeta(c)
Sync(c) == \/ BeginUpload(c) \/ List(c) \/ FindCategory(c) \/ PostCategory(c) \/ PostChannel(c)
           \/ HookNew(c) \/ Ensure(c) \/ HookOld(c)
Write(c) == Record(c) \/ TakePool(c) \/ RecordMeta(c)
Clean(c) == BeginClean(c) \/ Wipe(c) \/ Forget(c)

Next == \E c \in Calls : Setup(c) \/ Sync(c) \/ Write(c) \/ Clean(c)

Spec == Init /\ [][Next]_vars
-----------------------------------------------------------------------------
(***************************************************************************)
(* Properties.                                                             *)
(***************************************************************************)
\* Discord, the catalog and the calls have the shape the code gives them, and one
\* call at a time is past syncMu.
TypeOK ==
  /\ \A k \in CatIds : category[k] \in {None, Gone} \cup (Families \X Nat)
  /\ \A h \in ChanIds : channel[h] \in {None, Gone, Root, Meta} \cup CatIds
  /\ hooks \in [ChanIds -> Nat]
  /\ \A h \in DOMAIN row : row[h] \in Rows \cup {None}
  /\ pinned \in CatIds \cup {None} 
  /\ faults \in 0 .. MaxFaults /\ hit \subseteq Calls /\ spoiled \subseteq Spoilers
  /\ \A c \in Calls : /\ call[c].op \in Asks[c]
                      /\ DOMAIN call[c].cats \subseteq CatIds
                      /\ DOMAIN call[c].items \subseteq ChanIds \cup {NoId}
  /\ Cardinality({c \in Calls : call[c].op = "boot" /\ call[c].at \notin Outside}) <= 1

\* Nothing is made twice: as long as calls do not overlap, whatever requests fail
\* and however often the pool is synced, a channel has at most one webhook, a
\* category name is used once and holds no more than Cap channels, there is one
\* metadata channel, and the pool is not larger than somebody asked for.  Calls of
\* syncAllBotGuilds may overlap.  (One lost answer does make a second webhook: a
\* list of webhooks that is answered 200 and whose body does not come.)
MadeOnce ==
  "overlap" \notin spoiled =>
    /\ "unheard" \notin spoiled => \A h \in Chans : hooks[h] <= 1
    /\ \A j, k \in Cats : category[j] = category[k] => j = k
    /\ \A k \in Cats : Listed(k) <= Cap
    /\ Cardinality(Metas) <= 1
    /\ \A f \in Families : Cardinality({h \in Chans : channel[h] \in Cats /\ category[channel[h]][1] = f})
                             <= Max(Wants \cup {Target})

\* A row of the catalog names a channel's own webhook, which exists: an upload that
\* takes the row can post there.  (A cleaning that is under way or overlapped, and
\* a setup that stores what it could not create, are the exceptions.)
RowsUsable ==
  /\ spoiled \cap {"taken", "refused"} = {}
  /\ ~\E c \in Calls : call[c].op = "clean" /\ call[c].at \notin Outside
  =>
    \A h \in StorageRows : /\ h \in Chans
                           /\ row[h].hook \in 1 .. hooks[h]

\* An upload whose own requests were answered gets as many channels as it wants,
\* whatever failed before it and whoever else syncs the pool.  (A setup that names
\* no server, and a cleaning, take channels away.)
EnoughChannels ==
  \A c \in Calls :
    /\ call[c].op = "upload" /\ At(c, "done") /\ c \notin hit /\ "taken" \notin spoiled
    => Cardinality(call[c].result) >= call[c].want
=============================================================================
