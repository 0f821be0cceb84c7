----------------------------- MODULE DiscordClient -----------------------------
(***************************************************************************)
(* The calls of internal/discord that are retried and share rate limits:   *)
(* UploadChunk, AttachmentURL, DownloadChunk, DeleteMessage and            *)
(* DeleteChannel, for one channel with one webhook, and Discord's answers  *)
(* to them.                                                                *)
(*                                                                         *)
(* A time is what is left of it: Tick takes one unit off every sleep and   *)
(* every block.  How long a unit is, and the jitter, are left out.         *)
(***************************************************************************)
EXTENDS Naturals, FiniteSets

CONSTANTS
  Calls,       (* calls made                                                 *)
  Asks,        (* what each call may be, see Ops                             *)
  MaxRetries,  (* attempts of a call                                         *)
  MaxWait,     (* bound: longest wait Discord asks for                       *)
  MaxCancels,  (* bound: contexts that are cancelled                         *)
  None

Ops  == {"upload", "url", "download", "delete", "drop"}
Keys == {"global", "webhook", "channel"}

ASSUME ClientAssumption ==
  /\ Asks \in [Calls -> SUBSET Ops] /\ IsFiniteSet(Calls) /\ None \notin Calls \cup Ops
  /\ MaxRetries \in Nat \ {0} /\ MaxWait \in Nat \ {0} /\ MaxCancels \in Nat

Messages == (Calls \cup {None}) \X (0 .. MaxRetries)
Stored   == <<None, 0>>    \* a message of earlier days
NoMessage == <<None, 1>>

VARIABLES
  blocked,   \* blockedTo of the limiters: how much longer
  call,      \* local state of each call
  open,      \* the channel exists
  discord,   \* messages in the channel
  posted,    \* (history) messages that were ever in the channel
  announced  \* (history) how much longer Discord wants each limiter to be silent

vars == <<blocked, call, open, discord, posted, announced>>

Stages == {"idle", "loop", "global", "key", "ready", "sent", "ok", "notfound", "failed"}
Ended  == {"ok", "notfound", "failed"}

Higher(a, b) == IF a > b THEN a ELSE b
At(c, st) == call[c].at = st
Set(c, k) == call' = [call EXCEPT ![c] = k]
End(c, st) == Set(c, [call[c] EXCEPT !.at = st, !.due = 0])

\* limiterKey: an upload goes through the webhook, all else through the channel.
Key(c) == IF call[c].op = "upload" THEN "webhook" ELSE "channel"

-----------------------------------------------------------------------------
(***************************************************************************)
(* The limiters.                                                           *)
(***************************************************************************)
\* Slip: the last answer wins, however short its wait.
BlockLast(k, d) == blocked' = [blocked EXCEPT ![k] = d]

\* RateLimitTracker.Block: a block never ends earlier than it already would.
Block(k, d) == blocked' = [blocked EXCEPT ![k] = Higher(@, d)]

\* RateLimitTracker.Wait reads the end of the block once and sleeps until then;
\* a block that comes during the sleep is not seen.
Wait(c, k, next) ==
  Set(c, [call[c] EXCEPT !.sleep = blocked[k], !.at = next])

-----------------------------------------------------------------------------
(***************************************************************************)
(* One attempt after the other.                                            *)
(***************************************************************************)
\* A caller knows the messages the catalog names: older ones, and results.
Start(c, op, m) ==
  /\ At(c, "idle")
  /\ m \in {Stored} \cup {call[d].result : d \in {e \in Calls : call[e].op = "upload"
                                                    /\ At(e, "ok")}}
  /\ Set(c, [call[c] EXCEPT !.op = op, !.at = "loop", !.target = m])
  /\ UNCHANGED <<blocked, open, discord, posted, announced>>

Cancel(c) ==
  /\ call[c].at \notin {"idle"} \cup Ended /\ ~call[c].cancelled
  /\ Cardinality({d \in Calls : call[d].cancelled}) < MaxCancels
  /\ Set(c, [call[c] EXCEPT !.cancelled = TRUE])
  /\ UNCHANGED <<blocked, open, discord, posted, announced>>

\* Every attempt has been made.
OutOfAttempts(c) == call[c].attempt = MaxRetries

\* The head of the loop; DownloadChunk asks no limiter.
Loop(c) ==
  /\ At(c, "loop") /\ call[c].sleep = 0
  /\ IF call[c].cancelled \/ OutOfAttempts(c) THEN End(c, "failed")
     ELSE IF call[c].op = "download" THEN Set(c, [call[c] EXCEPT !.at = "ready"])
     ELSE Set(c, [call[c] EXCEPT !.at = "global",
                    !.due = Higher(announced["global"], announced[Key(c)])])
  /\ UNCHANGED <<blocked, open, discord, posted, announced>>

WaitGlobal(c) ==
  /\ At(c, "global")
  /\ Wait(c, "global", "key")
  /\ UNCHANGED <<blocked, open, discord, posted, announced>>

WaitKey(c) ==
  /\ At(c, "key") /\ call[c].sleep = 0
  /\ Wait(c, Key(c), "ready")
  /\ UNCHANGED <<blocked, open, discord, posted, announced>>

Again(c, d) == Set(c, [call[c] EXCEPT !.at = "loop", !.attempt = @ + 1,
                                      !.sleep = d, !.due = 0])

\* httpClient.Do, which sends nothing when the context is cancelled.
Send(c) ==
  /\ At(c, "ready") /\ call[c].sleep = 0
  /\ IF call[c].cancelled THEN Again(c, 1) ELSE Set(c, [call[c] EXCEPT !.at = "sent"])
  /\ UNCHANGED <<blocked, open, discord, posted, announced>>

-----------------------------------------------------------------------------
(***************************************************************************)
(* Discord's answer.                                                       *)
(***************************************************************************)
Mine(c) == <<c, call[c].attempt>>

\* What Discord does with the request it takes.
Effect(c) ==
  /\ open' = (open /\ call[c].op # "drop")
  /\ discord' = CASE call[c].op = "upload" -> IF open THEN discord \cup {Mine(c)} ELSE discord
                  [] call[c].op = "delete" -> discord \ {call[c].target}
                  [] call[c].op = "drop"   -> {}
                  [] OTHER                 -> discord
  /\ posted' = posted \cup discord'
NoEffect == UNCHANGED <<open, discord, posted>>

\* Slip: what was not refused is taken for done.
RetryIsDone(c) ==
  /\ At(c, "sent")
  /\ (Effect(c) \/ NoEffect)
  /\ IF call[c].op = "delete" THEN End(c, "ok") ELSE Again(c, 1)
  /\ UNCHANGED <<blocked, announced>>

\* No answer, or a status of 500 and more: nobody knows whether it was done.
Retry(c) ==
  /\ At(c, "sent")
  /\ (Effect(c) \/ NoEffect)
  /\ Again(c, 1)
  /\ UNCHANGED <<blocked, announced>>

\* Slip: an attempt that was turned away does not count.
LimitedFree(c, k, d) ==
  /\ At(c, "sent") /\ k \in {"global", Key(c)}
  /\ Block(k, d)
  /\ announced' = [announced EXCEPT ![k] = Higher(@, d)]
  /\ Set(c, [call[c] EXCEPT !.at = "loop", !.sleep = d, !.due = 0])
  /\ NoEffect

\* Status 429: the limiter, or all of them, are blocked and the call sleeps as
\* long.  DownloadChunk tells no limiter.
Limited(c, k, d) ==
  /\ At(c, "sent") /\ k \in {"global", Key(c)}
  /\ IF call[c].op = "download" THEN UNCHANGED <<blocked, announced>>
     ELSE /\ Block(k, d)
          /\ announced' = [announced EXCEPT ![k] = Higher(@, d)]
  /\ Again(c, d)
  /\ NoEffect

\* Any other status ends the call.
Refused(c) ==
  /\ At(c, "sent") /\ End(c, "failed")
  /\ NoEffect /\ UNCHANGED <<blocked, announced>>

\* A status of 200 to 299 for an upload; the answer must name an attachment.
Uploaded(c) ==
  /\ At(c, "sent") /\ call[c].op = "upload" /\ open
  /\ Effect(c)
  /\ \/ Set(c, [call[c] EXCEPT !.at = "ok", !.due = 0, !.result = Mine(c)])
     \/ End(c, "failed")
  /\ UNCHANGED <<blocked, announced>>

\* AttachmentURL: the message is there or it is not.
Found(c) ==
  /\ At(c, "sent") /\ call[c].op = "url"
  /\ End(c, IF call[c].target \in discord THEN "ok" ELSE "notfound")
  /\ NoEffect /\ UNCHANGED <<blocked, announced>>

\* DownloadChunk: the bytes arrive, or the body breaks off.
Downloaded(c) ==
  /\ At(c, "sent") /\ call[c].op = "download" /\ call[c].target \in discord
  /\ End(c, "ok") \/ End(c, "failed")
  /\ NoEffect /\ UNCHANGED <<blocked, announced>>

\* DeleteMessage: a message that is not found (404) was deleted before.
MessageDeleted(c) ==
  /\ At(c, "sent") /\ call[c].op = "delete"
  /\ Effect(c) /\ End(c, "ok")
  /\ UNCHANGED <<blocked, announced>>

\* DeleteChannel, likewise.
ChannelDeleted(c) ==
  /\ At(c, "sent") /\ call[c].op = "drop"
  /\ Effect(c) /\ End(c, "ok")
  /\ UNCHANGED <<blocked, announced>>

-----------------------------------------------------------------------------
Less(n) == IF n = 0 THEN 0 ELSE n - 1

Tick ==
  /\ blocked' = [k \in Keys |-> Less(blocked[k])]
  /\ announced' = [k \in Keys |-> Less(announced[k])]
  /\ call' = [c \in Calls |-> [call[c] EXCEPT !.sleep = Less(@), !.due = Less(@)]]
  /\ UNCHANGED <<open, discord, posted>>

Init ==
  /\ blocked = [k \in Keys |-> 0] /\ announced = [k \in Keys |-> 0]
  /\ call = [c \in Calls |-> [op |-> None, at |-> "idle", attempt |-> 0, sleep |-> 0,
               due |-> 0, target |-> Stored, result |-> NoMessage, cancelled |-> FALSE]]
  /\ open = TRUE /\ discord = {Stored} /\ posted = {Stored}

Step(c) == Loop(c) \/ WaitGlobal(c) \/ WaitKey(c) \/ Send(c)

Answer(c) ==
  \/ Retry(c) \/ Refused(c)
  \/ \E k \in Keys, d \in 1 .. MaxWait : Limited(c, k, d)
  \/ Uploaded(c) \/ Found(c) \/ Downloaded(c) \/ MessageDeleted(c) \/ ChannelDeleted(c)

Next ==
  \/ \E c \in Calls : \/ \E op \in Asks[c], m \in Messages : Start(c, op, m)
                      \/ Cancel(c) \/ Step(c) \/ Answer(c)
  \/ Tick

Spec == Init /\ [][Next]_vars

\* Goroutines run, sleeps end, and http.Client gives up on an answer after its
\* Timeout of 60 seconds.
FairSpec == /\ Spec /\ WF_vars(Tick)
            /\ \A c \in Calls : WF_vars(Step(c)) /\ WF_vars(Answer(c))
-----------------------------------------------------------------------------
(***************************************************************************)
(* Properties.                                                             *)
(***************************************************************************)

\* Limiters and calls have the shape the code gives them; in particular a call
\* makes no more than MaxRetries attempts.
TypeOK ==
  /\ blocked \in [Keys -> 0 .. MaxWait] /\ announced \in [Keys -> 0 .. MaxWait]
  /\ \A c \in Calls :
       /\ call[c].op \in Ops \cup {None} /\ call[c].at \in Stages
       /\ call[c].attempt \in 0 .. MaxRetries
       /\ call[c].sleep \in 0 .. Higher(MaxWait, 1) /\ call[c].due \in 0 .. MaxWait
       /\ call[c].target \in Messages /\ call[c].result \in Messages
  /\ open \in BOOLEAN /\ discord \subseteq posted /\ posted \subseteq Messages

\* The waits Discord has asked for, of any call, before an attempt began to wait
\* are over when the attempt is sent.
Patient == \A c \in Calls : At(c, "sent") => call[c].due = 0

\* Calls still under way, or done, that may have taken message m away.
Removers(m) == {c \in Calls : \/ call[c].op = "drop"
                              \/ call[c].op = "delete" /\ call[c].target = m}

\* What a call reports is true for good, whatever was lost and retried: the
\* message an upload names is there until somebody removes it; a message or
\* channel reported deleted does not come back; one reported missing was removed.
OutcomeHonest ==
  \A c \in Calls :
    /\ call[c].op = "upload" /\ At(c, "ok") =>
         /\ call[c].result \in posted
         /\ call[c].result \in discord \/ Removers(call[c].result) # {}
    /\ call[c].op = "delete" /\ At(c, "ok") => call[c].target \notin discord
    /\ call[c].op = "drop" /\ At(c, "ok") => discord = {}
    /\ At(c, "notfound") => call[c].target \notin discord /\ Removers(call[c].target) # {}

\* Every call ends: no sequence of answers keeps it going.
CallEnds == \A c \in Calls : At(c, "loop") ~> call[c].at \in Ended
=============================================================================
