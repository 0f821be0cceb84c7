------------------------------- MODULE MasterKey -------------------------------
(***************************************************************************)
(* The master key: the salt and hash kept in the settings, the three       *)
(* engines that hold the derived key in memory, and the browser sessions.  *)
(* The boot of cmd/app/main.go, and the handlers of internal/server that   *)
(* unlock the drive, sign in, set or replace the password, and lock.       *)
(*                                                                         *)
(* A step is one statement of the settings table or one assignment to an   *)
(* engine.  A key is its password and salt, and stands for its hash as     *)
(* well: derivation and hash are taken to be free of collisions.  The      *)
(* lifetime of sessions and API tokens are left out; a caller that needs   *)
(* authority has it.                                                       *)
(***************************************************************************)
EXTENDS Naturals, FiniteSets

CONSTANTS
  Handlers,       (* requests to the server                                  *)
  Asks,           (* what each request may be, see Ops                       *)
  Passwords,      (* passwords people type                                   *)
  SigninPassword, (* SIGNIN_PASSWORD, or None                                *)
  BootPasswords,  (* values of MASTER_PASSWORD, None for unset               *)
  MaxSalts,       (* bound: salts generated                                  *)
  MaxStops,       (* bound: times the process stops                          *)
  MaxFaults,      (* bound: statements without an answer                     *)
  Boot,           (* the start of the process                                *)
  None

Ops == {"unlock", "set_password", "settings", "lock"}

Salts == 1 .. MaxSalts
Keys  == Passwords \X Salts

ASSUME KeyAssumption ==
  /\ IsFiniteSet(Handlers) /\ Asks \in [Handlers -> SUBSET Ops] /\ Boot \notin Handlers \cup Ops
  /\ BootPasswords \subseteq Passwords \cup {None}
  /\ None \notin Passwords \cup Salts \cup Keys
  /\ SigninPassword \in Passwords \cup {None}
  /\ {MaxSalts, MaxStops, MaxFaults} \subseteq Nat

VARIABLES
  salt, hash,  \* settings: master_salt_hex and master_pass_hash
  salts,       \* salts generated so far
  up,          \* the server takes requests
  keys,        \* keys of uploader, downloader and catalog manager, in the order they are set
  sessions,    \* browser sessions: who got one, and the key of that moment
  req,         \* local state of the requests and of the boot
  job,         \* the key of the upload that runs
  sealed,      \* keys of the parts on Discord
  stops, faults,
  spoiled      \* (history) what no later step repairs, see Spoilers

stored == <<salt, hash, salts>>
memory == <<up, keys, sessions, job>>
vars == <<salt, hash, salts, up, keys, sessions, req, job, sealed, stops, faults, spoiled>>

Stages == {"idle", "hash", "salt", "newsalt", "newhash", "keys", "session", "done"}
Spoilers == {"race", "torn", "misread", "replaced", "kept"}
Locked == [i \in 1 .. 3 |-> None]   \* no engine has a key

Blank == [op |-> None, at |-> "idle", pw |-> None, salt |-> None, hash |-> None, n |-> 0]
At(h, st) == req[h].at = st
Set(h, k) == req' = [req EXCEPT ![h] = k]
Goto(h, st) == Set(h, [req[h] EXCEPT !.at = st])
End(h) == Set(h, [Blank EXCEPT !.op = req[h].op, !.at = "done"])
Active == {h \in DOMAIN req : req[h].at \notin {"idle", "done"}}
Spoil(what) == spoiled' = spoiled \cup what
Key(h) == <<req[h].pw, req[h].salt>>     \* DeriveKey
Replaces(h) == req[h].op \in {"set_password", "settings"}
Fine == faults' = faults
Fault == faults < MaxFaults /\ faults' = faults + 1

-----------------------------------------------------------------------------
(***************************************************************************)
(* Reading the settings.                                                   *)
(***************************************************************************)
\* Requests that may write while another one has read: any with a replacement, and
\* two before there is a password.
Crowd(op) ==
  IF \E g \in Active : hash = None \/ Replaces(g) \/ op \in {"set_password", "settings"}
  THEN {"race"} ELSE {}

Begin(h, op, pw) ==
  /\ up /\ At(h, "idle") /\ op \in Asks[h] \ {"lock"}
  /\ Set(h, [Blank EXCEPT !.op = op, !.pw = pw, !.at = IF op = "settings" THEN "salt" ELSE "hash"])
  /\ Spoil(Crowd(op))
  /\ UNCHANGED <<stored, memory, sealed, stops, faults>>

\* GetSetting: an error is taken for a value that is not set.
Read(value, seen) == \/ seen = value /\ Fine /\ Spoil({})
                     \/ seen = None /\ value # None /\ Fault /\ Spoil({"misread"})

ReadHash(h) ==
  /\ At(h, "hash")
  /\ \E v \in {hash, None} : Read(hash, v) /\ Set(h, [req[h] EXCEPT !.hash = v, !.at = "salt"])
  /\ UNCHANGED <<stored, memory, sealed, stops>>

\* A sign-in password needs no key, once there is one.
SignsIn(h) == req[h].op = "unlock" /\ req[h].pw = SigninPassword /\ keys[1] # None

NewSalt(h, st) ==
  /\ salts < MaxSalts /\ salts' = salts + 1
  /\ Set(h, [req[h] EXCEPT !.salt = salts + 1, !.at = st])

\* Slip: the salt that was read is not used.
TakeSaltNever(h, v) == NewSalt(h, "newsalt")

\* Slip: the first password is not remembered.
TakeSaltForget(h, v) ==
  IF v = None THEN NewSalt(h, "newsalt")
  ELSE /\ salts' = salts
       /\ IF req[h].hash \notin {None, <<req[h].pw, v>>} THEN End(h)
          ELSE Set(h, [req[h] EXCEPT !.salt = v, !.at = "keys"])

\* What is done with the salt that was read, or none.
TakeSalt(h, v) ==
  IF v = None THEN NewSalt(h, "newsalt")
  ELSE /\ salts' = salts
       /\ IF req[h].hash \notin {None, <<req[h].pw, v>>} THEN End(h)   \* incorrect password
          ELSE Set(h, [req[h] EXCEPT !.salt = v,
                         !.at = IF req[h].hash = None THEN "newhash" ELSE "keys"])

UnlockSalt(h) ==
  /\ At(h, "salt") /\ req[h].op = "unlock"
  /\ \E v \in {salt, None} :
       /\ Read(salt, v)
       /\ IF SignsIn(h) THEN Goto(h, "session") /\ salts' = salts ELSE TakeSalt(h, v)
  /\ UNCHANGED <<salt, hash, memory, sealed, stops>>

\* A replacement always makes a new salt.
ReplaceSalt(h) ==
  /\ At(h, "salt") /\ Replaces(h)
  /\ NewSalt(h, "newsalt") /\ Fine
  /\ Spoil(IF hash = None THEN {} ELSE {"replaced"})
  /\ UNCHANGED <<salt, hash, memory, sealed, stops>>

\* main.go reads all settings at once; with a password it unlocks headlessly.
BootRead(pw) ==
  /\ ~up /\ At(Boot, "idle")
  /\ \/ /\ pw = None /\ up' = TRUE /\ Fine /\ Spoil({})
        /\ UNCHANGED <<req, salts>>
     \/ /\ pw # None /\ up' = up
        /\ \E s \in {salt, None} :
             /\ Read(salt, s)
             /\ LET k == [Blank EXCEPT !.op = Boot, !.pw = pw, !.hash = IF s = salt THEN hash ELSE None]
                IN IF s = None
                     THEN /\ salts < MaxSalts /\ salts' = salts + 1
                          /\ Set(Boot, [k EXCEPT !.salt = salts + 1, !.at = "newsalt"])
                     ELSE /\ salts' = salts
                          /\ k.hash \in {None, <<pw, s>>}               \* else log.Fatalf
                          /\ Set(Boot, [k EXCEPT !.salt = s,
                                          !.at = IF k.hash = None THEN "newhash" ELSE "keys"])
  /\ UNCHANGED <<salt, hash, keys, sessions, job, sealed, stops>>

-----------------------------------------------------------------------------
(***************************************************************************)
(* Writing the settings.                                                   *)
(***************************************************************************)
\* An error ends a request; main.go and handleSettings do not look at it.
Careless(h) == req[h].op \in {Boot, "settings"}

\* SetSetting takes effect or not, and is answered or not: what is answered took effect.
SetSetting(done, told) == (told => done) /\ (IF told THEN Fine ELSE Fault)

\* The request is over when the password does not match the hash it read.  An error
\* of handleAuthSetPassword's salt leaves the old hash, whether or not the salt is new.
StoreSalt(h) ==
  /\ At(h, "newsalt")
  /\ \E done, told \in BOOLEAN :
       /\ SetSetting(done, told)
       /\ salt' = (IF done THEN req[h].salt ELSE salt) /\ hash' = hash
       /\ IF told \/ Careless(h)
          THEN IF ~Replaces(h) /\ req[h].hash \notin {None, Key(h)} THEN End(h)
               ELSE Goto(h, "newhash")
          ELSE End(h)
       /\ Spoil(IF ~told /\ (IF Careless(h) THEN ~done ELSE done /\ Replaces(h))
                THEN {"torn"} ELSE {})
  /\ UNCHANGED <<salts, memory, sealed, stops>>

\* Without an answer handleAuthSetPassword gives no engine the key, stored or not.
StoreHash(h) ==
  /\ At(h, "newhash")
  /\ \E done, told \in BOOLEAN :
       /\ SetSetting(done, told)
       /\ hash' = (IF done THEN Key(h) ELSE hash) /\ salt' = salt
       /\ IF told \/ Careless(h) THEN Goto(h, "keys") ELSE End(h)
       /\ Spoil(IF ~told /\ (IF Careless(h) THEN ~done ELSE Replaces(h))
                THEN {"torn"} ELSE {})
  /\ UNCHANGED <<salts, memory, sealed, stops>>

-----------------------------------------------------------------------------
(***************************************************************************)
(* Handing the key to the engines, and the session to the browser.         *)
(***************************************************************************)
\* Slip: the catalog manager is forgotten.
SetKeyTwo(h) ==
  /\ At(h, "keys") /\ h # Boot
  /\ keys' = [keys EXCEPT ![req[h].n + 1] = Key(h)]
  /\ Set(h, [req[h] EXCEPT !.n = @ + 1, !.at = IF req[h].n = 1 THEN "session" ELSE "keys"])
  /\ UNCHANGED <<stored, up, sessions, job, sealed, stops, faults, spoiled>>

\* SetMasterKey of one engine after the other.
SetKey(h) ==
  /\ At(h, "keys") /\ h # Boot
  /\ keys' = [keys EXCEPT ![req[h].n + 1] = Key(h)]
  /\ Set(h, [req[h] EXCEPT !.n = @ + 1, !.at = IF req[h].n = 2 THEN "session" ELSE "keys"])
  /\ UNCHANGED <<stored, up, sessions, job, sealed, stops, faults, spoiled>>

\* The engines are made with the key.
BootKeys ==
  /\ At(Boot, "keys")
  /\ keys' = [i \in 1 .. 3 |-> Key(Boot)] /\ up' = TRUE
  /\ Set(Boot, Blank)
  /\ UNCHANGED <<stored, sessions, job, sealed, stops, faults, spoiled>>

\* Slip: the others keep their sessions.
IssueOnly(h) ==
  /\ At(h, "session") /\ End(h)
  /\ sessions' = IF req[h].op = "settings" THEN sessions ELSE sessions \cup {<<h, keys[1]>>}
  /\ Spoil(IF req[h].op = "settings" THEN {"kept"} ELSE {})
  /\ UNCHANGED <<stored, up, keys, job, sealed, stops, faults>>

\* issueSession; handleAuthSetPassword drops all others first, handleSettings
\* neither drops nor issues any.
Issue(h) ==
  /\ At(h, "session") /\ End(h)
  /\ sessions' = CASE req[h].op = "unlock"       -> sessions \cup {<<h, keys[1]>>}
                   [] req[h].op = "set_password" -> {<<h, keys[1]>>}
                   [] req[h].op = "settings"     -> sessions
  /\ Spoil(IF req[h].op = "settings" THEN {"kept"} ELSE {})
  /\ UNCHANGED <<stored, up, keys, job, sealed, stops, faults>>

\* handleAuthLock drops one session; the engines keep the key.
Lock(h, s) ==
  /\ up /\ At(h, "idle") /\ "lock" \in Asks[h]
  /\ sessions' = sessions \ {s}
  /\ Set(h, [Blank EXCEPT !.op = "lock", !.at = "done"])
  /\ UNCHANGED <<stored, up, keys, job, sealed, stops, faults, spoiled>>

-----------------------------------------------------------------------------
(***************************************************************************)
(* The world around: uploads seal parts, the process stops.                *)
(***************************************************************************)
\* UploadFile reads the key once.
StartUpload ==
  /\ up /\ keys[1] # None /\ job = None
  /\ job' = keys[1]
  /\ UNCHANGED <<stored, up, keys, sessions, req, sealed, stops, faults, spoiled>>

StorePart ==
  /\ job # None /\ sealed' = sealed \cup {job} /\ job' = None
  /\ UNCHANGED <<stored, up, keys, sessions, req, stops, faults, spoiled>>

Halfway(h) == Replaces(h) /\ At(h, "newhash")
Stop ==
  /\ stops < MaxStops /\ stops' = stops + 1
  /\ up \/ ~At(Boot, "idle")
  /\ up' = FALSE /\ keys' = Locked /\ sessions' = {} /\ job' = None
  /\ req' = [h \in DOMAIN req |-> IF h = Boot THEN Blank
                                  ELSE IF At(h, "idle") THEN req[h]
                                  ELSE [Blank EXCEPT !.op = req[h].op, !.at = "done"]]
  /\ Spoil(IF \E h \in Handlers : Halfway(h) THEN {"torn"} ELSE {})
  /\ UNCHANGED <<stored, sealed, faults>>

Init ==
  /\ salt = None /\ hash = None /\ salts = 0 /\ up = FALSE /\ keys = Locked
  /\ sessions = {} /\ job = None /\ sealed = {} /\ stops = 0 /\ faults = 0 /\ spoiled = {}
  /\ req = [h \in Handlers \cup {Boot} |-> Blank]

Next ==
  \/ \E h \in Handlers :
       \/ \E op \in Ops, pw \in Passwords : Begin(h, op, pw)
       \/ ReadHash(h) \/ UnlockSalt(h) \/ ReplaceSalt(h) \/ SetKey(h) \/ Issue(h)
       \/ \E s \in sessions : Lock(h, s)
  \/ \E pw \in BootPasswords : BootRead(pw)
  \/ BootKeys
  \/ \E h \in Handlers \cup {Boot} : StoreSalt(h) \/ StoreHash(h)
  \/ StartUpload \/ StorePart \/ Stop

Spec == Init /\ [][Next]_vars
-----------------------------------------------------------------------------
(***************************************************************************)
(* Properties.                                                             *)
(***************************************************************************)
Whole == spoiled \cap {"race", "torn", "misread"} = {}

\* Settings, engines and requests have the shape the code gives them.
TypeOK ==
  /\ salt \in Salts \cup {None} /\ hash \in Keys \cup {None} /\ salts \in 0 .. MaxSalts
  /\ up \in BOOLEAN /\ keys \in [1 .. 3 -> Keys \cup {None}]
  /\ sessions \subseteq (Handlers \X Keys) /\ job \in Keys \cup {None}
  /\ sealed \subseteq Keys /\ stops \in 0 .. MaxStops /\ faults \in 0 .. MaxFaults
  /\ spoiled \subseteq Spoilers
  /\ \A h \in DOMAIN req : req[h].at \in Stages /\ req[h].n \in 0 .. 3

\* Some password opens the drive: the stored hash is of a key made with the stored
\* salt, whatever was begun, cut off by a stop or refused.
Unlockable ==
  /\ Whole
  /\ ~\E h \in Active : Halfway(h)
  /\ hash # None
  => hash[2] = salt

\* Once no request is under way the engines hold the same key, which is the key of
\* the stored hash: what the uploader seals the downloader opens.
EnginesAgree ==
  /\ Whole
  /\ Active = {}
  => /\ keys[1] = keys[2] /\ keys[2] = keys[3]
     /\ keys[1] \in {None, hash}

\* The parts on Discord are sealed under the key that the password leads to, after
\* any number of stops, boots, wrong passwords and sign-ins, as long as nobody
\* replaces the password.
PartsOpen == Whole /\ "replaced" \notin spoiled => sealed \subseteq {hash}

\* After a password is replaced no session of an earlier key is left
\* (handleSettings, which replaces it too, is the exception).
SessionsCurrent ==
  Whole /\ Active = {} /\ "kept" \notin spoiled => \A s \in sessions : s[2] = hash
=============================================================================
