------------------------------- MODULE KeyProofs -------------------------------
(***************************************************************************)
(* Proofs about MasterKey: its types, that some password always opens the  *)
(* drive, that the three engines agree, that the parts on Discord can be   *)
(* opened and that no session outlives its key, for any number of          *)
(* requests, passwords, salts and stops.                                   *)
(***************************************************************************)
EXTENDS MasterKey, TLAPS

Askers == Handlers \cup {Boot}

ReqState == [op : Ops \cup {None, Boot}, at : Stages, pw : Passwords \cup {None},
             salt : Salts \cup {None}, hash : Keys \cup {None}, n : 0 .. 3]

\* What is known of a request from where it stands.
ReqOK(h) ==
  /\ req[h] \in ReqState
  /\ h = Boot => /\ req[h].at \in {"idle", "newsalt", "newhash", "keys", "done"}
                 /\ req[h].at # "idle" => req[h].op = Boot
  /\ h \in Handlers /\ req[h].at \notin {"idle", "done"} =>
       req[h].pw \in Passwords /\ req[h].op \in {"unlock", "set_password", "settings"}
  /\ req[h].at \in {"newsalt", "newhash", "keys"} => Key(h) \in Keys /\ req[h].salt \in Salts
  /\ req[h].at \notin {"keys", "session"} => req[h].n = 0
  /\ req[h].at = "keys" => req[h].n \in 0 .. 2 /\ (req[h].n > 0 => keys[1] \in Keys)
  /\ req[h].at = "session" => keys[1] \in Keys

\* The server takes requests only when the boot is over.
Typed ==
  /\ TypeOK
  /\ req \in [Askers -> ReqState]
  /\ \A h \in Askers : ReqOK(h)
  /\ up => req[Boot].at = "idle"
  /\ ~up => \A h \in Handlers : req[h].at \in {"idle", "done"}

\* A request that has not begun, or is over.
LEMMA BlankIs ==
  ASSUME NEW op \in Ops \cup {None, Boot}
  PROVE  /\ Blank \in ReqState /\ [Blank EXCEPT !.op = op, !.at = "done"] \in ReqState
         /\ Blank.at = "idle" /\ Blank.n = 0
         /\ [Blank EXCEPT !.op = op, !.at = "done"].at = "done"
         /\ [Blank EXCEPT !.op = op, !.at = "done"].n = 0
         /\ [Blank EXCEPT !.op = op, !.at = "done"].op = op
<1>1. /\ Blank \in ReqState /\ Blank.at = "idle" /\ Blank.n = 0
      /\ "done" \in Stages
  BY DEF Blank, ReqState, Stages
<1>. QED
  BY <1>1 DEF ReqState

\* A set of req[h] touches no other request.
LEMMA SetIs ==
  ASSUME Typed, NEW h \in Askers, NEW k \in ReqState, Set(h, k)
  PROVE  /\ req' \in [Askers -> ReqState] /\ req'[h] = k
         /\ \A g \in Askers \ {h} : req'[g] = req[g]
BY DEF Typed, Set

\* A request that goes on to another stage.
LEMMA GotoIs ==
  ASSUME Typed, NEW h \in Askers, NEW st \in Stages, Goto(h, st)
  PROVE  /\ req' \in [Askers -> ReqState]
         /\ \A g \in Askers \ {h} : req'[g] = req[g]
         /\ req'[h].at = st /\ req'[h].op = req[h].op /\ req'[h].pw = req[h].pw
         /\ req'[h].salt = req[h].salt /\ req'[h].hash = req[h].hash /\ req'[h].n = req[h].n
<1>. DEFINE k == [req[h] EXCEPT !.at = st]
<1>1. req[h] \in ReqState
  BY DEF Typed
<1>2. /\ k \in ReqState /\ k.at = st /\ k.op = req[h].op /\ k.pw = req[h].pw
      /\ k.salt = req[h].salt /\ k.hash = req[h].hash /\ k.n = req[h].n
  BY <1>1 DEF ReqState
<1>3. Set(h, k)
  BY DEF Goto
<1>. HIDE DEF k
<1>. QED
  BY <1>2, <1>3, SetIs

\* A request that ends.
LEMMA EndIs ==
  ASSUME Typed, NEW h \in Askers, End(h)
  PROVE  /\ req' \in [Askers -> ReqState]
         /\ \A g \in Askers \ {h} : req'[g] = req[g]
         /\ req'[h].at = "done" /\ req'[h].n = 0 /\ req'[h].op = req[h].op
<1>. DEFINE k == [Blank EXCEPT !.op = req[h].op, !.at = "done"]
<1>1. req[h].op \in Ops \cup {None, Boot}
  BY DEF Typed, ReqState
<1>2. k \in ReqState /\ k.at = "done" /\ k.n = 0 /\ k.op = req[h].op
  BY <1>1, BlankIs
<1>3. Set(h, k)
  BY DEF End
<1>. HIDE DEF k
<1>. QED
  BY <1>2, <1>3, SetIs

\* A request that takes a salt and goes on.
LEMMA SaltedIs ==
  ASSUME Typed, NEW h \in Askers, NEW s \in Salts, NEW st \in Stages,
         Set(h, [req[h] EXCEPT !.salt = s, !.at = st])
  PROVE  /\ req' \in [Askers -> ReqState]
         /\ \A g \in Askers \ {h} : req'[g] = req[g]
         /\ req'[h].at = st /\ req'[h].op = req[h].op /\ req'[h].pw = req[h].pw
         /\ req'[h].salt = s /\ req'[h].hash = req[h].hash /\ req'[h].n = req[h].n
<1>. DEFINE k == [req[h] EXCEPT !.salt = s, !.at = st]
<1>1. req[h] \in ReqState
  BY DEF Typed
<1>2. /\ k \in ReqState /\ k.at = st /\ k.op = req[h].op /\ k.pw = req[h].pw
      /\ k.salt = s /\ k.hash = req[h].hash /\ k.n = req[h].n
  BY <1>1 DEF ReqState
<1>. HIDE DEF k
<1>3. Set(h, k)
  BY DEF k
<1>. QED
  BY <1>2, <1>3, SetIs

\* A request that generates a salt.
LEMMA NewSaltIs ==
  ASSUME Typed, NEW h \in Askers, NewSalt(h, "newsalt")
  PROVE  /\ req' \in [Askers -> ReqState] /\ salts' \in 0 .. MaxSalts
         /\ \A g \in Askers \ {h} : req'[g] = req[g]
         /\ req'[h].at = "newsalt" /\ req'[h].op = req[h].op /\ req'[h].pw = req[h].pw
         /\ req'[h].salt \in Salts /\ req'[h].hash = req[h].hash /\ req'[h].n = req[h].n
<1>1. MaxSalts \in Nat /\ salts \in 0 .. MaxSalts /\ "newsalt" \in Stages
  BY KeyAssumption DEF Typed, TypeOK, Stages
<1>2. salts + 1 \in Salts /\ salts' = salts + 1
  BY <1>1 DEF NewSalt, Salts
<1>. DEFINE s == salts + 1
<1>. HIDE DEF s
<1>3. s \in Salts /\ Set(h, [req[h] EXCEPT !.salt = s, !.at = "newsalt"])
  BY <1>2 DEF s, NewSalt
<1>4. salts' \in 0 .. MaxSalts
  BY <1>2 DEF Salts
<1>5. /\ req' \in [Askers -> ReqState]
      /\ \A g \in Askers \ {h} : req'[g] = req[g]
      /\ req'[h].at = "newsalt" /\ req'[h].op = req[h].op /\ req'[h].pw = req[h].pw
      /\ req'[h].salt = s /\ req'[h].hash = req[h].hash /\ req'[h].n = req[h].n
  BY <1>1, <1>3, SaltedIs
<1>. QED
  BY <1>3, <1>4, <1>5

\* What TakeSalt makes of a request: the end, or the next stage with a salt.
LEMMA TakeSaltIs ==
  ASSUME Typed, NEW h \in Handlers, NEW v \in Salts \cup {None}, At(h, "salt"), TakeSalt(h, v)
  PROVE  /\ req' \in [Askers -> ReqState] /\ salts' \in 0 .. MaxSalts
         /\ \A g \in Askers \ {h} : req'[g] = req[g]
         /\ \/ req'[h].at = "done" /\ req'[h].n = 0
            \/ /\ req'[h].at \in {"newsalt", "newhash", "keys"} /\ req'[h].salt \in Salts
               /\ req'[h].op = req[h].op /\ req'[h].pw = req[h].pw
               /\ req'[h].hash = req[h].hash /\ req'[h].n = req[h].n
               /\ req'[h].at = "newsalt" => v = None
               /\ req'[h].at # "newsalt" => req'[h].salt = v /\ v # None
               /\ req'[h].at = "newhash" => req[h].hash = None
               /\ req'[h].at = "keys" => req[h].hash = Key(h)' /\ req[h].hash # None
<1>0. /\ h \in Askers /\ salts \in 0 .. MaxSalts /\ MaxSalts \in Nat
      /\ {"newsalt", "newhash", "keys"} \subseteq Stages
  BY KeyAssumption DEF Askers, Typed, TypeOK, Stages
<1>1. CASE NewSalt(h, "newsalt") /\ v = None
  BY <1>0, <1>1, NewSaltIs
<1>2. CASE End(h) /\ salts' = salts
  BY <1>0, <1>2, EndIs
<1>3. CASE /\ v # None /\ salts' = salts /\ req[h].hash \in {None, <<req[h].pw, v>>}
           /\ Set(h, [req[h] EXCEPT !.salt = v,
                        !.at = IF req[h].hash = None THEN "newhash" ELSE "keys"])
  <2>. DEFINE st == IF req[h].hash = None THEN "newhash" ELSE "keys"
  <2>1. v \in Salts /\ st \in Stages /\ Set(h, [req[h] EXCEPT !.salt = v, !.at = st])
    BY <1>0, <1>3
  <2>2. (st = "newhash" /\ req[h].hash = None) \/ (st = "keys" /\ req[h].hash # None)
    OBVIOUS
  <2>. HIDE DEF st
  <2>. QED
    BY <1>0, <1>3, <2>1, <2>2, SaltedIs DEF Key
<1>. QED
  BY <1>1, <1>2, <1>3 DEF TakeSalt

-----------------------------------------------------------------------------
(***************************************************************************)
(* Types.                                                                  *)
(***************************************************************************)
\* A request that is left alone stays as it is while the uploader keeps a key.
LEMMA ReqStays ==
  ASSUME NEW h \in Askers, ReqOK(h), req'[h] = req[h], keys[1] \in Keys => keys'[1] \in Keys
  PROVE  ReqOK(h)'
BY DEF ReqOK, Key

\* The boot with a password: the salt and hash it goes on with.
LEMMA BootReadIs ==
  ASSUME Typed, NEW pw \in Passwords, BootRead(pw)
  PROVE  /\ req' \in [Askers -> ReqState] /\ salts' \in 0 .. MaxSalts /\ up' = up
         /\ \A g \in Askers \ {Boot} : req'[g] = req[g]
         /\ req'[Boot].at \in {"newsalt", "newhash", "keys"} /\ req'[Boot].op = Boot
         /\ req'[Boot].pw = pw /\ req'[Boot].salt \in Salts /\ req'[Boot].n = 0
         /\ faults' \in 0 .. MaxFaults /\ spoiled \subseteq spoiled' /\ spoiled' \subseteq Spoilers
         /\ "misread" \notin spoiled' =>
              /\ req'[Boot].hash = hash
              /\ req'[Boot].at = "newsalt" => salt = None
              /\ req'[Boot].at # "newsalt" => req'[Boot].salt = salt
              /\ req'[Boot].at = "newhash" => hash = None
              /\ req'[Boot].at = "keys" => hash = Key(Boot)' /\ hash # None
<1>0. /\ Boot \in Askers /\ salts \in 0 .. MaxSalts /\ MaxSalts \in Nat /\ MaxFaults \in Nat
      /\ salt \in Salts \cup {None} /\ hash \in Keys \cup {None} /\ pw # None
      /\ faults \in 0 .. MaxFaults /\ spoiled \subseteq Spoilers
      /\ "idle" \in Stages /\ {"newsalt", "newhash", "keys"} \subseteq Stages
  BY KeyAssumption DEF Askers, Typed, TypeOK, Stages
<1>1. PICK s \in {salt, None} :
        /\ Read(salt, s) /\ up' = up
        /\ LET k == [Blank EXCEPT !.op = Boot, !.pw = pw, !.hash = IF s = salt THEN hash ELSE None]
           IN IF s = None
                THEN /\ salts < MaxSalts /\ salts' = salts + 1
                     /\ Set(Boot, [k EXCEPT !.salt = salts + 1, !.at = "newsalt"])
                ELSE /\ salts' = salts
                     /\ k.hash \in {None, <<pw, s>>}
                     /\ Set(Boot, [k EXCEPT !.salt = s,
                                     !.at = IF k.hash = None THEN "newhash" ELSE "keys"])
  BY <1>0 DEF BootRead
<1>. DEFINE hs == IF s = salt THEN hash ELSE None
            k == [Blank EXCEPT !.op = Boot, !.pw = pw, !.hash = hs]
<1>2. /\ faults' \in 0 .. MaxFaults /\ spoiled \subseteq spoiled' /\ spoiled' \subseteq Spoilers
      /\ "misread" \notin spoiled' => s = salt
  BY <1>0, <1>1 DEF Read, Fine, Fault, Spoil, Spoilers
<1>3. hs \in Keys \cup {None} /\ (s = salt => hs = hash)
  BY <1>0
<1>. HIDE DEF hs
<1>4. k \in ReqState /\ k.op = Boot /\ k.pw = pw /\ k.hash = hs /\ k.n = 0
  <2>1. Blank \in ReqState /\ Blank.n = 0
    BY BlankIs
  <2>2. Boot \in Ops \cup {None, Boot} /\ pw \in Passwords \cup {None}
    OBVIOUS
  <2>. QED
    BY <1>3, <2>1, <2>2 DEF ReqState
<1>5. \A st \in Stages, t \in Salts :
        LET j == [k EXCEPT !.salt = t, !.at = st]
        IN  /\ j \in ReqState /\ j.op = Boot /\ j.pw = pw /\ j.hash = hs /\ j.n = 0
            /\ j.salt = t /\ j.at = st
  BY <1>4 DEF ReqState
<1>6. PICK t \in Salts, st \in {"newsalt", "newhash", "keys"} :
        /\ Set(Boot, [k EXCEPT !.salt = t, !.at = st]) /\ salts' \in 0 .. MaxSalts
        /\ st = "newsalt" => s = None
        /\ st # "newsalt" => t = s
        /\ st = "newhash" => hs = None
        /\ st = "keys" => hs = <<pw, t>> /\ hs # None
  <2>1. CASE s = None
    <3>1. salts + 1 \in Salts /\ salts' = salts + 1 /\ Set(Boot, [k EXCEPT !.salt = salts + 1, !.at = "newsalt"])
      BY <1>0, <1>1, <2>1 DEF hs, Salts
    <3>2. salts' \in 0 .. MaxSalts
      BY <3>1 DEF Salts
    <3>. DEFINE t == salts + 1
    <3>3. t \in Salts /\ Set(Boot, [k EXCEPT !.salt = t, !.at = "newsalt"])
      BY <3>1
    <3>. HIDE DEF t, k
    <3>. QED
      BY <2>1, <3>2, <3>3
  <2>2. CASE s # None
    <3>1. /\ salts' = salts /\ hs \in {None, <<pw, s>>} /\ s \in Salts
          /\ Set(Boot, [k EXCEPT !.salt = s, !.at = IF hs = None THEN "newhash" ELSE "keys"])
      BY <1>0, <1>1, <1>4, <2>2 DEF hs
    <3>. HIDE DEF k
    <3>. QED
      BY <1>0, <2>2, <3>1
  <2>. QED
    BY <2>1, <2>2
<1>. DEFINE j == [k EXCEPT !.salt = t, !.at = st]
<1>7. /\ j \in ReqState /\ j.op = Boot /\ j.pw = pw /\ j.hash = hs /\ j.n = 0
      /\ j.salt = t /\ j.at = st /\ Set(Boot, j)
  <2>1. st \in Stages
    BY <1>0, <1>6
  <2>2. Set(Boot, j)
    BY <1>6
  <2>. HIDE DEF k
  <2>. QED
    BY <1>5, <2>1, <2>2
<1>. HIDE DEF j, k
<1>8. req' \in [Askers -> ReqState] /\ req'[Boot] = j /\ \A g \in Askers \ {Boot} : req'[g] = req[g]
  BY <1>0, <1>7, SetIs
<1>. QED
  BY <1>1, <1>2, <1>3, <1>6, <1>7, <1>8 DEF Key

\* The state apart from the requests.
Plain ==
  /\ salt \in Salts \cup {None} /\ hash \in Keys \cup {None} /\ salts \in 0 .. MaxSalts
  /\ up \in BOOLEAN /\ keys \in [1 .. 3 -> Keys \cup {None}]
  /\ sessions \subseteq (Handlers \X Keys) /\ job \in Keys \cup {None}
  /\ sealed \subseteq Keys /\ stops \in 0 .. MaxStops /\ faults \in 0 .. MaxFaults
  /\ spoiled \subseteq Spoilers

\* A step of one request keeps the types if it keeps those of the request.
LEMMA HandlerTyped ==
  ASSUME Typed, NEW h \in Handlers, up, up' = up, Plain', ReqOK(h)',
         req' \in [Askers -> ReqState], \A g \in Askers \ {h} : req'[g] = req[g],
         keys[1] \in Keys => keys'[1] \in Keys
  PROVE  Typed'
<1>1. h \in Askers /\ Boot \in Askers /\ h # Boot
  BY KeyAssumption DEF Askers
<1>2. \A g \in Askers : ReqOK(g)'
  <2>. TAKE g \in Askers
  <2>1. CASE g = h
    BY <2>1
  <2>2. CASE g # h
    BY <2>2, ReqStays DEF Typed
  <2>. QED
    BY <2>1, <2>2
<1>3. TypeOK'
  BY DEF Plain, TypeOK, ReqState
<1>. QED
  BY <1>1, <1>2, <1>3 DEF Typed

\* A step of the boot does, too.
LEMMA BootTyped ==
  ASSUME Typed, ~up, Plain', ReqOK(Boot)', up' => req'[Boot].at = "idle",
         req' \in [Askers -> ReqState], \A g \in Askers \ {Boot} : req'[g] = req[g],
         keys[1] \in Keys => keys'[1] \in Keys
  PROVE  Typed'
<1>1. Boot \in Askers /\ Boot \notin Handlers /\ Handlers \subseteq Askers
  BY KeyAssumption DEF Askers
<1>2. \A g \in Askers : ReqOK(g)'
  <2>. TAKE g \in Askers
  <2>1. CASE g = Boot
    BY <2>1
  <2>2. CASE g # Boot
    BY <2>2, ReqStays DEF Typed
  <2>. QED
    BY <2>1, <2>2
<1>3. TypeOK'
  BY DEF Plain, TypeOK, ReqState
<1>. QED
  BY <1>1, <1>2, <1>3 DEF Typed

\* A request under way: the server is up, and the request is what it says.
LEMMA UnderWay ==
  ASSUME Typed, NEW h \in Handlers, req[h].at \notin {"idle", "done"}
  PROVE  /\ up /\ h \in Askers /\ req[h] \in ReqState /\ ReqOK(h) /\ h # Boot
         /\ req[h].pw \in Passwords /\ req[h].op \in {"unlock", "set_password", "settings"}
BY KeyAssumption DEF Typed, ReqOK, Askers

\* A statement of the settings leaves the rest of the state its type.
LEMMA PlainStays ==
  ASSUME Typed, salt' \in Salts \cup {None}, hash' \in Keys \cup {None}, salts' \in 0 .. MaxSalts,
         UNCHANGED <<memory, sealed, stops>>, faults' \in 0 .. MaxFaults, spoiled' \subseteq Spoilers
  PROVE  Plain'
BY DEF Typed, TypeOK, Plain, memory

\* The bookkeeping of faults and spoilers has its type.
LEMMA ReadIs ==
  ASSUME Typed, NEW value, NEW seen, Read(value, seen)
  PROVE  /\ faults' \in 0 .. MaxFaults /\ spoiled' \subseteq Spoilers /\ spoiled \subseteq spoiled'
         /\ "misread" \notin spoiled' => seen = value
         /\ seen # value => seen = None
<1>1. MaxFaults \in Nat /\ faults \in 0 .. MaxFaults /\ spoiled \subseteq Spoilers
  BY KeyAssumption DEF Typed, TypeOK
<1>2. CASE seen = value /\ Fine /\ Spoil({})
  BY <1>1, <1>2 DEF Fine, Spoil
<1>3. CASE seen = None /\ Fault /\ Spoil({"misread"})
  BY <1>1, <1>3 DEF Fault, Spoil, Spoilers
<1>. QED
  BY <1>2, <1>3 DEF Read

\* A request begins with a password and an operation it may ask for.
LEMMA BeginTyped ==
  ASSUME Typed, NEW h \in Handlers, NEW op \in Ops, NEW pw \in Passwords, Begin(h, op, pw)
  PROVE  Typed'
<1>. DEFINE k == [Blank EXCEPT !.op = op, !.pw = pw, !.at = IF op = "settings" THEN "salt" ELSE "hash"]
<1>1. h \in Askers /\ up /\ Set(h, k) /\ op # "lock" /\ h # Boot
  BY KeyAssumption DEF Begin, Askers
<1>2. Blank \in ReqState /\ Blank.n = 0
  BY BlankIs
<1>3. op \in {"unlock", "set_password", "settings"} /\ {"salt", "hash"} \subseteq Stages
  BY <1>1 DEF Ops, Stages
<1>4. k \in ReqState /\ k.op = op /\ k.pw = pw /\ k.at \in {"salt", "hash"} /\ k.n = 0
  BY <1>2, <1>3 DEF ReqState
<1>. HIDE DEF k
<1>5. req' \in [Askers -> ReqState] /\ req'[h] = k /\ \A g \in Askers \ {h} : req'[g] = req[g]
  BY <1>1, <1>4, SetIs
<1>6. ReqOK(h)'
  BY <1>1, <1>3, <1>4, <1>5 DEF ReqOK
<1>7. Plain' /\ up' = up /\ keys' = keys
  BY DEF Begin, Typed, TypeOK, Plain, memory, stored, Spoil, Crowd, Spoilers
<1>. QED
  BY <1>1, <1>5, <1>6, <1>7, HandlerTyped

\* A request reads the stored hash, or takes an error for none.
LEMMA ReadHashTyped ==
  ASSUME Typed, NEW h \in Handlers, ReadHash(h)
  PROVE  Typed'
<1>1. PICK v \in {hash, None} : Read(hash, v) /\ Set(h, [req[h] EXCEPT !.hash = v, !.at = "salt"])
  BY DEF ReadHash
<1>2. /\ up /\ h \in Askers /\ req[h] \in ReqState /\ ReqOK(h) /\ h # Boot
      /\ req[h].pw \in Passwords /\ req[h].op \in {"unlock", "set_password", "settings"}
      /\ req[h].at = "hash" /\ req[h].n = 0
  BY UnderWay DEF ReadHash, At, ReqOK
<1>. DEFINE k == [req[h] EXCEPT !.hash = v, !.at = "salt"]
<1>3. v \in Keys \cup {None} /\ "salt" \in Stages
  BY DEF Typed, TypeOK, Stages
<1>4. k \in ReqState /\ k.op = req[h].op /\ k.pw = req[h].pw /\ k.at = "salt" /\ k.n = 0
  BY <1>2, <1>3 DEF ReqState
<1>5. Set(h, k)
  BY <1>1
<1>. HIDE DEF k
<1>6. req' \in [Askers -> ReqState] /\ req'[h] = k /\ \A g \in Askers \ {h} : req'[g] = req[g]
  BY <1>2, <1>4, <1>5, SetIs
<1>7. ReqOK(h)'
  BY <1>2, <1>4, <1>6 DEF ReqOK
<1>8. faults' \in 0 .. MaxFaults /\ spoiled' \subseteq Spoilers
  BY <1>1, ReadIs
<1>9. Plain' /\ up' = up /\ keys' = keys
  BY <1>8, PlainStays DEF ReadHash, Typed, TypeOK, memory, stored
<1>. QED
  BY <1>2, <1>6, <1>7, <1>9, HandlerTyped

\* An unlock reads the salt and signs in, goes on, or is refused.
LEMMA UnlockSaltTyped ==
  ASSUME Typed, NEW h \in Handlers, UnlockSalt(h)
  PROVE  Typed'
<1>1. PICK v \in {salt, None} :
        /\ Read(salt, v)
        /\ IF SignsIn(h) THEN Goto(h, "session") /\ salts' = salts ELSE TakeSalt(h, v)
  BY DEF UnlockSalt
<1>2. /\ up /\ h \in Askers /\ req[h] \in ReqState /\ ReqOK(h) /\ h # Boot
      /\ req[h].pw \in Passwords /\ req[h].op \in {"unlock", "set_password", "settings"}
      /\ At(h, "salt") /\ req[h].n = 0
  BY UnderWay DEF UnlockSalt, At, ReqOK
<1>3. v \in Salts \cup {None} /\ "session" \in Stages /\ keys \in [1 .. 3 -> Keys \cup {None}]
      /\ salts \in 0 .. MaxSalts
  BY DEF Typed, TypeOK, Stages
<1>4. faults' \in 0 .. MaxFaults /\ spoiled' \subseteq Spoilers /\ keys' = keys /\ up' = up
  BY <1>1, ReadIs DEF UnlockSalt, memory
<1>5. /\ req' \in [Askers -> ReqState] /\ \A g \in Askers \ {h} : req'[g] = req[g]
      /\ salts' \in 0 .. MaxSalts /\ ReqOK(h)'
  <2>1. CASE SignsIn(h)
    <3>1. /\ req' \in [Askers -> ReqState] /\ \A g \in Askers \ {h} : req'[g] = req[g]
          /\ req'[h].at = "session" /\ req'[h].op = req[h].op /\ req'[h].pw = req[h].pw
      BY <1>1, <1>2, <1>3, <2>1, GotoIs
    <3>2. keys'[1] \in Keys
      BY <1>3, <1>4, <2>1 DEF SignsIn
    <3>. QED
      BY <1>1, <1>2, <1>3, <2>1, <3>1, <3>2 DEF ReqOK
  <2>2. CASE ~SignsIn(h)
    <3>1. /\ req' \in [Askers -> ReqState] /\ salts' \in 0 .. MaxSalts
          /\ \A g \in Askers \ {h} : req'[g] = req[g]
          /\ \/ req'[h].at = "done" /\ req'[h].n = 0
             \/ /\ req'[h].at \in {"newsalt", "newhash", "keys"} /\ req'[h].salt \in Salts
                /\ req'[h].op = req[h].op /\ req'[h].pw = req[h].pw /\ req'[h].n = req[h].n
      BY <1>1, <1>2, <1>3, <2>2, TakeSaltIs
    <3>. QED
      BY <1>2, <3>1 DEF ReqOK, Key, Keys
  <2>. QED
    BY <2>1, <2>2
<1>6. Plain'
  BY <1>4, <1>5, PlainStays DEF UnlockSalt, Typed, TypeOK
<1>. QED
  BY <1>2, <1>4, <1>5, <1>6, HandlerTyped

\* A replacement generates a salt.
LEMMA ReplaceSaltTyped ==
  ASSUME Typed, NEW h \in Handlers, ReplaceSalt(h)
  PROVE  Typed'
<1>1. /\ up /\ h \in Askers /\ req[h] \in ReqState /\ ReqOK(h) /\ h # Boot
      /\ req[h].pw \in Passwords /\ req[h].op \in {"unlock", "set_password", "settings"}
      /\ At(h, "salt") /\ req[h].n = 0
  BY UnderWay DEF ReplaceSalt, At, ReqOK
<1>2. /\ req' \in [Askers -> ReqState] /\ salts' \in 0 .. MaxSalts
      /\ \A g \in Askers \ {h} : req'[g] = req[g]
      /\ req'[h].at = "newsalt" /\ req'[h].op = req[h].op /\ req'[h].pw = req[h].pw
      /\ req'[h].salt \in Salts /\ req'[h].n = req[h].n
  BY <1>1, NewSaltIs DEF ReplaceSalt
<1>3. ReqOK(h)'
  BY <1>1, <1>2 DEF ReqOK, Key, Keys
<1>4. Plain' /\ up' = up /\ keys' = keys
  <2>1. faults' \in 0 .. MaxFaults /\ spoiled' \subseteq Spoilers
    BY DEF ReplaceSalt, Fine, Spoil, Spoilers, Typed, TypeOK
  <2>2. UNCHANGED <<salt, hash, memory, sealed, stops>>
    BY DEF ReplaceSalt
  <2>. QED
    BY <1>2, <2>1, <2>2, PlainStays DEF memory, Typed, TypeOK
<1>. QED
  BY <1>1, <1>2, <1>3, <1>4, HandlerTyped

\* The boot reads the settings, with a password or without.
LEMMA BootReadTyped ==
  ASSUME Typed, NEW pw \in BootPasswords, BootRead(pw)
  PROVE  Typed'
<1>1. ~up /\ req[Boot].at = "idle" /\ Boot \in Askers
  BY DEF BootRead, At, Askers
<1>2. UNCHANGED <<salt, hash, keys, sessions, job, sealed, stops>>
  BY DEF BootRead
<1>3. CASE pw = None
  <2>1. up' = TRUE /\ UNCHANGED <<req, salts, faults>> /\ spoiled' = spoiled
    BY <1>3 DEF BootRead, Fine, Spoil
  <2>. QED
    BY <1>1, <1>2, <2>1 DEF Typed, TypeOK, ReqOK, Key
<1>4. CASE pw # None
  <2>1. pw \in Passwords
    BY <1>4, KeyAssumption
  <2>2. /\ req' \in [Askers -> ReqState] /\ salts' \in 0 .. MaxSalts /\ up' = up
        /\ \A g \in Askers \ {Boot} : req'[g] = req[g]
        /\ req'[Boot].at \in {"newsalt", "newhash", "keys"} /\ req'[Boot].op = Boot
        /\ req'[Boot].pw = pw /\ req'[Boot].salt \in Salts /\ req'[Boot].n = 0
        /\ faults' \in 0 .. MaxFaults /\ spoiled' \subseteq Spoilers
    BY <2>1, BootReadIs
  <2>3. Plain'
    BY <1>2, <2>2, PlainStays DEF memory, Typed, TypeOK
  <2>4. ReqOK(Boot)'
    BY <1>1, <2>1, <2>2, KeyAssumption DEF ReqOK, Key, Keys
  <2>. QED
    BY <1>1, <1>2, <2>2, <2>3, <2>4, BootTyped
<1>. QED
  BY <1>3, <1>4

\* A request under way, or the boot.
LEMMA Writing ==
  ASSUME Typed, NEW h \in Askers, req[h].at \notin {"idle", "done"}
  PROVE  /\ req[h] \in ReqState /\ ReqOK(h)
         /\ \/ h \in Handlers /\ up
            \/ h = Boot /\ ~up
BY KeyAssumption DEF Typed, ReqOK, Askers

\* A write of the settings moves a request on, or ends it.
LEMMA StoreIs ==
  ASSUME Typed, NEW h \in Askers, StoreSalt(h) \/ StoreHash(h)
  PROVE  /\ req' \in [Askers -> ReqState] /\ \A g \in Askers \ {h} : req'[g] = req[g]
         /\ req[h].at \in {"newsalt", "newhash"} /\ Plain'
         /\ keys' = keys /\ up' = up /\ req'[h].op = req[h].op /\ req'[h].n = req[h].n
         /\ req'[h].n = 0
         /\ \/ req'[h].at = "done"
            \/ /\ req'[h].at \in {"newhash", "keys"} /\ req'[h].pw = req[h].pw
               /\ req'[h].salt = req[h].salt /\ req'[h].hash = req[h].hash
<1>1. /\ req[h].at \in {"newsalt", "newhash"} /\ UNCHANGED <<salts, memory, sealed, stops>>
      /\ keys' = keys /\ up' = up
  BY DEF StoreSalt, StoreHash, At, memory
<1>2. /\ req[h].salt \in Salts /\ Key(h) \in Keys /\ req[h].n = 0
      /\ MaxFaults \in Nat /\ faults \in 0 .. MaxFaults /\ spoiled \subseteq Spoilers
      /\ salt \in Salts \cup {None} /\ hash \in Keys \cup {None} /\ salts \in 0 .. MaxSalts
      /\ "newhash" \in Stages /\ "keys" \in Stages
  BY <1>1, KeyAssumption DEF Typed, TypeOK, ReqOK, Stages
<1>3. salt' \in Salts \cup {None} /\ hash' \in Keys \cup {None}
  BY <1>2 DEF StoreSalt, StoreHash
<1>4. faults' \in 0 .. MaxFaults
  BY <1>2 DEF StoreSalt, StoreHash, SetSetting, Fine, Fault
<1>5. spoiled' \subseteq Spoilers
  BY <1>2 DEF StoreSalt, StoreHash, Spoil, Spoilers
<1>6. Plain'
  BY <1>1, <1>2, <1>3, <1>4, <1>5, PlainStays
<1>7. End(h) \/ Goto(h, "newhash") \/ Goto(h, "keys")
  BY DEF StoreSalt, StoreHash
<1>8. CASE End(h)
  BY <1>1, <1>2, <1>6, <1>8, EndIs
<1>9. CASE Goto(h, "newhash")
  BY <1>1, <1>2, <1>6, <1>9, GotoIs
<1>10. CASE Goto(h, "keys")
  BY <1>1, <1>2, <1>6, <1>10, GotoIs
<1>. QED
  BY <1>7, <1>8, <1>9, <1>10

\* A write of the settings, by a request or by the boot.
LEMMA StoreTyped ==
  ASSUME Typed, NEW h \in Askers, StoreSalt(h) \/ StoreHash(h)
  PROVE  Typed'
<1>1. /\ req' \in [Askers -> ReqState] /\ \A g \in Askers \ {h} : req'[g] = req[g]
      /\ req[h].at \in {"newsalt", "newhash"} /\ Plain'
      /\ keys' = keys /\ up' = up /\ req'[h].op = req[h].op /\ req'[h].n = 0
      /\ \/ req'[h].at = "done"
         \/ /\ req'[h].at \in {"newhash", "keys"} /\ req'[h].pw = req[h].pw
            /\ req'[h].salt = req[h].salt
  BY StoreIs
<1>2. /\ ReqOK(h)
      /\ \/ h \in Handlers /\ up
         \/ h = Boot /\ ~up
  BY <1>1, Writing
<1>3. ReqOK(h)'
  BY <1>1, <1>2 DEF ReqOK, Key
<1>4. CASE h \in Handlers /\ up
  BY <1>1, <1>3, <1>4, HandlerTyped
<1>5. CASE h = Boot /\ ~up
  BY <1>1, <1>3, <1>5, BootTyped
<1>. QED
  BY <1>2, <1>4, <1>5

\* One engine gets the key.
LEMMA SetKeyIs ==
  ASSUME Typed, NEW h \in Handlers, SetKey(h)
  PROVE  /\ req' \in [Askers -> ReqState] /\ \A g \in Askers \ {h} : req'[g] = req[g]
         /\ req[h].n \in 0 .. 2 /\ req'[h].n = req[h].n + 1
         /\ req'[h].at = IF req[h].n = 2 THEN "session" ELSE "keys"
         /\ req'[h].op = req[h].op /\ req'[h].pw = req[h].pw
         /\ req'[h].salt = req[h].salt /\ req'[h].hash = req[h].hash
         /\ Key(h) \in Keys /\ keys' = [keys EXCEPT ![req[h].n + 1] = Key(h)]
         /\ keys' \in [1 .. 3 -> Keys \cup {None}]
<1>1. /\ h \in Askers /\ req[h] \in ReqState /\ req[h].n \in 0 .. 2 /\ Key(h) \in Keys
      /\ keys' = [keys EXCEPT ![req[h].n + 1] = Key(h)] /\ keys \in [1 .. 3 -> Keys \cup {None}]
  BY DEF Typed, TypeOK, ReqOK, SetKey, At, Askers
<1>. DEFINE st == IF req[h].n = 2 THEN "session" ELSE "keys"
            k == [req[h] EXCEPT !.n = req[h].n + 1, !.at = st]
<1>2. st \in Stages /\ req[h].n + 1 \in 0 .. 3
  BY <1>1 DEF Stages
<1>3. Set(h, k)
  BY DEF SetKey
<1>. HIDE DEF st
<1>4. /\ k \in ReqState /\ k.n = req[h].n + 1 /\ k.at = st /\ k.op = req[h].op
      /\ k.pw = req[h].pw /\ k.salt = req[h].salt /\ k.hash = req[h].hash
  BY <1>1, <1>2 DEF ReqState
<1>. HIDE DEF k
<1>5. req' \in [Askers -> ReqState] /\ req'[h] = k /\ \A g \in Askers \ {h} : req'[g] = req[g]
  BY <1>1, <1>3, <1>4, SetIs
<1>. QED
  BY <1>1, <1>4, <1>5 DEF st

\* An engine gets the key: the first one before the second.
LEMMA SetKeyTyped ==
  ASSUME Typed, NEW h \in Handlers, SetKey(h)
  PROVE  Typed'
<1>1. /\ req' \in [Askers -> ReqState] /\ \A g \in Askers \ {h} : req'[g] = req[g]
      /\ req[h].n \in 0 .. 2 /\ req'[h].n = req[h].n + 1
      /\ req'[h].at = IF req[h].n = 2 THEN "session" ELSE "keys"
      /\ req'[h].op = req[h].op /\ req'[h].pw = req[h].pw /\ req'[h].salt = req[h].salt
      /\ Key(h) \in Keys /\ keys' = [keys EXCEPT ![req[h].n + 1] = Key(h)]
      /\ keys' \in [1 .. 3 -> Keys \cup {None}]
  BY SetKeyIs
<1>2. /\ up /\ h # Boot /\ ReqOK(h) /\ req[h].pw \in Passwords
      /\ req[h].op \in {"unlock", "set_password", "settings"} /\ req[h].at = "keys"
  BY UnderWay DEF SetKey, At
<1>3. keys \in [1 .. 3 -> Keys \cup {None}] /\ (req[h].n > 0 => keys[1] \in Keys)
  BY <1>2 DEF Typed, TypeOK, ReqOK
<1>4. keys'[1] \in Keys
  BY <1>1, <1>3
<1>5. ReqOK(h)'
  <2>1. req'[h] \in ReqState
    BY <1>1 DEF Askers
  <2>. QED
    BY <1>1, <1>2, <1>4, <2>1 DEF ReqOK, Key
<1>6. Plain' /\ up' = up
  BY <1>1 DEF Plain, SetKey, stored, Typed, TypeOK
<1>. QED
  BY <1>1, <1>2, <1>4, <1>5, <1>6, HandlerTyped

\* The boot is over: the engines have a key and the server is up.
LEMMA BootKeysTyped ==
  ASSUME Typed, BootKeys
  PROVE  Typed'
<1>1. /\ Boot \in Askers /\ req[Boot].at = "keys" /\ Key(Boot) \in Keys /\ Set(Boot, Blank)
      /\ keys' = [i \in 1 .. 3 |-> Key(Boot)] /\ up' = TRUE
      /\ UNCHANGED <<stored, sessions, job, sealed, stops, faults, spoiled>>
  BY DEF BootKeys, At, Askers, Typed, ReqOK
<1>2. /\ Blank \in ReqState /\ Blank.at = "idle" /\ Blank.n = 0
      /\ req' \in [Askers -> ReqState] /\ req'[Boot] = Blank
      /\ \A g \in Askers \ {Boot} : req'[g] = req[g]
  <2>1. Blank \in ReqState /\ Blank.at = "idle" /\ Blank.n = 0
    BY BlankIs
  <2>. QED
    BY <1>1, <2>1, SetIs
<1>3. ReqOK(Boot)'
  BY <1>1, <1>2, KeyAssumption DEF ReqOK
<1>4. ~up
  BY <1>1 DEF Typed
<1>5. Plain' /\ keys'[1] \in Keys
  BY <1>1 DEF Plain, stored, Typed, TypeOK
<1>. QED
  BY <1>1, <1>2, <1>3, <1>4, <1>5, BootTyped

\* The session is issued, or not, and the request is over.
LEMMA IssueTyped ==
  ASSUME Typed, NEW h \in Handlers, Issue(h)
  PROVE  Typed'
<1>1. /\ up /\ h \in Askers /\ req[h] \in ReqState /\ ReqOK(h) /\ h # Boot
      /\ req[h].op \in {"unlock", "set_password", "settings"} /\ req[h].at = "session"
      /\ keys[1] \in Keys /\ End(h)
  BY UnderWay DEF Issue, At, ReqOK
<1>2. /\ req' \in [Askers -> ReqState] /\ \A g \in Askers \ {h} : req'[g] = req[g]
      /\ req'[h].at = "done" /\ req'[h].n = 0
  BY <1>1, EndIs
<1>3. ReqOK(h)'
  BY <1>1, <1>2 DEF ReqOK
<1>4. sessions' \subseteq Handlers \X Keys
  <2>1. sessions \subseteq Handlers \X Keys /\ <<h, keys[1]>> \in Handlers \X Keys
    BY <1>1 DEF Typed, TypeOK
  <2>2. sessions' = sessions \cup {<<h, keys[1]>>} \/ sessions' = {<<h, keys[1]>>} \/ sessions' = sessions
    BY <1>1 DEF Issue
  <2>. QED
    BY <2>1, <2>2
<1>5. Plain' /\ up' = up /\ keys' = keys
  BY <1>4 DEF Issue, Plain, stored, Typed, TypeOK, Spoil, Spoilers
<1>. QED
  BY <1>1, <1>2, <1>3, <1>5, HandlerTyped

\* A session is dropped.
LEMMA LockTyped ==
  ASSUME Typed, NEW h \in Handlers, NEW s \in sessions, Lock(h, s)
  PROVE  Typed'
<1>. DEFINE k == [Blank EXCEPT !.op = "lock", !.at = "done"]
<1>1. h \in Askers /\ h # Boot /\ up /\ "lock" \in Ops \cup {None, Boot} /\ Set(h, k)
  BY KeyAssumption DEF Lock, Askers, Ops
<1>2. k \in ReqState /\ k.at = "done" /\ k.n = 0
  BY <1>1, BlankIs
<1>. HIDE DEF k
<1>3. req' \in [Askers -> ReqState] /\ req'[h] = k /\ \A g \in Askers \ {h} : req'[g] = req[g]
  BY <1>1, <1>2, SetIs
<1>4. ReqOK(h)'
  BY <1>1, <1>2, <1>3 DEF ReqOK
<1>5. Plain' /\ up' = up /\ keys' = keys
  BY DEF Lock, Plain, stored, Typed, TypeOK
<1>. QED
  BY <1>1, <1>3, <1>4, <1>5, HandlerTyped

\* An upload starts, or stores a part.
LEMMA UploadTyped ==
  ASSUME Typed, StartUpload \/ StorePart
  PROVE  Typed'
<1>1. /\ UNCHANGED <<stored, up, keys, sessions, req, stops, faults, spoiled>>
      /\ job' \in Keys \cup {None} /\ sealed' \subseteq Keys
  BY DEF StartUpload, StorePart, Typed, TypeOK
<1>. QED
  BY <1>1 DEF Typed, TypeOK, ReqOK, Key, stored

\* No engine has a key.
LEMMA LockedIs == Locked \in [1 .. 3 -> Keys \cup {None}] /\ \A i \in 1 .. 3 : Locked[i] = None
<1>1. None \in Keys \cup {None}
  OBVIOUS
<1>. QED
  BY <1>1 DEF Locked

\* What a stop makes of the requests.
LEMMA StopIs ==
  ASSUME Typed, Stop
  PROVE  /\ req' \in [Askers -> ReqState] /\ req'[Boot].at = "idle" /\ req'[Boot].n = 0
         /\ \A h \in Handlers : req'[h].at \in {"idle", "done"} /\ req'[h].n = 0
<1>1. /\ req \in [Askers -> ReqState] /\ Boot \in Askers /\ Boot \notin Handlers
      /\ Handlers \subseteq Askers
  BY KeyAssumption DEF Typed, Askers
<1>. DEFINE Over(h) == [Blank EXCEPT !.op = req[h].op, !.at = "done"]
<1>2. Blank \in ReqState /\ Blank.at = "idle" /\ Blank.n = 0
  BY BlankIs
<1>3. \A h \in Askers : Over(h) \in ReqState /\ Over(h).at = "done" /\ Over(h).n = 0
  <2>. TAKE h \in Askers
  <2>1. req[h].op \in Ops \cup {None, Boot}
    BY <1>1 DEF ReqState
  <2>. QED
    BY <2>1, BlankIs
<1>4. req' = [h \in Askers |-> IF h = Boot THEN Blank ELSE IF At(h, "idle") THEN req[h] ELSE Over(h)]
  BY <1>1 DEF Stop
<1>. HIDE DEF Over
<1>5. \A h \in Askers : req[h] \in ReqState /\ (req[h].at = "idle" => req[h].n = 0)
  BY DEF Typed, ReqOK
<1>. QED
  BY <1>1, <1>2, <1>3, <1>4, <1>5 DEF At

\* A stop ends every request.
LEMMA StopTyped ==
  ASSUME Typed, Stop
  PROVE  Typed'
<1>1. /\ req' \in [Askers -> ReqState] /\ req'[Boot].at = "idle" /\ req'[Boot].n = 0
      /\ \A h \in Handlers : req'[h].at \in {"idle", "done"} /\ req'[h].n = 0
  BY StopIs
<1>2. Boot \notin Handlers /\ \A h \in Askers : h = Boot \/ h \in Handlers
  BY KeyAssumption DEF Askers
<1>3. \A h \in Askers : ReqOK(h)'
  BY <1>1, <1>2 DEF ReqOK
<1>4. Plain' /\ up' = FALSE
  <2>1. keys' \in [1 .. 3 -> Keys \cup {None}]
    <3>1. keys' = Locked
      BY DEF Stop
    <3>. QED
      BY <3>1, LockedIs
  <2>2. stops' \in 0 .. MaxStops
    <3>1. MaxStops \in Nat /\ stops \in 0 .. MaxStops
      BY KeyAssumption DEF Typed, TypeOK
    <3>2. stops < MaxStops /\ stops' = stops + 1
      BY DEF Stop
    <3>. QED
      BY <3>1, <3>2
  <2>3. spoiled' \subseteq Spoilers
    BY DEF Stop, Typed, TypeOK, Spoil, Spoilers
  <2>. QED
    BY <2>1, <2>2, <2>3 DEF Stop, Plain, stored, Typed, TypeOK
<1>5. TypeOK'
  BY <1>1, <1>4 DEF Plain, TypeOK, ReqState
<1>. QED
  BY <1>1, <1>3, <1>4, <1>5 DEF Typed

\* Before the first boot.
LEMMA TypedInit == Init => Typed
<1>. SUFFICES ASSUME Init PROVE Typed
  OBVIOUS
<1>1. Blank \in ReqState /\ Blank.at = "idle" /\ Blank.n = 0
  BY BlankIs
<1>2. req \in [Askers -> ReqState] /\ \A h \in Askers : req[h] = Blank
  BY <1>1 DEF Init, Askers
<1>3. \A h \in Askers : ReqOK(h)
  BY <1>1, <1>2 DEF ReqOK
<1>4. Plain
  <2>1. keys = Locked
    BY DEF Init
  <2>2. keys \in [1 .. 3 -> Keys \cup {None}]
    BY <2>1, LockedIs
  <2>3. /\ MaxSalts \in Nat /\ MaxStops \in Nat /\ MaxFaults \in Nat
        /\ salt = None /\ hash = None /\ salts = 0 /\ up = FALSE
        /\ sessions = {} /\ job = None /\ sealed = {} /\ stops = 0 /\ faults = 0 /\ spoiled = {}
    BY KeyAssumption DEF Init
  <2>4. /\ salts \in 0 .. MaxSalts /\ stops \in 0 .. MaxStops /\ faults \in 0 .. MaxFaults
    BY <2>3
  <2>5. salt \in Salts \cup {None} /\ hash \in Keys \cup {None} /\ up \in BOOLEAN
    BY <2>3
  <2>6. /\ sessions \subseteq (Handlers \X Keys) /\ job \in Keys \cup {None}
        /\ sealed \subseteq Keys /\ spoiled \subseteq Spoilers
    BY <2>3
  <2>. QED
    BY <2>2, <2>4, <2>5, <2>6 DEF Plain
<1>5. Boot \in Askers /\ Handlers \subseteq Askers
  BY DEF Askers
<1>6. TypeOK
  BY <1>2, <1>4 DEF Plain, TypeOK, ReqState
<1>. QED
  BY <1>1, <1>2, <1>3, <1>5, <1>6 DEF Typed, Init

\* Every step keeps the types.
LEMMA TypedStep == Typed /\ [Next]_vars => Typed'
<1>. SUFFICES ASSUME Typed, [Next]_vars PROVE Typed'
  OBVIOUS
<1>1. ASSUME NEW h \in Handlers, NEW op \in Ops, NEW pw \in Passwords, Begin(h, op, pw) PROVE Typed'
  BY <1>1, BeginTyped
<1>2. ASSUME NEW h \in Handlers, ReadHash(h) PROVE Typed'
  BY <1>2, ReadHashTyped
<1>3. ASSUME NEW h \in Handlers, UnlockSalt(h) PROVE Typed'
  BY <1>3, UnlockSaltTyped
<1>4. ASSUME NEW h \in Handlers, ReplaceSalt(h) PROVE Typed'
  BY <1>4, ReplaceSaltTyped
<1>5. ASSUME NEW h \in Handlers, SetKey(h) PROVE Typed'
  BY <1>5, SetKeyTyped
<1>6. ASSUME NEW h \in Handlers, Issue(h) PROVE Typed'
  BY <1>6, IssueTyped
<1>7. ASSUME NEW h \in Handlers, NEW s \in sessions, Lock(h, s) PROVE Typed'
  BY <1>7, LockTyped
<1>8. ASSUME NEW pw \in BootPasswords, BootRead(pw) PROVE Typed'
  BY <1>8, BootReadTyped
<1>9. CASE BootKeys
  BY <1>9, BootKeysTyped
<1>10. ASSUME NEW h \in Handlers \cup {Boot}, StoreSalt(h) \/ StoreHash(h) PROVE Typed'
  BY <1>10, StoreTyped DEF Askers
<1>11. CASE StartUpload \/ StorePart
  BY <1>11, UploadTyped
<1>12. CASE Stop
  BY <1>12, StopTyped
<1>13. CASE UNCHANGED vars
  BY <1>13 DEF vars, Typed, TypeOK, ReqOK, Key
<1>. QED
  BY <1>1, <1>2, <1>3, <1>4, <1>5, <1>6, <1>7, <1>8, <1>9, <1>10, <1>11, <1>12, <1>13 DEF Next

\* Settings, engines, sessions and requests always have their types.
THEOREM KeyTypeCorrect == Spec => []TypeOK
<1>1. Typed => TypeOK
  BY DEF Typed
<1>. QED
  BY <1>1, TypedInit, TypedStep, PTL DEF Spec

-----------------------------------------------------------------------------
(***************************************************************************)
(* What holds between settings, requests, engines, sessions and uploads,   *)
(* as long as the settings are whole.                                      *)
(***************************************************************************)
\* What a request knows of the settings and has done to the engines.
Sound(h) ==
  /\ At(h, "salt") /\ req[h].op = "unlock" => req[h].hash = hash
  /\ req[h].at \in {"newsalt", "newhash"} /\ ~Replaces(h) => req[h].hash = None /\ hash = None
  /\ At(h, "newhash") => req[h].salt = salt
  /\ At(h, "keys") => /\ hash = Key(h) /\ hash # None
                      /\ \A i \in 1 .. 3 : i <= req[h].n => keys[i] = hash
  /\ At(h, "session") => hash # None
  /\ "replaced" \notin spoiled /\ Replaces(h) /\ req[h].at \in {"newsalt", "newhash"} => hash = None

\* Who sets or replaces the password is alone.
Going(h) == req[h].at \notin {"idle", "done"}
Alone ==
  hash = None \/ (\E h \in Askers : Going(h) /\ Replaces(h)) =>
    \A g, h \in Askers : Going(g) /\ Going(h) => g = h

\* The stored hash is of the stored salt, but for a replacement that is between the two.
Cut == hash # None /\ hash[2] # salt => \E h \in Askers : Halfway(h)

\* A replacement that has stored its hash, and not reached engine i.
Ahead(i) == \E h \in Handlers : At(h, "keys") /\ Replaces(h) /\ req[h].n < i

\* Each engine has the current key, no key, or a key about to be overwritten.
Engines ==
  /\ \A i \in 1 .. 3 : keys[i] \in {None, hash} \/ Ahead(i)
  /\ (keys[1] = keys[2] /\ keys[2] = keys[3]) \/ \E h \in Handlers : At(h, "keys")

\* Without a password nothing has a key.
NoKey == hash = None => /\ \A i \in 1 .. 3 : keys[i] = None
                        /\ job = None /\ sealed = {} /\ sessions = {}

\* A replacement that has stored its hash is about to drop the sessions.
Dropping == \E h \in Handlers : Replaces(h) /\ req[h].at \in {"keys", "session"}
Current == "kept" \notin spoiled => (\A s \in sessions : s[2] = hash) \/ Dropping

\* Before the first replacement there is one key.
First == "replaced" \notin spoiled =>
           /\ job \in {None, hash} /\ sealed \subseteq {hash}
           /\ \A i \in 1 .. 3 : keys[i] \in {None, hash}

Facts == /\ \A h \in Askers : Sound(h)
         /\ Alone /\ Cut /\ Engines /\ NoKey /\ Current /\ First
KeyInv == Whole => Facts

\* Spoilers only gather.
LEMMA WholeStays ==
  ASSUME spoiled \subseteq spoiled', Whole'
  PROVE  /\ Whole /\ ("replaced" \notin spoiled' => "replaced" \notin spoiled)
         /\ ("kept" \notin spoiled' => "kept" \notin spoiled)
         /\ "race" \notin spoiled' /\ "torn" \notin spoiled' /\ "misread" \notin spoiled'
BY DEF Whole

\* Nobody joins who is alone.
LEMMA AloneStays ==
  ASSUME Alone, hash' = None => hash = None,
         \A g \in Askers : Going(g)' => Going(g) /\ (Replaces(g)' => Replaces(g))
  PROVE  Alone'
BY DEF Alone

\* A request other than the one that moves knows what it knew.
LEMMA SoundStays ==
  ASSUME NEW g \in Askers, Sound(g), req'[g] = req[g], UNCHANGED <<salt, hash, keys>>,
         spoiled \subseteq spoiled'
  PROVE  Sound(g)'
BY DEF Sound, At, Replaces, Key

\* A replacement is a request, never the boot.
LEMMA Replacer ==
  ASSUME Typed, NEW h \in Askers, Going(h), Replaces(h)
  PROVE  h \in Handlers
BY KeyAssumption DEF Typed, ReqOK, Askers, Replaces, Going, Ops

\* A step of a request that writes nothing, and is not about to.
LEMMA MoveInv ==
  ASSUME Typed, Facts, NEW h \in Askers, spoiled \subseteq spoiled',
         UNCHANGED <<salt, hash, keys, job, sealed>>, sessions' \subseteq sessions,
         \A g \in Askers \ {h} : req'[g] = req[g],
         ~Halfway(h), req[h].at \notin {"keys", "session"}, Sound(h)', Alone'
  PROVE  Facts'
<1>1. \A g \in Askers : Sound(g)'
  BY SoundStays DEF Facts
<1>2. Cut'
  BY DEF Facts, Cut, Halfway, Replaces, At
<1>3. \A g \in Handlers : At(g, "keys") => g # h /\ req'[g] = req[g]
  BY DEF At, Askers
<1>4. \A i \in 1 .. 3 : Ahead(i) => Ahead(i)'
  BY <1>3 DEF Ahead, At, Replaces
<1>5. Engines'
  BY <1>3, <1>4 DEF Facts, Engines, At
<1>6. NoKey'
  BY DEF Facts, NoKey
<1>7. Current'
  <2>1. Dropping => Dropping'
    BY DEF Dropping, Replaces, Askers
  <2>. QED
    BY <2>1 DEF Facts, Current
<1>8. First'
  BY DEF Facts, First
<1>. QED
  BY <1>1, <1>2, <1>5, <1>6, <1>7, <1>8 DEF Facts

\* A request begins: alone if it or another replaces, or there is no password.
LEMMA BeginInv ==
  ASSUME Typed, Facts, NEW h \in Handlers, NEW op \in Ops, NEW pw \in Passwords,
         Begin(h, op, pw), Whole'
  PROVE  Facts'
<1>. DEFINE k == [Blank EXCEPT !.op = op, !.pw = pw, !.at = IF op = "settings" THEN "salt" ELSE "hash"]
<1>1. /\ h \in Askers /\ Set(h, k) /\ op # "lock" /\ req[h].at = "idle"
      /\ UNCHANGED <<stored, memory, sealed>> /\ Spoil(Crowd(op))
  BY DEF Begin, Askers, At
<1>2. Blank \in ReqState
  BY BlankIs
<1>3. op \in {"unlock", "set_password", "settings"} /\ {"salt", "hash"} \subseteq Stages
  BY <1>1 DEF Ops, Stages
<1>4. /\ k \in ReqState /\ k.op = op /\ k.at \in {"salt", "hash"}
      /\ k.at = "salt" => op = "settings"
  BY <1>2, <1>3 DEF ReqState
<1>. HIDE DEF k
<1>5. req' \in [Askers -> ReqState] /\ req'[h] = k /\ \A g \in Askers \ {h} : req'[g] = req[g]
  BY <1>1, <1>4, SetIs
<1>6. Sound(h)'
  BY <1>4, <1>5 DEF Sound, At
<1>7. spoiled \subseteq spoiled' /\ "race" \notin spoiled'
  BY <1>1 DEF Spoil, Whole
<1>8. \A g \in Askers : Going(g) =>
        hash # None /\ ~Replaces(g) /\ op \notin {"set_password", "settings"}
  <2>1. Active = {g \in Askers : Going(g)}
    BY DEF Active, Going, Typed
  <2>. QED
    BY <1>1, <1>7, <2>1 DEF Spoil, Crowd
<1>9. Alone'
  <2>1. hash' = hash /\ Replaces(h)' => op \in {"set_password", "settings"}
    BY <1>1, <1>4, <1>5 DEF stored, Replaces
  <2>2. \A g \in Askers \ {h} : (Going(g)' => Going(g)) /\ (Replaces(g)' => Replaces(g))
    BY <1>5 DEF Going, Replaces
  <2>. QED
    BY <1>1, <1>8, <2>1, <2>2 DEF Alone, stored
<1>. QED
  BY <1>1, <1>5, <1>6, <1>7, <1>9, MoveInv DEF Halfway, At, stored, memory

\* What a request keeps while it moves: whether it replaces, and that it is under way.
LEMMA AloneMoves ==
  ASSUME Facts, NEW h \in Askers, \A g \in Askers \ {h} : req'[g] = req[g],
         Going(h), req'[h].at = "done" \/ req'[h].op = req[h].op, hash' = None => hash = None
  PROVE  Alone'
<1>1. \A g \in Askers : Going(g)' => Going(g) /\ (Replaces(g)' => Replaces(g))
  BY DEF Going, Replaces
<1>. QED
  BY <1>1, AloneStays DEF Facts

\* A request reads the hash that is stored.
LEMMA ReadHashInv ==
  ASSUME Typed, Facts, NEW h \in Handlers, ReadHash(h), Whole'
  PROVE  Facts'
<1>1. PICK v \in {hash, None} : Read(hash, v) /\ Set(h, [req[h] EXCEPT !.hash = v, !.at = "salt"])
  BY DEF ReadHash
<1>2. /\ h \in Askers /\ req[h] \in ReqState /\ req[h].at = "hash"
      /\ UNCHANGED <<stored, memory, sealed>>
  BY DEF ReadHash, At, Askers, Typed
<1>. DEFINE k == [req[h] EXCEPT !.hash = v, !.at = "salt"]
<1>3. v \in Keys \cup {None} /\ "salt" \in Stages
  BY DEF Typed, TypeOK, Stages
<1>4. k \in ReqState /\ k.op = req[h].op /\ k.at = "salt" /\ k.hash = v
  BY <1>2, <1>3 DEF ReqState
<1>5. Set(h, k)
  BY <1>1
<1>. HIDE DEF k
<1>6. req' \in [Askers -> ReqState] /\ req'[h] = k /\ \A g \in Askers \ {h} : req'[g] = req[g]
  BY <1>2, <1>4, <1>5, SetIs
<1>7. spoiled \subseteq spoiled' /\ v = hash
  BY <1>1, ReadIs DEF Whole
<1>8. Sound(h)'
  BY <1>2, <1>4, <1>6, <1>7 DEF Sound, At, stored
<1>9. Alone'
  BY <1>2, <1>4, <1>6, AloneMoves DEF Going, stored
<1>. QED
  BY <1>2, <1>6, <1>7, <1>8, <1>9, MoveInv DEF Halfway, At, stored, memory

\* With a request under way no other is between salt and hash, if it has none or replaces.
LEMMA SaltIsMissing ==
  ASSUME Typed, Facts, salt = None,
         \E h \in Askers : Going(h) /\ ~At(h, "newhash")
  PROVE  hash = None
<1>. SUFFICES ASSUME hash # None PROVE FALSE
  OBVIOUS
<1>1. hash \in Keys
  BY DEF Typed, TypeOK
<1>2. hash[2] # salt
  BY <1>1, KeyAssumption DEF Keys
<1>3. PICK g \in Askers : Halfway(g)
  BY <1>2 DEF Facts, Cut
<1>4. Going(g) /\ Replaces(g) /\ At(g, "newhash")
  BY <1>3 DEF Halfway, Going, At
<1>. QED
  BY <1>4 DEF Facts, Alone

\* An unlock goes on with the stored salt and hash, or makes the first ones.
LEMMA UnlockSaltInv ==
  ASSUME Typed, Facts, NEW h \in Handlers, UnlockSalt(h), Whole'
  PROVE  Facts'
<1>1. PICK v \in {salt, None} :
        /\ Read(salt, v)
        /\ IF SignsIn(h) THEN Goto(h, "session") /\ salts' = salts ELSE TakeSalt(h, v)
  BY DEF UnlockSalt
<1>2. /\ h \in Askers /\ req[h].at = "salt" /\ At(h, "salt") /\ req[h].op = "unlock"
      /\ UNCHANGED <<salt, hash, memory, sealed>> /\ Going(h) /\ ~Replaces(h) /\ req[h].n = 0
      /\ req[h].hash = hash
  BY DEF UnlockSalt, At, Askers, Going, Replaces, Typed, ReqOK, Facts, Sound
<1>3. spoiled \subseteq spoiled' /\ v = salt
  BY <1>1, ReadIs DEF Whole
<1>4. v \in Salts \cup {None} /\ "session" \in Stages
  BY DEF Typed, TypeOK, Stages
<1>5. /\ \A g \in Askers \ {h} : req'[g] = req[g]
      /\ req'[h].at = "done" \/ req'[h].op = req[h].op
      /\ Sound(h)'
  <2>1. CASE SignsIn(h)
    <3>1. /\ \A g \in Askers \ {h} : req'[g] = req[g]
          /\ req'[h].at = "session" /\ req'[h].op = req[h].op
      BY <1>1, <1>2, <1>4, <2>1, GotoIs
    <3>2. hash # None
      BY <2>1 DEF SignsIn, Facts, NoKey
    <3>. QED
      BY <1>2, <3>1, <3>2 DEF Sound, At
  <2>2. CASE ~SignsIn(h)
    <3>1. /\ \A g \in Askers \ {h} : req'[g] = req[g]
          /\ \/ req'[h].at = "done" /\ req'[h].n = 0
             \/ /\ req'[h].at \in {"newsalt", "newhash", "keys"}
                /\ req'[h].op = req[h].op /\ req'[h].hash = req[h].hash /\ req'[h].n = req[h].n
                /\ req'[h].at = "newsalt" => v = None
                /\ req'[h].at # "newsalt" => req'[h].salt = v
                /\ req'[h].at = "newhash" => req[h].hash = None
                /\ req'[h].at = "keys" => req[h].hash = Key(h)' /\ req[h].hash # None
      BY <1>1, <1>2, <1>4, <2>2, TakeSaltIs
    <3>2. v = None => hash = None
      BY <1>2, <1>3, SaltIsMissing DEF At
    <3>. QED
      BY <1>2, <1>3, <3>1, <3>2 DEF Sound, At, Replaces
  <2>. QED
    BY <2>1, <2>2
<1>6. Alone'
  BY <1>2, <1>5, AloneMoves
<1>. QED
  BY <1>2, <1>3, <1>5, <1>6, MoveInv DEF Halfway, At, memory

\* A replacement makes a salt of its own.
LEMMA ReplaceSaltInv ==
  ASSUME Typed, Facts, NEW h \in Handlers, ReplaceSalt(h), Whole'
  PROVE  Facts'
<1>1. /\ h \in Askers /\ req[h].at = "salt" /\ Replaces(h) /\ NewSalt(h, "newsalt")
      /\ UNCHANGED <<salt, hash, memory, sealed>>
      /\ Spoil(IF hash = None THEN {} ELSE {"replaced"})
  BY DEF ReplaceSalt, At, Askers
<1>2. /\ \A g \in Askers \ {h} : req'[g] = req[g]
      /\ req'[h].at = "newsalt" /\ req'[h].op = req[h].op
  BY <1>1, NewSaltIs
<1>3. spoiled \subseteq spoiled' /\ ("replaced" \notin spoiled' => hash = None)
  BY <1>1 DEF Spoil
<1>4. Sound(h)'
  BY <1>1, <1>2, <1>3 DEF Sound, At, Replaces
<1>5. Alone'
  BY <1>1, <1>2, AloneMoves DEF Going
<1>. QED
  BY <1>1, <1>2, <1>3, <1>4, <1>5, MoveInv DEF Halfway, At, memory

\* The boot goes on with the stored salt and hash, alone.
LEMMA BootReadInv ==
  ASSUME Typed, Facts, NEW pw \in BootPasswords, BootRead(pw), Whole'
  PROVE  Facts'
<1>1. /\ Boot \in Askers /\ ~up /\ req[Boot].at = "idle"
      /\ UNCHANGED <<salt, hash, keys, sessions, job, sealed>>
      /\ \A g \in Askers : Going(g) => g = Boot
  BY DEF BootRead, At, Askers, Typed, Going
<1>2. CASE pw = None
  <2>1. req' = req /\ spoiled' = spoiled
    BY <1>2 DEF BootRead, Spoil
  <2>2. Sound(Boot)' /\ Alone'
    BY <1>1, <2>1 DEF Facts, Sound, At, Alone, Going, Replaces
  <2>. QED
    BY <1>1, <2>1, <2>2, MoveInv DEF Halfway, At
<1>3. CASE pw # None
  <2>0. pw \in Passwords
    BY <1>3, KeyAssumption
  <2>1. /\ \A g \in Askers \ {Boot} : req'[g] = req[g]
        /\ req'[Boot].at \in {"newsalt", "newhash", "keys"} /\ req'[Boot].op = Boot
        /\ req'[Boot].n = 0 /\ spoiled \subseteq spoiled'
        /\ req'[Boot].hash = hash
        /\ req'[Boot].at = "newsalt" => salt = None
        /\ req'[Boot].at # "newsalt" => req'[Boot].salt = salt
        /\ req'[Boot].at = "newhash" => hash = None
        /\ req'[Boot].at = "keys" => hash = Key(Boot)' /\ hash # None
    BY <2>0, BootReadIs DEF Whole
  <2>2. salt = None => hash = None
    <3>. SUFFICES ASSUME salt = None, hash # None PROVE FALSE
      OBVIOUS
    <3>1. hash[2] # salt
      BY KeyAssumption DEF Keys, Typed, TypeOK
    <3>. QED
      BY <1>1, <3>1 DEF Facts, Cut, Halfway, At, Going
  <2>3. Sound(Boot)'
    BY <1>1, <2>1, <2>2, KeyAssumption DEF Sound, At, Replaces
  <2>4. Alone'
    BY <1>1, <2>1 DEF Alone, Going
  <2>. QED
    BY <1>1, <2>1, <2>3, <2>4, MoveInv DEF Halfway, At
<1>. QED
  BY <1>2, <1>3

\* A lock drops a session and touches nothing else.
LEMMA LockInv ==
  ASSUME Typed, Facts, NEW h \in Handlers, NEW s \in sessions, Lock(h, s), Whole'
  PROVE  Facts'
<1>. DEFINE k == [Blank EXCEPT !.op = "lock", !.at = "done"]
<1>1. /\ h \in Askers /\ req[h].at = "idle" /\ "lock" \in Ops \cup {None, Boot} /\ Set(h, k)
      /\ UNCHANGED <<stored, keys, job, sealed, spoiled>> /\ sessions' \subseteq sessions
  BY DEF Lock, Askers, Ops, At
<1>2. k \in ReqState /\ k.at = "done"
  BY <1>1, BlankIs
<1>. HIDE DEF k
<1>3. req' \in [Askers -> ReqState] /\ req'[h] = k /\ \A g \in Askers \ {h} : req'[g] = req[g]
  BY <1>1, <1>2, SetIs
<1>4. Sound(h)'
  BY <1>2, <1>3 DEF Sound, At
<1>5. \A g \in Askers : Going(g)' => Going(g) /\ (Replaces(g)' => Replaces(g))
  BY <1>2, <1>3 DEF Going, Replaces
<1>6. Alone'
  BY <1>1, <1>5, AloneStays DEF Facts, stored
<1>. QED
  BY <1>1, <1>3, <1>4, <1>6, MoveInv DEF Halfway, At, stored

\* A write that fails ends the request, or leaves the settings torn.
LEMMA EndInv ==
  ASSUME Typed, Facts, NEW h \in Askers, End(h), ~Halfway(h), req[h].at \in {"newsalt", "newhash"},
         UNCHANGED <<salt, hash, memory, sealed>>, spoiled \subseteq spoiled'
  PROVE  Facts'
<1>1. /\ \A g \in Askers \ {h} : req'[g] = req[g]
      /\ req'[h].at = "done"
  BY EndIs
<1>2. Sound(h)'
  BY <1>1 DEF Sound, At
<1>3. Alone'
  BY <1>1, AloneMoves DEF Going
<1>. QED
  BY <1>1, <1>2, <1>3, MoveInv DEF memory

\* The salt is stored: by the first to set a password, or by a replacement.
LEMMA StoreSaltInv ==
  ASSUME Typed, Facts, NEW h \in Askers, StoreSalt(h), Whole'
  PROVE  Facts'
<1>1. /\ req[h].at = "newsalt" /\ Going(h) /\ ~Halfway(h)
      /\ UNCHANGED <<salts, memory, sealed, stops>> /\ req[h].n = 0
  BY DEF StoreSalt, At, Going, Halfway, Typed, ReqOK
<1>2. Sound(h) /\ spoiled \subseteq spoiled' /\ "torn" \notin spoiled'
  BY DEF Facts, StoreSalt, Spoil, Whole
<1>3. ~Replaces(h) => req[h].hash = None /\ hash = None
  BY <1>1, <1>2 DEF Sound
<1>4. CASE End(h) /\ UNCHANGED <<salt, hash>>
  BY <1>1, <1>2, <1>4, EndInv
<1>5. CASE salt' = req[h].salt /\ hash' = hash /\ Goto(h, "newhash")
  <2>1. /\ \A g \in Askers \ {h} : req'[g] = req[g] /\ ~Going(g)
        /\ req'[h].at = "newhash" /\ req'[h].op = req[h].op /\ req'[h].salt = salt'
        /\ req'[h].hash = req[h].hash
    <3>1. "newhash" \in Stages
      BY DEF Stages
    <3>2. \A g \in Askers \ {h} : ~Going(g)
      BY <1>1, <1>3 DEF Facts, Alone
    <3>. QED
      BY <1>5, <3>1, <3>2, GotoIs
  <2>2. \A g \in Askers : Sound(g)'
    <3>1. Sound(h)'
      BY <1>1, <1>2, <1>3, <1>5, <2>1 DEF Sound, At, Replaces
    <3>2. \A g \in Askers \ {h} : Sound(g)'
      BY <2>1 DEF Sound, At, Going
    <3>. QED
      BY <3>1, <3>2
  <2>3. Alone'
    BY <1>1, <1>5, <2>1, AloneMoves
  <2>4. Cut'
    <3>1. Replaces(h) => Halfway(h)'
      BY <2>1 DEF Halfway, Replaces, At
    <3>. QED
      BY <1>3, <1>5, <3>1 DEF Cut
  <2>5. \A g \in Handlers : ~At(g, "keys") /\ ~At(g, "session")
    BY <1>1, <2>1 DEF At, Going, Askers
  <2>6. Engines'
    BY <1>1, <1>5, <2>5 DEF Facts, Engines, Ahead, memory
  <2>7. NoKey' /\ First'
    BY <1>1, <1>2, <1>5 DEF Facts, NoKey, First, memory
  <2>8. Current'
    <3>1. ~Dropping
      BY <2>5 DEF Dropping, At
    <3>. QED
      BY <1>1, <1>2, <1>5, <3>1 DEF Facts, Current, memory
  <2>. QED
    BY <2>2, <2>3, <2>4, <2>6, <2>7, <2>8 DEF Facts
<1>6. CASE salt' = req[h].salt /\ hash' = hash /\ End(h) /\ ~Replaces(h)
  <2>1. /\ \A g \in Askers \ {h} : req'[g] = req[g] /\ ~Going(g)
        /\ req'[h].at = "done" /\ hash = None
    <3>1. \A g \in Askers \ {h} : req'[g] = req[g]
      BY <1>6, EndIs
    <3>2. \A g \in Askers \ {h} : ~Going(g)
      BY <1>1, <1>3, <1>6 DEF Facts, Alone
    <3>. QED
      BY <1>3, <1>6, <3>1, <3>2, EndIs
  <2>2. \A g \in Askers : Sound(g)'
    BY <2>1 DEF Sound, At, Going
  <2>3. Alone'
    BY <1>1, <1>6, <2>1, AloneMoves
  <2>4. NoKey /\ hash' = None
    BY <1>6, <2>1 DEF Facts
  <2>5. /\ \A i \in 1 .. 3 : keys'[i] = None
        /\ job' = None /\ sealed' = {} /\ sessions' = {}
    BY <1>1, <2>1, <2>4 DEF NoKey, memory
  <2>. QED
    BY <2>2, <2>3, <2>4, <2>5 DEF Facts, Cut, NoKey, Current, Engines, First
<1>. QED
  <2>1. PICK done \in BOOLEAN, told \in BOOLEAN :
          /\ SetSetting(done, told)
          /\ salt' = (IF done THEN req[h].salt ELSE salt) /\ hash' = hash
          /\ IF told \/ Careless(h)
             THEN IF ~Replaces(h) /\ req[h].hash \notin {None, Key(h)} THEN End(h)
                  ELSE Goto(h, "newhash")
             ELSE End(h)
          /\ ~(~told /\ (IF Careless(h) THEN ~done ELSE done /\ Replaces(h)))
    BY <1>2 DEF StoreSalt, Spoil
  <2>2. CASE told \/ Careless(h)
    BY <1>3, <1>5, <2>1, <2>2 DEF SetSetting
  <2>3. CASE ~told /\ ~Careless(h)
    BY <1>4, <1>6, <2>1, <2>3
  <2>. QED
    BY <2>2, <2>3

\* The hash is stored, of the stored salt.
LEMMA StoreHashInv ==
  ASSUME Typed, Facts, NEW h \in Askers, StoreHash(h), Whole'
  PROVE  Facts'
<1>1. /\ req[h].at = "newhash" /\ Going(h) /\ Key(h) \in Keys /\ req[h].n = 0
      /\ UNCHANGED <<salts, memory, sealed, stops>>
  BY DEF StoreHash, At, Going, Typed, ReqOK
<1>2. Sound(h) /\ spoiled \subseteq spoiled' /\ "torn" \notin spoiled'
  BY DEF Facts, StoreHash, Spoil, Whole
<1>3. /\ ~Replaces(h) => hash = None
      /\ "replaced" \notin spoiled => hash = None
      /\ req[h].salt = salt
  BY <1>1, <1>2 DEF Sound, At
<1>4. CASE End(h) /\ UNCHANGED <<salt, hash>> /\ ~Replaces(h)
  BY <1>1, <1>2, <1>4, EndInv DEF Halfway
<1>5. CASE hash' = Key(h) /\ salt' = salt /\ Goto(h, "keys")
  <2>1. /\ \A g \in Askers \ {h} : req'[g] = req[g] /\ ~Going(g)
        /\ req'[h].at = "keys" /\ req'[h].op = req[h].op /\ req'[h].salt = req[h].salt
        /\ req'[h].pw = req[h].pw /\ req'[h].n = req[h].n
    <3>1. "keys" \in Stages
      BY DEF Stages
    <3>2. \A g \in Askers \ {h} : ~Going(g)
      BY <1>1, <1>3 DEF Facts, Alone
    <3>. QED
      BY <1>5, <3>1, <3>2, GotoIs
  <2>2. hash' \in Keys /\ hash' # None /\ hash'[2] = salt' /\ hash' = Key(h)'
    BY <1>1, <1>3, <1>5, <2>1, KeyAssumption DEF Key
  <2>3. \A g \in Askers : Sound(g)'
    <3>1. Sound(h)'
      BY <1>1, <2>1, <2>2 DEF Sound, At
    <3>2. \A g \in Askers \ {h} : Sound(g)'
      BY <2>1 DEF Sound, At, Going
    <3>. QED
      BY <3>1, <3>2
  <2>4. Alone'
    BY <1>1, <2>1, <2>2, AloneMoves
  <2>5. Cut'
    BY <2>2 DEF Cut
  <2>6. Replaces(h) => /\ h \in Handlers /\ Replaces(h)' /\ At(h, "keys")'
    BY <1>1, <2>1, Replacer DEF Replaces, At
  <2>7. CASE Replaces(h)
    <3>1. Engines'
      <4>1. \A i \in 1 .. 3 : Ahead(i)'
        BY <1>1, <2>1, <2>6, <2>7 DEF Ahead, At
      <4>. QED
        BY <2>6, <2>7, <4>1 DEF Engines
    <3>2. Dropping'
      BY <2>6, <2>7 DEF Dropping, At
    <3>3. First'
      BY <1>1, <1>2, <1>3, WholeStays DEF Facts, NoKey, First, memory
    <3>. QED
      BY <2>2, <2>3, <2>4, <2>5, <3>1, <3>2, <3>3 DEF Facts, NoKey, Current
  <2>8. CASE ~Replaces(h)
    <3>1. /\ \A i \in 1 .. 3 : keys'[i] = None
          /\ job' = None /\ sealed' = {} /\ sessions' = {}
      BY <1>1, <1>3, <2>8 DEF Facts, NoKey, memory
    <3>. QED
      BY <2>2, <2>3, <2>4, <2>5, <3>1 DEF Facts, NoKey, Current, Engines, First
  <2>. QED
    BY <2>7, <2>8
<1>6. CASE hash' = Key(h) /\ salt' = salt /\ End(h) /\ ~Replaces(h)
  <2>1. /\ \A g \in Askers \ {h} : req'[g] = req[g] /\ ~Going(g)
        /\ req'[h].at = "done"
    <3>1. \A g \in Askers \ {h} : req'[g] = req[g]
      BY <1>6, EndIs
    <3>2. \A g \in Askers \ {h} : ~Going(g)
      BY <1>1, <1>3, <1>6 DEF Facts, Alone
    <3>. QED
      BY <1>6, <3>1, <3>2, EndIs
  <2>2. hash' \in Keys /\ hash' # None /\ hash'[2] = salt'
    BY <1>1, <1>3, <1>6, KeyAssumption DEF Key
  <2>3. \A g \in Askers : Sound(g)'
    BY <2>1 DEF Sound, At, Going
  <2>4. Alone'
    BY <1>1, <2>1, <2>2, AloneMoves
  <2>5. /\ \A i \in 1 .. 3 : keys'[i] = None
        /\ job' = None /\ sealed' = {} /\ sessions' = {}
    BY <1>1, <1>3, <1>6 DEF Facts, NoKey, memory
  <2>. QED
    BY <2>2, <2>3, <2>4, <2>5 DEF Facts, Cut, NoKey, Current, Engines, First
<1>. QED
  <2>1. PICK done \in BOOLEAN, told \in BOOLEAN :
          /\ SetSetting(done, told)
          /\ hash' = (IF done THEN Key(h) ELSE hash) /\ salt' = salt
          /\ IF told \/ Careless(h) THEN Goto(h, "keys") ELSE End(h)
          /\ ~(~told /\ (IF Careless(h) THEN ~done ELSE Replaces(h)))
    BY <1>2 DEF StoreHash, Spoil
  <2>2. CASE told \/ Careless(h)
    BY <1>5, <2>1, <2>2 DEF SetSetting
  <2>3. CASE ~told /\ ~Careless(h)
    BY <1>4, <1>6, <2>1, <2>3
  <2>. QED
    BY <2>2, <2>3

\* An engine gets the current key.
LEMMA SetKeyInv ==
  ASSUME Typed, Facts, NEW h \in Handlers, SetKey(h)
  PROVE  Facts'
<1>1. /\ h \in Askers /\ req[h].at = "keys" /\ Going(h) /\ Sound(h)
      /\ UNCHANGED <<stored, up, sessions, job, sealed, stops, faults, spoiled>>
      /\ salt' = salt /\ hash' = hash
  BY DEF SetKey, At, Askers, Going, Facts, stored
<1>2. /\ \A g \in Askers \ {h} : req'[g] = req[g]
      /\ req[h].n \in 0 .. 2 /\ req'[h].n = req[h].n + 1
      /\ req'[h].at = IF req[h].n = 2 THEN "session" ELSE "keys"
      /\ req'[h].op = req[h].op /\ req'[h].pw = req[h].pw /\ req'[h].salt = req[h].salt
      /\ keys' = [keys EXCEPT ![req[h].n + 1] = Key(h)]
  BY SetKeyIs
<1>3. /\ hash = Key(h) /\ hash # None /\ \A i \in 1 .. 3 : i <= req[h].n => keys[i] = hash
      /\ keys \in [1 .. 3 -> Keys \cup {None}]
  BY <1>1 DEF Sound, At, Typed, TypeOK
<1>4. \A i \in 1 .. 3 : keys'[i] = IF i = req[h].n + 1 THEN hash ELSE keys[i]
  BY <1>2, <1>3
<1>5. \A g \in Askers : Sound(g)'
  <2>1. Sound(h)'
    <3>1. \A i \in 1 .. 3 : i <= req[h].n + 1 => keys'[i] = hash
      BY <1>2, <1>3, <1>4
    <3>2. Key(h)' = Key(h)
      BY <1>2 DEF Key
    <3>. QED
      BY <1>1, <1>2, <1>3, <3>1, <3>2 DEF Sound, At
  <2>2. ASSUME NEW g \in Askers \ {h} PROVE Sound(g)'
    <3>1. Sound(g) /\ req'[g] = req[g]
      BY <1>2 DEF Facts
    <3>2. Key(g)' = Key(g) /\ Replaces(g)' = Replaces(g)
      BY <3>1 DEF Key, Replaces
    <3>3. At(g, "keys") => \A i \in 1 .. 3 : i <= req[g].n => keys'[i] = hash
      BY <1>4, <3>1 DEF Sound
    <3>. QED
      BY <1>1, <3>1, <3>2, <3>3 DEF Sound, At
  <2>. QED
    BY <2>1, <2>2
<1>6. Alone'
  BY <1>1, <1>2, AloneMoves
<1>7. Cut'
  <2>1. \A g \in Askers : Halfway(g) => g # h
    BY <1>1 DEF Halfway, At
  <2>. QED
    BY <1>1, <1>2, <2>1 DEF Facts, Cut, Halfway, At, Replaces
<1>8. Engines'
  <2>1. ASSUME NEW i \in 1 .. 3 PROVE keys'[i] \in {None, hash} \/ Ahead(i)'
    <3>1. CASE i = req[h].n + 1
      BY <1>4, <3>1
    <3>2. CASE i # req[h].n + 1 /\ Ahead(i)
      <4>1. PICK g \in Handlers : At(g, "keys") /\ Replaces(g) /\ req[g].n < i
        BY <3>2 DEF Ahead
      <4>2. CASE g # h
        BY <1>2, <4>1, <4>2 DEF Ahead, At, Replaces, Askers
      <4>3. CASE g = h
        <5>1. req'[h].at = "keys" /\ req'[h].n < i /\ Replaces(h)'
          BY <1>2, <3>2, <4>1, <4>3 DEF Replaces
        <5>. QED
          BY <5>1 DEF Ahead, At
      <4>. QED
        BY <4>2, <4>3
    <3>3. CASE i # req[h].n + 1 /\ keys[i] \in {None, hash}
      BY <1>4, <3>3
    <3>. QED
      BY <3>1, <3>2, <3>3 DEF Facts, Engines
  <2>2. (keys'[1] = keys'[2] /\ keys'[2] = keys'[3]) \/ req'[h].at = "keys"
    <3>1. CASE req[h].n = 2
      BY <1>3, <1>4, <3>1
    <3>2. CASE req[h].n # 2
      BY <1>2, <3>2
    <3>. QED
      BY <3>1, <3>2
  <2>. QED
    BY <1>1, <2>1, <2>2 DEF Engines, At
<1>9. NoKey'
  BY <1>1, <1>3 DEF NoKey
<1>10. Current'
  <2>1. Dropping => Dropping'
    <3>1. ASSUME NEW g \in Handlers, Replaces(g), req[g].at \in {"keys", "session"} PROVE Dropping'
      <4>1. CASE g # h
        BY <1>2, <3>1, <4>1 DEF Dropping, Replaces, Askers
      <4>2. CASE g = h
        BY <1>2, <3>1, <4>2 DEF Dropping, Replaces
      <4>. QED
        BY <4>1, <4>2
    <3>. QED
      BY <3>1 DEF Dropping
  <2>. QED
    BY <1>1, <2>1 DEF Facts, Current
<1>11. First'
  BY <1>1, <1>4 DEF Facts, First
<1>. QED
  BY <1>5, <1>6, <1>7, <1>8, <1>9, <1>10, <1>11 DEF Facts

\* The engines are made with the key of the boot.
LEMMA BootKeysInv ==
  ASSUME Typed, Facts, BootKeys
  PROVE  Facts'
<1>1. /\ Boot \in Askers /\ req[Boot].at = "keys" /\ Going(Boot) /\ Sound(Boot) /\ Set(Boot, Blank)
      /\ ~up /\ \A i \in 1 .. 3 : keys'[i] = Key(Boot)
      /\ salt' = salt /\ hash' = hash /\ UNCHANGED <<sessions, job, sealed, spoiled>>
  BY DEF BootKeys, At, Askers, Going, Facts, Typed, stored
<1>2. Blank \in ReqState /\ Blank.at = "idle"
  BY BlankIs
<1>3. req'[Boot] = Blank /\ \A g \in Askers \ {Boot} : req'[g] = req[g]
  BY <1>1, <1>2, SetIs
<1>4. hash = Key(Boot) /\ hash # None
  BY <1>1 DEF Sound, At
<1>5. \A g \in Askers \ {Boot} : ~Going(g)
  BY <1>1 DEF Typed, Askers, Going
<1>6. \A g \in Askers : ~Going(g)' /\ ~Halfway(g)
  BY <1>1, <1>2, <1>3, <1>5 DEF Going, Halfway, At
<1>7. \A g \in Askers : Sound(g)'
  BY <1>6 DEF Sound, Going, At
<1>8. Alone' /\ Cut' /\ Engines'
  BY <1>1, <1>4, <1>6 DEF Alone, Cut, Facts, Engines
<1>9. NoKey' /\ First'
  BY <1>1, <1>4 DEF NoKey, Facts, First
<1>10. Current'
  <2>1. ~Dropping
    BY <1>5, KeyAssumption DEF Dropping, Going, Askers
  <2>. QED
    BY <1>1, <2>1 DEF Facts, Current
<1>. QED
  BY <1>7, <1>8, <1>9, <1>10 DEF Facts

\* A session is of the current key.
LEMMA IssueInv ==
  ASSUME Typed, Facts, NEW h \in Handlers, Issue(h), Whole'
  PROVE  Facts'
<1>1. /\ h \in Askers /\ req[h].at = "session" /\ Going(h) /\ Sound(h) /\ End(h)
      /\ salt' = salt /\ hash' = hash /\ UNCHANGED <<keys, job, sealed>>
      /\ keys[1] \in Keys /\ req[h].op \in {"unlock", "set_password", "settings"}
      /\ spoiled \subseteq spoiled'
  BY DEF Issue, At, Askers, Going, Facts, stored, Typed, ReqOK, Spoil
<1>2. /\ \A g \in Askers \ {h} : req'[g] = req[g]
      /\ req'[h].at = "done"
  BY <1>1, EndIs
<1>3. hash # None
  BY <1>1 DEF Sound, At
<1>4. keys[1] = hash \/ \E g \in Handlers : g # h /\ At(g, "keys") /\ Replaces(g)
  <2>1. keys[1] # None /\ 1 \in 1 .. 3
    BY <1>1, KeyAssumption
  <2>2. keys[1] = hash \/ Ahead(1)
    BY <2>1 DEF Facts, Engines
  <2>. QED
    BY <1>1, <2>2 DEF Ahead, At
<1>5. keys[1] = hash
  <2>1. ASSUME NEW g \in Handlers, g # h, At(g, "keys"), Replaces(g) PROVE FALSE
    BY <1>1, <2>1 DEF Facts, Alone, Going, At, Askers
  <2>. QED
    BY <1>4, <2>1
<1>6. \A g \in Askers : Sound(g)'
  <2>1. Sound(h)'
    BY <1>2 DEF Sound, At
  <2>. QED
    BY <1>1, <1>2, <2>1, SoundStays DEF Facts
<1>7. Alone'
  BY <1>1, <1>2, AloneMoves
<1>8. Cut'
  <2>1. \A g \in Askers : Halfway(g) => g # h
    BY <1>1 DEF Halfway, At
  <2>. QED
    BY <1>1, <1>2, <2>1 DEF Facts, Cut, Halfway, At, Replaces
<1>9. Engines'
  <2>1. \A g \in Handlers : At(g, "keys") => g # h /\ req'[g] = req[g]
    BY <1>1, <1>2 DEF At, Askers
  <2>2. \A i \in 1 .. 3 : Ahead(i) => Ahead(i)'
    BY <2>1 DEF Ahead, At, Replaces
  <2>. QED
    BY <1>1, <2>1, <2>2 DEF Facts, Engines, At
<1>10. NoKey' /\ First'
  BY <1>1, <1>3 DEF NoKey, Facts, First
<1>11. Current'
  <2>1. CASE req[h].op = "unlock"
    <3>1. sessions' = sessions \cup {<<h, keys[1]>>} /\ ~Replaces(h)
      BY <2>1 DEF Issue, Replaces
    <3>2. Dropping => Dropping'
      BY <1>2, <3>1 DEF Dropping, Replaces, Askers
    <3>. QED
      BY <1>1, <1>5, <3>1, <3>2 DEF Facts, Current
  <2>2. CASE req[h].op = "set_password"
    <3>1. sessions' = {<<h, keys[1]>>}
      BY <2>2 DEF Issue
    <3>. QED
      BY <1>1, <1>5, <3>1 DEF Current
  <2>3. CASE req[h].op = "settings"
    BY <2>3 DEF Issue, Spoil, Current
  <2>. QED
    BY <1>1, <2>1, <2>2, <2>3
<1>. QED
  BY <1>6, <1>7, <1>8, <1>9, <1>10, <1>11 DEF Facts

\* An upload seals its parts under the current key.
LEMMA UploadInv ==
  ASSUME Typed, Facts, StartUpload \/ StorePart
  PROVE  Facts'
<1>1. /\ salt' = salt /\ hash' = hash /\ UNCHANGED <<keys, sessions, req, spoiled>>
      /\ job' \in {job, None, keys[1]} /\ sealed' \subseteq sealed \cup ({job} \ {None})
      /\ hash = None => job' = None /\ sealed' = {}
  BY DEF StartUpload, StorePart, stored, Facts, NoKey
<1>2. \A g \in Askers : Sound(g)'
  BY <1>1, SoundStays DEF Facts
<1>3. Alone' /\ Cut' /\ Engines' /\ NoKey' /\ Current'
  BY <1>1 DEF Facts, Alone, Cut, Engines, NoKey, Current, Going, Replaces, Halfway, At, Ahead, Dropping
<1>4. First'
  BY <1>1 DEF Facts, First
<1>. QED
  BY <1>2, <1>3, <1>4 DEF Facts

\* A stop forgets keys, sessions and requests; it may cut a replacement in two.
LEMMA StopInv ==
  ASSUME Typed, Facts, Stop, Whole'
  PROVE  Facts'
<1>1. /\ salt' = salt /\ hash' = hash /\ sessions' = {} /\ job' = None /\ sealed' = sealed
      /\ keys' = Locked /\ Spoil(IF \E h \in Handlers : Halfway(h) THEN {"torn"} ELSE {})
  BY DEF Stop, stored
<1>2. spoiled \subseteq spoiled' /\ \A h \in Handlers : ~Halfway(h)
  BY <1>1 DEF Spoil, Whole
<1>3. \A h \in Askers : ~Halfway(h)
  BY <1>2, Replacer DEF Halfway, At, Going
<1>4. \A h \in Askers : req'[h].at \in {"idle", "done"}
  BY StopIs DEF Askers
<1>5. \A i \in 1 .. 3 : keys'[i] = None
  BY <1>1, LockedIs
<1>6. \A g \in Askers : Sound(g)'
  BY <1>4 DEF Sound, At
<1>7. Alone' /\ Cut'
  BY <1>1, <1>3, <1>4 DEF Facts, Alone, Cut, Going
<1>8. Engines' /\ NoKey' /\ Current' /\ First'
  BY <1>1, <1>2, <1>5 DEF Facts, Engines, NoKey, Current, First
<1>. QED
  BY <1>6, <1>7, <1>8 DEF Facts

\* What is spoiled stays spoiled.
LEMMA Gathers == [Next]_vars => spoiled \subseteq spoiled'
<1>. SUFFICES ASSUME [Next]_vars PROVE spoiled \subseteq spoiled'
  OBVIOUS
<1>1. \A what : Spoil(what) => spoiled \subseteq spoiled'
  BY DEF Spoil
<1>2. \A value, seen : Read(value, seen) => spoiled \subseteq spoiled'
  BY <1>1 DEF Read
<1>3. ASSUME NEW h \in Handlers, NEW op \in Ops, NEW pw \in Passwords, Begin(h, op, pw)
      PROVE  spoiled \subseteq spoiled'
  BY <1>1, <1>3 DEF Begin
<1>4. ASSUME NEW h \in Handlers, ReadHash(h) \/ UnlockSalt(h) \/ ReplaceSalt(h)
      PROVE  spoiled \subseteq spoiled'
  BY <1>1, <1>2, <1>4 DEF ReadHash, UnlockSalt, ReplaceSalt
<1>5. ASSUME NEW h \in Handlers, SetKey(h) \/ Issue(h) \/ \E s \in sessions : Lock(h, s)
      PROVE  spoiled \subseteq spoiled'
  BY <1>1, <1>5 DEF SetKey, Issue, Lock
<1>6. ASSUME NEW pw \in BootPasswords, BootRead(pw) PROVE spoiled \subseteq spoiled'
  BY <1>1, <1>2, <1>6 DEF BootRead
<1>7. ASSUME NEW h \in Handlers \cup {Boot}, StoreSalt(h) \/ StoreHash(h)
      PROVE  spoiled \subseteq spoiled'
  BY <1>1, <1>7 DEF StoreSalt, StoreHash
<1>8. CASE BootKeys \/ StartUpload \/ StorePart \/ Stop \/ UNCHANGED vars
  BY <1>1, <1>8 DEF BootKeys, StartUpload, StorePart, Stop, vars
<1>. QED
  BY <1>3, <1>4, <1>5, <1>6, <1>7, <1>8 DEF Next

\* Before the first boot there is no password and no key.
LEMMA InvInit == Init => KeyInv
<1>. SUFFICES ASSUME Init PROVE Facts
  BY DEF KeyInv
<1>1. Blank.at = "idle"
  BY BlankIs
<1>2. /\ \A h \in Askers : req[h].at = "idle"
      /\ hash = None /\ job = None /\ sealed = {} /\ sessions = {} /\ keys = Locked
  BY <1>1 DEF Init, Askers
<1>3. \A i \in 1 .. 3 : keys[i] = None
  BY <1>2, LockedIs
<1>4. \A h \in Askers : Sound(h)
  BY <1>2 DEF Sound, At
<1>. QED
  BY <1>2, <1>3, <1>4 DEF Facts, Alone, Going, Cut, Engines, NoKey, Current, First

\* Every step keeps what holds while the settings are whole.
LEMMA InvStep == Typed /\ KeyInv /\ [Next]_vars => KeyInv'
<1>. SUFFICES ASSUME Typed, KeyInv, [Next]_vars, Whole' PROVE Facts'
  BY DEF KeyInv
<1>0. Facts
  BY Gathers, WholeStays DEF KeyInv
<1>1. ASSUME NEW h \in Handlers, NEW op \in Ops, NEW pw \in Passwords, Begin(h, op, pw) PROVE Facts'
  BY <1>0, <1>1, BeginInv
<1>2. ASSUME NEW h \in Handlers, ReadHash(h) PROVE Facts'
  BY <1>0, <1>2, ReadHashInv
<1>3. ASSUME NEW h \in Handlers, UnlockSalt(h) PROVE Facts'
  BY <1>0, <1>3, UnlockSaltInv
<1>4. ASSUME NEW h \in Handlers, ReplaceSalt(h) PROVE Facts'
  BY <1>0, <1>4, ReplaceSaltInv
<1>5. ASSUME NEW h \in Handlers, SetKey(h) PROVE Facts'
  BY <1>0, <1>5, SetKeyInv
<1>6. ASSUME NEW h \in Handlers, Issue(h) PROVE Facts'
  BY <1>0, <1>6, IssueInv
<1>7. ASSUME NEW h \in Handlers, NEW s \in sessions, Lock(h, s) PROVE Facts'
  BY <1>0, <1>7, LockInv
<1>8. ASSUME NEW pw \in BootPasswords, BootRead(pw) PROVE Facts'
  BY <1>0, <1>8, BootReadInv
<1>9. CASE BootKeys
  BY <1>0, <1>9, BootKeysInv
<1>10. ASSUME NEW h \in Handlers \cup {Boot}, StoreSalt(h) PROVE Facts'
  BY <1>0, <1>10, StoreSaltInv DEF Askers
<1>11. ASSUME NEW h \in Handlers \cup {Boot}, StoreHash(h) PROVE Facts'
  BY <1>0, <1>11, StoreHashInv DEF Askers
<1>12. CASE StartUpload \/ StorePart
  BY <1>0, <1>12, UploadInv
<1>13. CASE Stop
  BY <1>0, <1>13, StopInv
<1>14. CASE UNCHANGED vars
  <2>1. /\ salt' = salt /\ hash' = hash /\ keys' = keys /\ sessions' = sessions /\ req' = req
        /\ job' = job /\ sealed' = sealed /\ spoiled' = spoiled
    BY <1>14 DEF vars
  <2>2. \A g \in Askers : Sound(g)'
    BY <1>0, <2>1, SoundStays DEF Facts
  <2>. QED
    BY <1>0, <2>1, <2>2
       DEF Facts, Alone, Cut, Engines, NoKey, Current, First, Going, Replaces, Halfway, At, Ahead, Dropping
<1>. QED
  BY <1>1, <1>2, <1>3, <1>4, <1>5, <1>6, <1>7, <1>8, <1>9, <1>10, <1>11, <1>12, <1>13, <1>14 DEF Next

\* Both hold always.
LEMMA KeyInvariant == Spec => [](Typed /\ KeyInv)
<1>1. Typed /\ KeyInv /\ [Next]_vars => (Typed /\ KeyInv)'
  BY TypedStep, InvStep
<1>. QED
  BY <1>1, TypedInit, InvInit, PTL DEF Spec

-----------------------------------------------------------------------------
(***************************************************************************)
(* The properties.                                                         *)
(***************************************************************************)
\* The active requests are those under way.
LEMMA ActiveIs == Typed => Active = {h \in Askers : Going(h)}
BY DEF Typed, Active, Going

\* Some password always opens the drive: the stored hash is of a key made with the
\* stored salt, whatever was begun, cut off by a stop or refused.
THEOREM SomePasswordOpens == Spec => []Unlockable
<1>1. Typed /\ KeyInv => Unlockable
  <2>. SUFFICES ASSUME Typed, KeyInv, Whole, ~\E h \in Active : Halfway(h), hash # None
                PROVE  hash[2] = salt
    BY DEF Unlockable
  <2>1. \A h \in Askers : Halfway(h) => h \in Active
    BY ActiveIs DEF Halfway, At, Going
  <2>. QED
    BY <2>1 DEF KeyInv, Facts, Cut
<1>. QED
  BY <1>1, KeyInvariant, PTL

\* Once no request is under way the three engines hold one key, that of the stored hash.
THEOREM EnginesHoldOneKey == Spec => []EnginesAgree
<1>1. Typed /\ KeyInv => EnginesAgree
  <2>. SUFFICES ASSUME Typed, KeyInv, Whole, Active = {}
                PROVE  /\ keys[1] = keys[2] /\ keys[2] = keys[3]
                       /\ keys[1] \in {None, hash}
    BY DEF EnginesAgree
  <2>1. \A h \in Handlers : ~At(h, "keys")
    BY ActiveIs DEF Askers, Going, At
  <2>. QED
    BY <2>1 DEF KeyInv, Facts, Engines, Ahead
<1>. QED
  BY <1>1, KeyInvariant, PTL

\* What is on Discord can be opened with the password, until it is replaced.
THEOREM PartsCanBeOpened == Spec => []PartsOpen
<1>1. KeyInv => PartsOpen
  BY DEF KeyInv, Facts, First, PartsOpen
<1>. QED
  BY <1>1, KeyInvariant, PTL

\* No session outlives a password that the sign-in page replaced.
THEOREM SessionsAreCurrent == Spec => []SessionsCurrent
<1>1. Typed /\ KeyInv => SessionsCurrent
  <2>. SUFFICES ASSUME Typed, KeyInv, Whole, Active = {}, "kept" \notin spoiled
                PROVE  \A s \in sessions : s[2] = hash
    BY DEF SessionsCurrent
  <2>1. ~Dropping
    BY ActiveIs DEF Dropping, Askers, Going
  <2>. QED
    BY <2>1 DEF KeyInv, Facts, Current
<1>. QED
  BY <1>1, KeyInvariant, PTL
===============================================================================
