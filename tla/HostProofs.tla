----------------------------- MODULE HostProofs -----------------------------
(***************************************************************************)
(* Proofs about the other parts of MCHost: logging in (Auth), instructions *)
(* (Instructions), offline archives (OfflineImport, ArchiveFormat), large  *)
(* objects (ObjectInbox) and the way of a session's log (SessionTransfer), *)
(* for any values of their constants that the assumptions of MCHost allow; *)
(* and that all parts keep their types.                                    *)
(***************************************************************************)
EXTENDS HostNodesProofs, PeerScheduleProofs

-----------------------------------------------------------------------------
(* Auth                                                                    *)

Accounts == [user : User, password : Password, secret : 1..MaxSecrets]
Signed == [user : User, secret : 1..MaxSecrets]
Counts == [failures : 0..MaxFailures, lock : {"off", "on", "over"}]

(* What is in memory is the file's if it has the file's time, and a        *)
(* request was let in with the file's cookie.                              *)
StoreInv ==
  /\ file \in Accounts \cup {None} /\ cache \in Accounts \cup {None}
  /\ reset \in Accounts \cup {None} /\ served \in Signed \cup {None}
  /\ seen \in 0..MaxSecrets /\ cookies \subseteq Signed
  /\ seen <= Login!Stamp(file)
  /\ seen = Login!Stamp(file) => cache = file
  /\ RotationRevokes

(* The limiter has counted every guess that it has not forgotten.          *)
Counted(l, g) ==
  /\ l = None => g = 0
  /\ l # None =>
       /\ l.lock = "over" => g = 0
       /\ l.lock = "off" => g = l.failures /\ g < MaxFailures
       /\ g <= MaxFailures

LimiterInv ==
  /\ limiter \in [Ip -> Counts \cup {None}] /\ guesses \in [Ip -> Nat]
  /\ \A ip \in Ip : Counted(limiter[ip], guesses[ip])

-----------------------------------------------------------------------------
(* The limiter *)

(* A full limiter forgets addresses.                                       *)
LEMMA SweptIs ==
  ASSUME NEW l \in [Ip -> Counts \cup {None}]
  PROVE  /\ Login!Swept(l) \in [Ip -> Counts \cup {None}]
         /\ \A ip \in Ip : Login!Swept(l)[ip] \in {l[ip], None}
BY DEF Login!Swept

(* A wrong password is counted.                                            *)
LEMMA WrongKeeps ==
  ASSUME LimiterInv, NEW ip \in Ip, ~Login!Locked(ip), Login!Wrong(ip)
  PROVE  LimiterInv'
<1> USE LoginAssumption
<1> DEFINE n == Login!Failures(ip) + 1
           full == n >= MaxFailures
           new == [failures |-> IF full THEN 0 ELSE n, lock |-> IF full THEN "on" ELSE "off"]
           l == [limiter EXCEPT ![ip] = new]
<1>1. n \in 1 .. MaxFailures /\ n = guesses[ip] + 1
  BY DEF LimiterInv, Counted, Counts, Login!Failures, Login!Locked
<1>2. new \in Counts /\ Counted(new, guesses[ip] + 1)
  <2>1. CASE full
    <3>1. new = [failures |-> 0, lock |-> "on"]
      BY <2>1
    <3> QED BY <1>1, <3>1 DEF Counts, Counted, LimiterInv
  <2>2. CASE ~full
    <3>1. new = [failures |-> n, lock |-> "off"]
      BY <2>2
    <3> QED BY <1>1, <2>2, <3>1 DEF Counts, Counted, LimiterInv
  <2> QED BY <2>1, <2>2
<1>3. limiter' = Login!Swept(l)
  BY DEF Login!Wrong, Login!RecordFailure
<1> HIDE DEF n, full, new
<1>4. l \in [Ip -> Counts \cup {None}] /\ \A i \in Ip : l[i] = IF i = ip THEN new ELSE limiter[i]
  BY <1>2 DEF LimiterInv
<1> HIDE DEF l
<1>5. limiter' \in [Ip -> Counts \cup {None}] /\ \A i \in Ip : limiter'[i] \in {l[i], None}
  BY <1>3, <1>4, SweptIs
<1>6. /\ guesses' \in [Ip -> Nat]
      /\ \A i \in Ip : guesses'[i] = IF limiter'[i] = None THEN 0
                                     ELSE guesses[i] + IF i = ip THEN 1 ELSE 0
  BY DEF Login!Wrong, LimiterInv
<1>7. ASSUME NEW i \in Ip PROVE Counted(limiter[i], guesses[i])'
  <2>1. CASE limiter'[i] = None
    BY <1>6, <2>1, LoginAssumption DEF Counted
  <2>2. CASE limiter'[i] # None /\ i = ip
    <3>1. limiter'[i] = new /\ guesses'[i] = guesses[ip] + 1
      BY <1>4, <1>5, <1>6, <2>2
    <3> QED BY <1>2, <3>1 DEF Counted
  <2>3. CASE limiter'[i] # None /\ i # ip
    <3>1. limiter'[i] = limiter[i] /\ guesses'[i] = guesses[i]
      BY <1>4, <1>5, <1>6, <2>3 DEF LimiterInv
    <3> QED BY <3>1 DEF Counted, LimiterInv
  <2> QED BY <2>1, <2>2, <2>3
<1> QED BY <1>5, <1>6, <1>7 DEF LimiterInv

(* A right one is not held against its address.                            *)
LEMMA RightKeeps ==
  ASSUME LimiterInv, NEW ip \in Ip, Login!Right(ip) \/ Login!Unlock(ip)
  PROVE  LimiterInv'
<1> USE LoginAssumption
<1>1. /\ limiter' \in [Ip -> Counts \cup {None}] /\ guesses' \in [Ip -> Nat]
      /\ guesses'[ip] = 0
      /\ \A i \in Ip : i # ip => limiter'[i] = limiter[i] /\ guesses'[i] = guesses[i]
      /\ limiter'[ip] # None => limiter'[ip].lock = "over"
  <2>1. CASE Login!Right(ip)
    BY <2>1 DEF LimiterInv, Login!Right
  <2>2. CASE Login!Unlock(ip)
    <3>1. limiter[ip] \in Counts /\ limiter' = [limiter EXCEPT ![ip] = [limiter[ip] EXCEPT !.lock = "over"]]
      BY <2>2 DEF LimiterInv, Login!Unlock, Login!Locked
    <3>2. [limiter[ip] EXCEPT !.lock = "over"] \in Counts /\ [limiter[ip] EXCEPT !.lock = "over"].lock = "over"
      BY <3>1 DEF Counts
    <3> QED BY <2>2, <3>1, <3>2 DEF LimiterInv, Login!Unlock
  <2> QED BY <2>1, <2>2
<1>2. \A i \in Ip : Counted(limiter[i], guesses[i])'
  BY <1>1 DEF LimiterInv, Counted
<1> QED BY <1>1, <1>2 DEF LimiterInv

-----------------------------------------------------------------------------
(* The credentials *)

(* maybeReload() makes the data that the server goes on with the file's.   *)
LEMMA LoadedIsFile == StoreInv => Login!Loaded = file
BY DEF StoreInv, Login!Loaded

(* The file is read again when its time has changed.                       *)
LEMMA ReloadKeeps ==
  ASSUME StoreInv, Login!Reload, UNCHANGED <<file, reset>>, cookies' \subseteq Signed,
         served' = None \/ (served' \in Signed /\ Login!Valid(served'))
  PROVE  StoreInv'
<1>1. cache' = file /\ seen' = Login!Stamp(file)
  BY LoadedIsFile DEF Login!Reload
<1>2. Login!Stamp(file) \in 0..MaxSecrets
  BY LoginAssumption DEF StoreInv, Login!Stamp, Accounts
<1>3. RotationRevokes'
  BY LoadedIsFile DEF RotationRevokes, Login!RotationRevokes, Login!Valid, Login!CookieOf
<1> QED BY <1>1, <1>2, <1>3 DEF StoreInv, Login!Stamp

(* A new secret.                                                           *)
LEMMA NewSecretType ==
  ASSUME StoreInv, Login!NewSecret <= MaxSecrets
  PROVE  Login!NewSecret \in 1..MaxSecrets /\ Login!NewSecret = Login!Stamp(file) + 1
BY LoginAssumption DEF StoreInv, Login!NewSecret, Login!Stamp, Accounts

(* New credentials are written.                                            *)
LEMMA StoreKeeps ==
  ASSUME StoreInv, NEW u \in User, NEW p \in Password, Login!Store(u, p),
         served' = None, UNCHANGED reset
  PROVE  StoreInv'
<1> DEFINE new == [user |-> u, password |-> p, secret |-> Login!NewSecret]
<1>1. Login!NewSecret \in 1..MaxSecrets
  BY NewSecretType DEF Login!Store
<1>2. /\ new \in Accounts /\ file' = new /\ cache' = new /\ seen' = new.secret
      /\ cookies' = cookies \cup {Login!CookieOf(new)} /\ Login!CookieOf(new) \in Signed
  BY <1>1 DEF Login!Store, Login!CookieOf, Accounts, Signed
<1>3. new # None /\ new.secret \in 1..MaxSecrets
  BY <1>1, <1>2, LoginAssumption DEF Accounts
<1> HIDE DEF new
<1>4. Login!Stamp(file)' = new.secret
  BY <1>2, <1>3 DEF Login!Stamp
<1> QED BY <1>2, <1>3, <1>4, LoginAssumption
        DEF StoreInv, RotationRevokes, Login!RotationRevokes

(* Another process resets the password.                                    *)
LEMMA ResetKeeps ==
  ASSUME StoreInv,
         \/ Login!ResetLoad
         \/ \E u \in User, p \in Password : Login!ResetSave(u, p)
  PROVE  StoreInv'
<1>1. CASE Login!ResetLoad
  BY <1>1 DEF Login!ResetLoad, StoreInv, RotationRevokes, Login!RotationRevokes, Login!Stamp
<1>2. CASE \E u \in User, p \in Password : Login!ResetSave(u, p)
  <2>1. PICK u \in User, p \in Password : Login!ResetSave(u, p)
    BY <1>2
  <2>2. Login!NewSecret \in 1..MaxSecrets /\ Login!NewSecret = Login!Stamp(file) + 1
    BY <2>1, NewSecretType DEF Login!ResetSave
  <2>3. file' = [user |-> u, password |-> p, secret |-> Login!NewSecret]
    BY <2>1 DEF Login!ResetSave
  <2>4. file' \in Accounts /\ file'.secret = Login!Stamp(file) + 1
    BY <2>2, <2>3 DEF Accounts
  <2>5. Login!Stamp(file)' = Login!Stamp(file) + 1
    BY <2>4, LoginAssumption DEF Login!Stamp, Accounts
  <2>6. Login!Stamp(file) \in Nat
    BY LoginAssumption DEF Login!Stamp, StoreInv, Accounts
  <2>7. seen' = seen /\ seen <= Login!Stamp(file) /\ seen \in Nat
    BY <2>1 DEF Login!ResetSave, StoreInv
  <2> QED BY <2>1, <2>4, <2>5, <2>6, <2>7
          DEF Login!ResetSave, StoreInv, RotationRevokes, Login!RotationRevokes
<1> QED BY <1>1, <1>2

-----------------------------------------------------------------------------
(* A cookie is of an account.                                              *)
LEMMA CookieType == ASSUME NEW a \in Accounts PROVE Login!CookieOf(a) \in Signed
BY DEF Login!CookieOf, Accounts, Signed

(* A login.                                                                *)
LEMMA LoginKeeps ==
  ASSUME StoreInv, LimiterInv, NEW ip \in Ip, NEW u, NEW p, Login!Login(ip, u, p)
  PROVE  StoreInv' /\ LimiterInv'
<1>1. Login!Loaded = file /\ file # None /\ file \in Accounts
  BY LoadedIsFile DEF Login!Login, StoreInv
<1>2. cookies' \subseteq Signed
  BY <1>1, CookieType DEF Login!Login, StoreInv
<1>3. StoreInv'
  BY <1>2, ReloadKeeps DEF Login!Login
<1>4. LimiterInv'
  BY WrongKeeps, RightKeeps DEF Login!Login
<1> QED BY <1>3, <1>4

(* A user changes the password or the name.                                *)
LEMMA ChangeKeeps ==
  ASSUME StoreInv, LimiterInv, NEW ip \in Ip, NEW c \in cookies, NEW p, NEW new,
         Login!Loaded # None, new \in Login!Changes, Login!Change(ip, c, p, new)
  PROVE  StoreInv' /\ LimiterInv'
<1>1. Login!Loaded = file /\ file # None /\ file \in Accounts
  BY LoadedIsFile DEF StoreInv
<1>2. new = None \/ (new.user \in User /\ new.password \in Password)
  BY <1>1 DEF Login!Changes, Accounts
<1>3. LimiterInv'
  BY WrongKeeps, RightKeeps DEF Login!Change
<1>4. ASSUME Login!Reload, UNCHANGED <<file, cookies>> PROVE StoreInv'
  BY <1>4, ReloadKeeps DEF Login!Change, StoreInv
<1>5. ASSUME new # None, Login!Store(new.user, new.password) PROVE StoreInv'
  BY <1>2, <1>5, StoreKeeps DEF Login!Change
<1>6. \/ Login!Reload /\ UNCHANGED <<file, cookies>>
      \/ new # None /\ Login!Store(new.user, new.password)
  BY DEF Login!Change
<1> QED BY <1>3, <1>4, <1>5, <1>6

(* A request is let in or not.                                             *)
LEMMA CookiesKeep ==
  ASSUME StoreInv, LimiterInv, NEW c \in cookies, Login!Serve(c) \/ Login!Age(c)
  PROVE  StoreInv' /\ LimiterInv'
<1>1. c \in Signed
  BY DEF StoreInv
<1>2. CASE Login!Serve(c)
  <2>1. served' = None \/ (served' \in Signed /\ Login!Valid(served'))
    BY <1>1, <1>2 DEF Login!Serve
  <2>2. /\ Login!Reload /\ UNCHANGED <<file, reset, cookies, limiter, guesses>>
        /\ cookies' \subseteq Signed
    BY <1>2 DEF Login!Serve, StoreInv
  <2> QED BY <2>1, <2>2, ReloadKeeps DEF LimiterInv
<1>3. CASE Login!Age(c)
  BY <1>3 DEF Login!Age, StoreInv, LimiterInv, RotationRevokes, Login!RotationRevokes
<1> QED BY <1>2, <1>3

(* Credentials and counts, in every state.                                 *)
LEMMA LoginInvariance == MC_HostSpec => [](StoreInv /\ LimiterInv)
<1>1. MC_Init => StoreInv /\ LimiterInv
  <2>1. MC_Init => Login!Init
    BY DEF MC_Init
  <2>2. Login!Init => StoreInv /\ LimiterInv
    BY LoginAssumption DEF Login!Init, StoreInv, LimiterInv, Counted, Login!Stamp,
       RotationRevokes, Login!RotationRevokes
  <2> QED BY <2>1, <2>2
<1>2. StoreInv /\ LimiterInv /\ [MC_Next]_hostVars => (StoreInv /\ LimiterInv)'
  <2> SUFFICES ASSUME StoreInv, LimiterInv, [MC_Next]_hostVars PROVE StoreInv' /\ LimiterInv'
    OBVIOUS
  <2>1. Login!Next \/ UNCHANGED loginVars
    BY DEF MC_Next, hostVars
  <2>2. CASE UNCHANGED loginVars
    BY <2>2 DEF loginVars, StoreInv, LimiterInv, RotationRevokes, Login!RotationRevokes,
                Login!Stamp
  <2>3. ASSUME NEW u \in User, NEW p \in Password, Login!Register(u, p)
        PROVE  StoreInv' /\ LimiterInv'
    BY <2>3, StoreKeeps DEF Login!Register, LimiterInv
  <2>4. ASSUME NEW u \in User, NEW p \in Password, Login!ResetSave(u, p)
        PROVE  StoreInv' /\ LimiterInv'
    BY <2>4, ResetKeeps DEF Login!ResetSave, LimiterInv
  <2>5. ASSUME Login!ResetLoad PROVE StoreInv' /\ LimiterInv'
    BY <2>5, ResetKeeps DEF Login!ResetLoad, LimiterInv
  <2>6. ASSUME NEW ip \in Ip, Login!Unlock(ip) PROVE StoreInv' /\ LimiterInv'
    BY <2>6, RightKeeps DEF Login!Unlock, StoreInv, RotationRevokes, Login!RotationRevokes,
       Login!Stamp
  <2>7. ASSUME Login!Next PROVE StoreInv' /\ LimiterInv'
    BY <2>3, <2>4, <2>5, <2>6, <2>7, LoginKeeps, ChangeKeeps, CookiesKeep DEF Login!Next
  <2> QED BY <2>1, <2>2, <2>7
<1> QED BY <1>1, <1>2, PTL DEF MC_HostSpec

(* A request from elsewhere is let in only with a cookie of the user and   *)
(* the secret that are in the file: whoever changes or resets the password *)
(* ends all sessions, also those of a process that has not read the file   *)
(* since.                                                                  *)
THEOREM RotationEndsSessions == MC_HostSpec => []RotationRevokes
BY LoginInvariance, PTL DEF StoreInv

(* From one address no more than MaxFailures wrong passwords are tried     *)
(* until the lock is over, a password is right or the full limiter forgets *)
(* the address, whichever of the three forms they are given in.            *)
THEOREM GuessesAreBounded == MC_HostSpec => []GuessesBounded
<1>1. LimiterInv => GuessesBounded
  BY LoginAssumption DEF LimiterInv, Counted, GuessesBounded, Login!GuessesBounded
<1> QED BY <1>1, LoginInvariance, PTL

-----------------------------------------------------------------------------
(* Instructions                                                            *)

TextValue == [text : Text \cup {None}, revision : 0 .. MaxRevision]
Opened == [stored : TextValue, cleared : BOOLEAN]

(* A dialog has the present text, or one of an earlier revision, unless    *)
(* the text was cleared since.                                             *)
Follows(d) ==
  d # None /\ ~d.cleared =>
    \/ d.stored = Texts!Current
    \/ d.stored.revision < Texts!Current.revision

TextsShape ==
  /\ record \in TextValue \cup {None} /\ (record # None => record.revision > 0)
  /\ dialog \in [Editor -> Opened \cup {None}]
  /\ snapshot \in [Session -> TextValue \cup {None}]
  /\ step \in [Session -> {None, "resolve", "enter"}]
  /\ entered \in [Session -> {<<>>} \cup {<<t>> : t \in Text}]
  /\ gone \subseteq Session

TextsInv == TextsShape /\ \A e \in Editor : Follows(dialog[e])

-----------------------------------------------------------------------------
(* No text is not a text.                                                  *)
LEMMA NoText ==
  /\ \A v \in TextValue : v # None
  /\ \A d \in Opened : d # None
BY TextsAssumption DEF TextValue, Opened

(* The present text.                                                       *)
LEMMA CurrentType ==
  ASSUME TextsShape
  PROVE  /\ Texts!Current \in TextValue /\ Texts!Current.revision \in 0 .. MaxRevision
         /\ record # None => Texts!Current = record
         /\ record = None => Texts!Current.revision = 0
BY TextsAssumption DEF TextsShape, TextValue, Texts!Current, Texts!Stored

(* A text of a higher revision leaves every dialog behind.                 *)
LEMMA Supersedes ==
  ASSUME TextsInv, NEW t \in Text \cup {None}, NEW r \in 1 .. MaxRevision,
         r > Texts!Current.revision, record' = Texts!Stored(t, r)
  PROVE  /\ record' \in TextValue /\ record'.revision > 0
         /\ \A e \in Editor : dialog[e] # None /\ ~dialog[e].cleared =>
              dialog[e].stored.revision < Texts!Current'.revision
<1>1. record' = [text |-> t, revision |-> r]
  BY DEF Texts!Stored
<1>2. record' \in TextValue /\ record'.revision = r
  BY <1>1, TextsAssumption DEF TextValue
<1>3. Texts!Current' = record'
  BY <1>2, NoText DEF Texts!Current
<1>4. Texts!Current.revision \in Nat
  BY CurrentType, TextsAssumption DEF TextsInv
<1>5. ASSUME NEW e \in Editor, dialog[e] # None, ~dialog[e].cleared
      PROVE  dialog[e].stored.revision <= Texts!Current.revision
  <2>1. dialog[e].stored.revision \in Nat
    BY <1>5, TextsAssumption DEF TextsInv, TextsShape, Opened, TextValue
  <2> QED BY <1>4, <1>5, <2>1 DEF TextsInv, Follows
<1>6. \A e \in Editor : dialog[e] # None => dialog[e].stored.revision \in Nat
  BY TextsAssumption DEF TextsInv, TextsShape, Opened, TextValue
<1> QED BY <1>2, <1>3, <1>4, <1>5, <1>6, TextsAssumption

(* Steps that leave the text alone, and open or close dialogs.             *)
LEMMA DialogKeeps ==
  ASSUME TextsInv, NEW e \in Editor, Texts!Load(e) \/ Texts!Cancel(e)
  PROVE  TextsInv'
<1> DEFINE d == [stored |-> Texts!Current, cleared |-> FALSE]
<1>1. d \in Opened /\ Follows(d)
  BY CurrentType DEF TextsInv, Opened, Follows
<1> HIDE DEF d
<1>2. PICK x \in {d, None} : dialog' = [dialog EXCEPT ![e] = x]
  BY DEF Texts!Load, Texts!Cancel, d
<1>3. UNCHANGED <<record, snapshot, step, entered, gone>>
  BY DEF Texts!Load, Texts!Cancel
<1>4. Texts!Current' = Texts!Current
  BY <1>3 DEF Texts!Current
<1>5. /\ dialog' \in [Editor -> Opened \cup {None}]
      /\ \A f \in Editor : dialog'[f] = IF f = e THEN x ELSE dialog[f]
  BY <1>1, <1>2 DEF TextsInv, TextsShape
<1>6. \A f \in Editor : Follows(dialog[f])'
  BY <1>1, <1>4, <1>5 DEF TextsInv, Follows
<1> QED BY <1>3, <1>5, <1>6 DEF TextsInv, TextsShape

(* An editor saves.                                                        *)
LEMMA SaveKeeps ==
  ASSUME TextsInv, NEW e \in Editor, NEW t \in Text, Texts!Save(e, t)
  PROVE  TextsInv'
<1> DEFINE r == Texts!Current.revision + 1
<1>1. Texts!Current.revision \in 0 .. MaxRevision /\ Texts!Current.revision < MaxRevision
  BY CurrentType DEF TextsInv, Texts!Save
<1>2. r \in 1 .. MaxRevision /\ r > Texts!Current.revision /\ record' = Texts!Stored(t, r)
  BY <1>1, TextsAssumption DEF Texts!Save
<1> HIDE DEF r
<1>3. /\ record' \in TextValue /\ record'.revision > 0
      /\ \A f \in Editor : dialog[f] # None /\ ~dialog[f].cleared =>
           dialog[f].stored.revision < Texts!Current'.revision
  BY <1>2, Supersedes
<1>4. /\ UNCHANGED <<snapshot, step, entered, gone>>
      /\ dialog' = [dialog EXCEPT ![e] = None]
  BY DEF Texts!Save
<1>5. /\ dialog' \in [Editor -> Opened \cup {None}]
      /\ \A f \in Editor : dialog'[f] \in {dialog[f], None}
  BY <1>4 DEF TextsInv, TextsShape
<1>6. \A f \in Editor : Follows(dialog[f])'
  BY <1>3, <1>5 DEF Follows
<1> QED BY <1>3, <1>4, <1>5, <1>6 DEF TextsInv, TextsShape

(* An editor clears the text; the other dialogs learn of it.               *)
LEMMA ClearTextKeeps ==
  ASSUME TextsInv, NEW e \in Editor, Texts!Clear(e)
  PROVE  TextsInv'
<1> DEFINE b == record # None
<1>1. /\ record' = None /\ UNCHANGED <<snapshot, step, entered, gone>>
      /\ dialog' = [d \in Editor |->
                  IF d = e \/ dialog[d] = None THEN None
                  ELSE [dialog[d] EXCEPT !.cleared = dialog[d].cleared \/ b]]
  BY DEF Texts!Clear
<1>2. ASSUME NEW d \in Editor
      PROVE  \/ dialog'[d] = None
             \/ /\ dialog[d] \in Opened /\ dialog'[d] \in Opened
                /\ dialog'[d].stored = dialog[d].stored
                /\ dialog'[d].cleared <=> dialog[d].cleared \/ b
  <2> DEFINE h == dialog[d].cleared \/ b
  <2>1. CASE d = e \/ dialog[d] = None
    BY <1>1, <2>1
  <2>2. CASE ~(d = e \/ dialog[d] = None)
    <3>1. dialog[d] \in Opened /\ h \in BOOLEAN
      BY <2>2 DEF TextsInv, TextsShape
    <3>2. dialog'[d] = [dialog[d] EXCEPT !.cleared = h]
      BY <1>1, <2>2
    <3> HIDE DEF h
    <3>3. dialog'[d] \in Opened /\ dialog'[d].stored = dialog[d].stored /\ dialog'[d].cleared = h
      BY <3>1, <3>2 DEF Opened
    <3> QED BY <3>1, <3>3 DEF h
  <2> QED BY <2>1, <2>2
<1>3. dialog' \in [Editor -> Opened \cup {None}]
  <2>1. \A d \in Editor : dialog'[d] \in Opened \cup {None}
    BY <1>2
  <2> QED BY <1>1, <2>1
<1>4. ~b => Texts!Current' = Texts!Current
  BY <1>1 DEF Texts!Current
<1>5. ASSUME NEW d \in Editor PROVE Follows(dialog[d])'
  <2>1. CASE dialog'[d] = None
    BY <2>1 DEF Follows
  <2>2. CASE dialog'[d] # None /\ dialog'[d].cleared
    BY <2>2 DEF Follows
  <2>3. CASE dialog'[d] # None /\ ~dialog'[d].cleared
    <3>1. /\ dialog[d] \in Opened /\ dialog'[d].stored = dialog[d].stored
          /\ ~dialog[d].cleared /\ ~b
      BY <1>2, <2>3
    <3>2. Follows(dialog[d]) /\ dialog[d] # None
      BY <3>1, NoText DEF TextsInv
    <3> QED BY <1>4, <3>1, <3>2 DEF Follows
  <2> QED BY <2>1, <2>2, <2>3
<1> QED BY <1>1, <1>3, <1>5 DEF TextsInv, TextsShape

(* The sessions do not touch the text; a snapshot is one of the texts.     *)
LEMMA SessionKeeps ==
  ASSUME TextsInv, NEW s \in Session,
         Texts!Begin(s) \/ Texts!Resolve(s) \/ Texts!Enter(s) \/ Texts!Abort(s) \/ Texts!Delete(s)
  PROVE  TextsInv'
<1>1. record' = record /\ dialog' = dialog
  BY DEF Texts!Begin, Texts!Resolve, Texts!Enter, Texts!Abort, Texts!Delete
<1>2. \A e \in Editor : Follows(dialog[e])'
  BY <1>1 DEF TextsInv, Follows, Texts!Current
<1>3. step' \in [Session -> {None, "resolve", "enter"}]
  BY DEF TextsInv, TextsShape, Texts!Begin, Texts!Resolve, Texts!Enter, Texts!Abort,
     Texts!Delete
<1>4. gone' \subseteq Session
  BY DEF TextsInv, TextsShape, Texts!Begin, Texts!Resolve, Texts!Enter, Texts!Abort,
     Texts!Delete
<1>5. snapshot' \in [Session -> TextValue \cup {None}]
  <2>1. CASE Texts!Resolve(s)
    <3>1. Texts!Stored(None, 0) \in TextValue /\ Texts!Current \in TextValue
      BY CurrentType, TextsAssumption DEF TextsInv, Texts!Stored, TextValue
    <3>2. PICK v \in TextValue : Texts!CreateIfAbsent(s, v)
      BY <2>1, <3>1 DEF Texts!Resolve
    <3> QED BY <3>2 DEF Texts!CreateIfAbsent, TextsInv, TextsShape
  <2>2. CASE ~Texts!Resolve(s)
    BY <2>2 DEF TextsInv, TextsShape, Texts!Begin, Texts!Enter, Texts!Abort, Texts!Delete
  <2> QED BY <2>1, <2>2
<1>6. entered' \in [Session -> {<<>>} \cup {<<t>> : t \in Text}]
  <2>1. CASE Texts!Enter(s)
    <3>1. CASE entered' = entered
      BY <3>1 DEF TextsInv, TextsShape
    <3>2. CASE entered' # entered
      <4>1. /\ snapshot[s] # None /\ snapshot[s].text # None
            /\ entered' = [entered EXCEPT ![s] = <<snapshot[s].text>>]
        BY <2>1, <3>2 DEF Texts!Enter
      <4>2. snapshot[s].text \in Text
        BY <4>1 DEF TextsInv, TextsShape, TextValue
      <4>3. PICK x \in {<<t>> : t \in Text} : entered' = [entered EXCEPT ![s] = x]
        BY <4>1, <4>2
      <4> QED BY <4>3 DEF TextsInv, TextsShape
    <3> QED BY <3>1, <3>2
  <2>2. CASE ~Texts!Enter(s)
    BY <2>2 DEF TextsInv, TextsShape, Texts!Begin, Texts!Resolve, Texts!Abort, Texts!Delete
  <2> QED BY <2>1, <2>2
<1> QED BY <1>1, <1>2, <1>3, <1>4, <1>5, <1>6 DEF TextsInv, TextsShape

(* An imported text is taken over if it is newer.                          *)
LEMMA ImportTextKeeps ==
  ASSUME TextsInv, NEW s \in Session, NEW t \in Text, NEW r \in 1 .. MaxRevision,
         Texts!Import(s, t, r)
  PROVE  TextsInv'
<1>1. UNCHANGED <<dialog, step, entered, gone>>
  BY DEF Texts!Import
<1>2. Texts!Stored(t, r) \in TextValue
  BY TextsAssumption DEF Texts!Stored, TextValue
<1>3. snapshot' \in [Session -> TextValue \cup {None}]
  BY <1>2 DEF Texts!Import, TextsInv, TextsShape
<1>4. CASE record' = record
  BY <1>1, <1>3, <1>4 DEF TextsInv, TextsShape, Follows, Texts!Current
<1>5. CASE record' # record
  <2>1. record' = Texts!Stored(t, r) /\ ~(Texts!Current.revision >= r)
    BY <1>5 DEF Texts!Import, Texts!RestoreWorkspace
  <2>2. r > Texts!Current.revision
    BY <2>1, CurrentType, TextsAssumption DEF TextsInv
  <2>3. /\ record' \in TextValue /\ record'.revision > 0
        /\ \A f \in Editor : dialog[f] # None /\ ~dialog[f].cleared =>
             dialog[f].stored.revision < Texts!Current'.revision
    BY <2>1, <2>2, Supersedes
  <2>4. \A f \in Editor : Follows(dialog[f])'
    BY <1>1, <2>3 DEF Follows
  <2> QED BY <1>1, <1>3, <2>3, <2>4 DEF TextsInv, TextsShape
<1> QED BY <1>4, <1>5

(* Every step of the instructions.                                         *)
LEMMA TextsStep ==
  TextsInv /\ [MC_Next]_hostVars => TextsInv'
<1> SUFFICES ASSUME TextsInv, [MC_Next]_hostVars PROVE TextsInv'
  OBVIOUS
<1>1. Texts!Next \/ UNCHANGED textsVars
  BY DEF MC_Next, hostVars
<1>2. CASE UNCHANGED textsVars
  BY <1>2 DEF textsVars, TextsInv, TextsShape, Follows, Texts!Current
<1>3. ASSUME Texts!Next PROVE TextsInv'
  BY <1>3, DialogKeeps, SaveKeeps, ClearTextKeeps, SessionKeeps, ImportTextKeeps
     DEF Texts!Next, Texts!Revision
<1> QED BY <1>1, <1>2, <1>3

(* Texts and dialogs, in every state.                                      *)
LEMMA TextsInvariance == MC_HostSpec => []TextsInv
<1>1. MC_Init => TextsInv
  <2>1. MC_Init => Texts!Init
    BY DEF MC_Init
  <2>2. Texts!Init => TextsInv
    BY DEF Texts!Init, TextsInv, TextsShape, Follows
  <2> QED BY <2>1, <2>2
<1> QED BY <1>1, TextsStep, PTL DEF MC_HostSpec

(* A session keeps the snapshot it began with until it is deleted:         *)
(* createIfAbsent() after the lookup of the workspace does not replace one *)
(* that an import brought meanwhile.                                       *)
THEOREM SnapshotsAreFrozen == MC_HostSpec => FrozenSnapshot
<1> DEFINE A == \A s \in Session : snapshot[s] # None => snapshot'[s] = snapshot[s] \/ s \in gone'
<1>1. TextsInv /\ [MC_Next]_hostVars => [A]_(Texts!vars)
  <2> SUFFICES ASSUME TextsInv, [MC_Next]_hostVars PROVE A \/ UNCHANGED Texts!vars
    OBVIOUS
  <2>1. Texts!Next \/ UNCHANGED textsVars
    BY DEF MC_Next, hostVars
  <2>2. snapshot \in [Session -> TextValue \cup {None}]
    BY DEF TextsInv, TextsShape
  <2>3. ASSUME NEW s \in Session, Texts!Resolve(s) PROVE A
    <3>1. PICK v : snapshot' = IF snapshot[s] = None THEN [snapshot EXCEPT ![s] = v] ELSE snapshot
      BY <2>3 DEF Texts!Resolve, Texts!CreateIfAbsent
    <3> QED BY <2>2, <3>1
  <2>4. ASSUME NEW s \in Session, Texts!Delete(s) PROVE A
    BY <2>2, <2>4 DEF Texts!Delete
  <2>5. ASSUME NEW s \in Session, NEW t \in Text, NEW r \in Texts!Revision, Texts!Import(s, t, r)
        PROVE  A
    BY <2>2, <2>5 DEF Texts!Import
  <2>6. ASSUME snapshot' = snapshot PROVE A
    BY <2>6
  <2>7. CASE Texts!Next
    <3>1. \/ snapshot' = snapshot
          \/ \E s \in Session : Texts!Resolve(s) \/ Texts!Delete(s)
          \/ \E s \in Session, t \in Text, r \in Texts!Revision : Texts!Import(s, t, r)
      BY <2>7 DEF Texts!Next, Texts!Load, Texts!Save, Texts!Clear, Texts!Cancel, Texts!Begin,
                  Texts!Enter, Texts!Abort
    <3> QED BY <2>3, <2>4, <2>5, <2>6, <3>1
  <2>8. CASE UNCHANGED textsVars
    BY <2>6, <2>8 DEF textsVars
  <2> QED BY <2>1, <2>7, <2>8
<1>2. MC_HostSpec => [][A]_(Texts!vars)
  BY <1>1, TextsInvariance, PTL DEF MC_HostSpec
<1> QED BY <1>2 DEF FrozenSnapshot, Texts!FrozenSnapshot

(* A save or a clear that replaces a text replaces the one its editor had  *)
(* loaded, although revisions also come from peers, unless the text was    *)
(* cleared while the dialog was open.                                      *)
THEOREM EditorsSawTheText == MC_HostSpec => EditsSeen
<1> DEFINE A == \A e \in Editor :
              dialog[e] # None /\ dialog'[e] = None /\ record # None /\ record' # record
                => dialog[e].stored = record \/ dialog[e].cleared
<1>1. TextsInv /\ [MC_Next]_hostVars => [A]_(Texts!vars)
  <2> SUFFICES ASSUME TextsInv, [MC_Next]_hostVars,
                      NEW e \in Editor, dialog[e] # None, dialog'[e] = None,
                      record # None, record' # record, ~dialog[e].cleared
               PROVE  dialog[e].stored = record
    OBVIOUS
  <2>1. Texts!Next
    BY DEF MC_Next, hostVars, textsVars
  <2>2. dialog \in [Editor -> Opened \cup {None}]
    BY DEF TextsInv, TextsShape
  <2>3. Texts!Current = record /\ (dialog[e].stored = record \/ dialog[e].stored.revision < record.revision)
    BY CurrentType DEF TextsInv, Follows
  <2>4. dialog[e].stored.revision \in Nat /\ record.revision \in Nat
    BY <2>2, TextsAssumption DEF TextsInv, TextsShape, Opened, TextValue
  <2>5. PICK f \in Editor : (\E t \in Text : Texts!Save(f, t)) \/ Texts!Clear(f)
    <3>1. ASSUME NEW s \in Session, NEW t \in Text, NEW r \in Texts!Revision, Texts!Import(s, t, r)
          PROVE  FALSE
      BY <3>1 DEF Texts!Import
    <3>2. ASSUME NEW f \in Editor, Texts!Load(f) \/ Texts!Cancel(f) PROVE FALSE
      BY <3>2 DEF Texts!Load, Texts!Cancel
    <3>3. ASSUME NEW s \in Session,
                 Texts!Begin(s) \/ Texts!Resolve(s) \/ Texts!Enter(s) \/ Texts!Abort(s) \/ Texts!Delete(s)
          PROVE  FALSE
      BY <3>3 DEF Texts!Begin, Texts!Resolve, Texts!Enter, Texts!Abort, Texts!Delete
    <3> QED BY <2>1, <3>1, <3>2, <3>3 DEF Texts!Next
  <2>6. f = e
    <3>1. CASE \E t \in Text : Texts!Save(f, t)
      BY <2>2, <3>1 DEF Texts!Save
    <3>2. CASE Texts!Clear(f)
      <4> DEFINE h == dialog[e].cleared \/ record # None
      <4>1. dialog'[e] = IF e = f \/ dialog[e] = None THEN None
                         ELSE [dialog[e] EXCEPT !.cleared = h]
        BY <3>2 DEF Texts!Clear
      <4>2. dialog[e] \in Opened /\ h \in BOOLEAN
        BY <2>2
      <4> HIDE DEF h
      <4>3. [dialog[e] EXCEPT !.cleared = h] \in Opened
        BY <4>2 DEF Opened
      <4> QED BY <4>1, <4>3, NoText
    <3> QED BY <2>5, <3>1, <3>2
  <2>7. record.revision = dialog[e].stored.revision
    BY <2>3, <2>5, <2>6 DEF Texts!Save, Texts!Clear, Texts!Agrees
  <2> QED BY <2>3, <2>4, <2>7
<1>2. MC_HostSpec => [][A]_(Texts!vars)
  BY <1>1, TextsInvariance, PTL DEF MC_HostSpec
<1> QED BY <1>2 DEF EditsSeen, Texts!EditsSeen

-----------------------------------------------------------------------------
(* OfflineImport                                                           *)

JournalEntry == [archive : Archive, nodes : BOOLEAN, sessions : BOOLEAN]

Early == {"stage", "decrypt", "begin", "clear"}
Applying == {"nodes", "nodesDone", "sessions", "sessionsDone", "complete"}

ArchiveSteps == Early \cup Applying \cup {"replay", "leave"}
ArchiveTasks == [step : ArchiveSteps,
          archive : Archive, import : Archive \cup {None}]

ArchiveTaskOK == task = None \/ task \in ArchiveTasks

(* Sessions are applied of archives that include some, after the nodes.    *)
Order ==
  \A a \in Archive : /\ a \notin WithSessions => sessions[a] = "no"
                     /\ sessions[a] # "no" => nodes[a] = "all"

(* What the journal says was applied, and can be applied again.            *)
JournalTrue ==
  journal # None =>
    /\ journal.archive \in payload
    /\ journal.nodes => nodes[journal.archive] = "all"
    /\ journal.sessions /\ journal.archive \in WithSessions =>
         sessions[journal.archive] = "all"
    /\ journal.archive \notin WithSessions => journal.sessions

(* What the service knows at each step of an import.                       *)
StepTrue ==
  task # None =>
    /\ task.step \in Early => journal = None
    /\ task.step = "begin" => task.archive \in payload
    /\ task.step \in Applying \cup {"replay"} =>
         journal # None /\ journal.archive = task.archive
    /\ task.step = "sessions" => ~journal.sessions
    /\ task.step \in Applying \ {"nodes"} => nodes[task.archive] = "all"
    /\ task.step \in {"sessionsDone", "complete"} /\ task.archive \in WithSessions =>
         sessions[task.archive] = "all"

(* What the type invariant says of what an import relies on.               *)
ArchivesShape ==
  /\ journal = None \/ journal \in JournalEntry
  /\ tokens \subseteq Archive /\ waiting \subseteq Archive
  /\ nodes \in [Archive -> Archives!Progress] /\ sessions \in [Archive -> Archives!Progress]

(* A process that is down does nothing.                                    *)
ServiceIdle == task # None => running

ArchivesInv ==
  /\ ArchivesShape /\ ArchiveTaskOK /\ Order /\ JournalTrue /\ StepTrue
  /\ Archives!HalfAppliedIsJournalled

-----------------------------------------------------------------------------
(* An entry of the journal is not none.                                    *)
LEMMA JournalNotNone == None \notin JournalEntry
BY ArchivesAssumption DEF JournalEntry

(* The service works only while it runs.                                   *)
LEMMA ServiceIdleKeeps == ASSUME ServiceIdle, Archives!Next PROVE ServiceIdle'
BY DEF ServiceIdle, Archives!Next, Archives!vars, Archives!door, Archives!Announce,
   Archives!Expire, Archives!Upload, Archives!Export, Archives!Sent, Archives!Start,
   Archives!Replay, Archives!Stage,
       Archives!Decrypt, Archives!Begin, Archives!Leave, Archives!ApplyNodes, Archives!NodesDone, Archives!ApplySessions, Archives!SessionsDone, Archives!Complete,
       Archives!Clear, Archives!Crash, Archives!Boot, Archives!At, Archives!Go, Archives!Untouched, Archives!Inside

(* At the start.                                                           *)
LEMMA ArchivesInitially == Archives!Init => ArchivesInv
BY DEF Archives!Init, ArchivesInv, ArchivesShape, ArchiveTaskOK, Order, JournalTrue,
   StepTrue, Archives!HalfAppliedIsJournalled,
       Archives!Progress

(* A task that goes on.                                                    *)
LEMMA ArchiveStepped ==
  ASSUME task \in ArchiveTasks, NEW s \in ArchiveSteps, task' = [task EXCEPT !.step = s]
  PROVE  /\ task' \in ArchiveTasks /\ task'.step = s /\ task'.archive = task.archive
         /\ task'.import = task.import
BY DEF ArchiveTasks

(* What has been applied, and the journal, do not depend on the step.      *)
LEMMA DiskKeeps ==
  ASSUME ArchivesInv, UNCHANGED <<journal, nodes, sessions>>, ArchivesShape', ArchiveTaskOK', StepTrue',
         journal # None => journal.archive \in payload'
  PROVE  ArchivesInv'
<1>1. Order'
  BY DEF ArchivesInv, Order
<1>2. JournalTrue'
  BY DEF ArchivesInv, JournalTrue
<1>3. Archives!HalfAppliedIsJournalled'
  BY DEF ArchivesInv, Archives!HalfAppliedIsJournalled
<1> QED BY <1>1, <1>2, <1>3 DEF ArchivesInv

(* The routes do not touch what an import relies on.                       *)
LEMMA DoorKeeps ==
  ASSUME ArchivesInv, UNCHANGED <<Archives!disk, nodes, sessions, task>>,
         tokens' \subseteq Archive, waiting' \subseteq Archive
  PROVE  ArchivesInv'
<1>1. ArchivesShape'
  BY DEF ArchivesInv, ArchivesShape, Archives!disk
<1>2. ArchiveTaskOK'
  BY DEF ArchivesInv, ArchiveTaskOK
<1>3. StepTrue'
  BY DEF ArchivesInv, StepTrue, Archives!disk
<1> QED BY <1>1, <1>2, <1>3, DiskKeeps DEF ArchivesInv, JournalTrue, Archives!disk

(* The routes.                                                             *)
LEMMA RoutesKeep ==
  ASSUME ArchivesInv, \/ \E a \in Archive : Archives!Announce(a) \/ Archives!Expire(a) \/ Archives!Upload(a)
              \/ Archives!Export \/ Archives!Sent
  PROVE  ArchivesInv'
<1>1. UNCHANGED <<Archives!disk, nodes, sessions, task>>
  BY DEF Archives!Announce, Archives!Expire, Archives!Upload, Archives!Export, Archives!Sent
<1>2. tokens \subseteq Archive /\ waiting \subseteq Archive
  BY DEF ArchivesInv, ArchivesShape
<1>3. ASSUME NEW a \in Archive, Archives!Announce(a) \/ Archives!Expire(a) \/ Archives!Upload(a)
      PROVE  tokens' \subseteq Archive /\ waiting' \subseteq Archive
  <2>1. CASE Archives!Announce(a)
    BY <1>2, <2>1 DEF Archives!Announce
  <2>2. CASE Archives!Expire(a)
    BY <1>2, <2>2 DEF Archives!Expire
  <2>3. CASE Archives!Upload(a)
    BY <1>2, <2>3 DEF Archives!Upload
  <2> QED BY <1>3, <2>1, <2>2, <2>3
<1>4. Archives!Export \/ Archives!Sent => tokens' = tokens /\ waiting' = waiting
  BY DEF Archives!Export, Archives!Sent
<1> QED BY <1>1, <1>2, <1>3, <1>4, DoorKeeps

(* A recovery or an import starts.                                         *)
LEMMA ArchiveStartKeeps ==
  ASSUME ArchivesInv, NEW import \in waiting \cup {None}, Archives!Start(import)
  PROVE  ArchivesInv'
<1>1. UNCHANGED <<dirs, payload, journal, nodes, sessions>> /\ ArchivesShape'
  BY DEF Archives!Start, ArchivesInv, ArchivesShape, Archives!disk
<1>2. import \in Archive \cup {None}
  BY DEF ArchivesInv, ArchivesShape
<1>3. ArchiveTaskOK' /\ StepTrue'
  <2>1. CASE journal = None
    <3>1. task' = [step |-> "stage", archive |-> import, import |-> None] /\ import \in Archive
      BY <1>2, <2>1 DEF Archives!Start, Archives!Task
    <3> QED BY <1>1, <2>1, <3>1 DEF ArchiveTaskOK, ArchiveTasks, ArchiveSteps, Early,
       Applying, StepTrue
  <2>2. CASE journal # None
    <3>1. /\ task' = [step |-> "replay", archive |-> journal.archive, import |-> import]
          /\ journal.archive \in Archive
      BY <2>2 DEF Archives!Start, Archives!Task, ArchivesInv, ArchivesShape, JournalEntry
    <3> QED BY <1>1, <1>2, <2>2, <3>1 DEF ArchiveTaskOK, ArchiveTasks, ArchiveSteps, Early,
       Applying, StepTrue
  <2> QED BY <2>1, <2>2
<1> QED BY <1>1, <1>3, DiskKeeps DEF ArchivesInv, JournalTrue

(* A pending import goes on.                                               *)
LEMMA ArchiveReplayKeeps == ASSUME ArchivesInv, Archives!Replay PROVE ArchivesInv'
<1>1. UNCHANGED <<dirs, payload, journal, nodes, sessions>> /\ ArchivesShape'
  BY DEF Archives!Replay, Archives!Untouched, Archives!Inside, Archives!door, Archives!disk,
     ArchivesInv, ArchivesShape
<1>2. CASE task' = None
  BY <1>1, <1>2, DiskKeeps DEF ArchiveTaskOK, StepTrue, ArchivesInv, JournalTrue
<1>3. CASE task' # None
  <2>1. /\ task \in ArchiveTasks /\ task # None /\ journal # None /\ journal.archive = task.archive
        /\ journal \in JournalEntry /\ task.archive \in Archive
    BY DEF Archives!Replay, Archives!At, ArchivesInv, ArchiveTaskOK, StepTrue, ArchivesShape,
       ArchiveTasks
  <2>2. PICK s \in {"nodes", "sessions", "complete"} :
          /\ task' = [task EXCEPT !.step = s]
          /\ s # "nodes" => journal.nodes
          /\ s = "sessions" => ~journal.sessions
          /\ s = "complete" => journal.sessions
    BY <1>3, <2>1 DEF Archives!Replay, Archives!Go, JournalEntry
  <2>3. task' \in ArchiveTasks /\ task'.step = s /\ task'.archive = task.archive
    BY <2>1, <2>2, ArchiveStepped DEF ArchiveSteps, Applying
  <2>4. ArchiveTaskOK'
    BY <2>3 DEF ArchiveTaskOK
  <2>5. StepTrue'
    BY <1>1, <2>1, <2>2, <2>3 DEF StepTrue, ArchivesInv, JournalTrue, Early, Applying
  <2> QED BY <1>1, <2>4, <2>5, DiskKeeps DEF ArchivesInv, JournalTrue
<1> QED BY <1>2, <1>3

(* An archive is staged, decrypted and begun.                              *)
LEMMA StagingKeeps ==
  ASSUME ArchivesInv, Archives!Stage \/ Archives!Decrypt \/ Archives!Begin
  PROVE  ArchivesInv'
<1> USE DEF Archives!At, Archives!This, Archives!Untouched, Archives!Inside, Archives!door
<1>1. task # None /\ task \in ArchiveTasks /\ journal = None /\ task.archive \in Archive
  BY DEF ArchiveTaskOK, StepTrue, Archives!Stage, Archives!Decrypt, Archives!Begin, Early,
     ArchiveTasks, ArchivesInv
<1>2. PICK s \in {"decrypt", "begin", "leave", "nodes"} :
        /\ task' = [task EXCEPT !.step = s]
        /\ s = "begin" => task.archive \in payload'
        /\ s = "nodes" => /\ journal' = Archives!Entry(task.archive) /\ payload' = payload
                         /\ task.archive \in payload
        /\ s # "nodes" => journal' = journal
  <2>1. CASE Archives!Stage
    BY <2>1 DEF Archives!Stage, Archives!Go
  <2>2. CASE Archives!Decrypt
    BY <2>2 DEF Archives!Decrypt, Archives!Go
  <2>3. CASE Archives!Begin
    BY <2>3 DEF Archives!Begin, Archives!Go, ArchivesInv, StepTrue
  <2> QED BY <2>1, <2>2, <2>3
<1>3. /\ task' \in ArchiveTasks /\ task'.step = s /\ task'.archive = task.archive
      /\ UNCHANGED <<nodes, sessions, tokens, waiting>>
  BY <1>1, <1>2, ArchiveStepped DEF ArchiveSteps, Early, Applying, Archives!Stage,
     Archives!Decrypt, Archives!Begin
<1>4. ArchiveTaskOK'
  BY <1>3 DEF ArchiveTaskOK
<1>5. CASE s # "nodes"
  <2>1. StepTrue'
    BY <1>1, <1>2, <1>3, <1>5 DEF StepTrue, Early, Applying
  <2>2. ArchivesShape'
    BY <1>1, <1>2, <1>3, <1>5 DEF ArchivesInv, ArchivesShape
  <2> QED BY <1>1, <1>2, <1>3, <1>4, <1>5, <2>1, <2>2, DiskKeeps
<1>6. CASE s = "nodes"
  <2>1. /\ journal' \in JournalEntry /\ journal'.archive = task.archive /\ ~journal'.nodes
        /\ journal'.sessions <=> task.archive \notin WithSessions
    <3>1. CASE task.archive \notin WithSessions
      <4>1. (task.archive \notin WithSessions) = TRUE
        BY <3>1
      <4>2. journal' = [archive |-> task.archive, nodes |-> FALSE, sessions |-> TRUE]
        BY <1>2, <1>6, <4>1, Zenon DEF Archives!Entry
      <4> QED BY <1>1, <3>1, <4>2 DEF JournalEntry
    <3>2. CASE task.archive \in WithSessions
      <4>1. (task.archive \notin WithSessions) = FALSE
        BY <3>2
      <4>2. journal' = [archive |-> task.archive, nodes |-> FALSE, sessions |-> FALSE]
        BY <1>2, <1>6, <4>1, Zenon DEF Archives!Entry
      <4> QED BY <1>1, <3>2, <4>2 DEF JournalEntry
    <3> QED BY <3>1, <3>2
  <2>2. StepTrue'
    BY <1>3, <1>6, <2>1, JournalNotNone DEF StepTrue, Early, Applying
  <2>3. JournalTrue'
    BY <1>2, <1>6, <2>1 DEF JournalTrue
  <2>4. ArchivesShape' /\ Order'
    BY <1>3, <2>1 DEF ArchivesInv, ArchivesShape, Order
  <2>5. Archives!HalfAppliedIsJournalled'
    BY <1>1, <1>3 DEF ArchivesInv, Archives!HalfAppliedIsJournalled
  <2> QED BY <1>4, <2>2, <2>3, <2>4, <2>5 DEF ArchivesInv
<1> QED BY <1>5, <1>6

(* The directory that goes is not the journal's.                           *)
LEMMA LeaveKeeps == ASSUME ArchivesInv, Archives!Leave PROVE ArchivesInv'
<1> USE DEF Archives!At, Archives!This, Archives!Untouched, Archives!Inside, Archives!door,
   ArchivesInv
<1>1. UNCHANGED <<nodes, sessions, journal>> /\ task' = None
  BY DEF Archives!Leave
<1>2. ArchivesShape'
  BY DEF Archives!Leave, ArchivesShape
<1>3. journal # None => journal.archive \in payload'
  BY DEF Archives!Leave, JournalTrue
<1> QED BY <1>1, <1>2, <1>3 DEF ArchiveTaskOK, Order, JournalTrue, StepTrue,
   Archives!HalfAppliedIsJournalled

(* Nodes are applied in part or as a whole.                                *)
LEMMA ApplyNodesKeeps == ASSUME ArchivesInv, Archives!ApplyNodes PROVE ArchivesInv'
<1> USE DEF Archives!At, Archives!Go, Archives!This, Archives!Inside, Archives!door,
   Archives!disk, ArchivesInv
<1> DEFINE a == task.archive
<1>1. /\ task \in ArchiveTasks /\ a \in Archive /\ journal # None /\ journal.archive = a
      /\ UNCHANGED <<Archives!disk, sessions>>
  BY DEF Archives!ApplyNodes, ArchiveTaskOK, ArchiveTasks, StepTrue, Applying
<1>2. \A b \in Archive : b # a => nodes'[b] = nodes[b]
  BY <1>1 DEF Archives!ApplyNodes, ArchivesShape
<1>3. nodes[a] = "all" => nodes'[a] = "all"
  BY <1>1 DEF Archives!ApplyNodes, ArchivesShape
<1>4. ArchivesShape'
  BY <1>1 DEF Archives!ApplyNodes, ArchivesShape, Archives!Progress
<1>5. \/ task' = [task EXCEPT !.step = "leave"]
      \/ task' = [task EXCEPT !.step = "nodesDone"] /\ nodes'[a] = "all"
  BY <1>1 DEF Archives!ApplyNodes, ArchivesShape
<1> HIDE DEF a
<1>6. ArchiveTaskOK' /\ StepTrue'
  BY <1>1, <1>5, ArchiveStepped DEF ArchiveTaskOK, StepTrue, ArchiveSteps, Early, Applying, a
<1>7. Order' /\ JournalTrue'
  BY <1>1, <1>2, <1>3 DEF Order, JournalTrue
<1>8. Archives!HalfAppliedIsJournalled'
  BY <1>1, <1>2, <1>3 DEF Archives!HalfAppliedIsJournalled, JournalTrue
<1> QED BY <1>4, <1>6, <1>7, <1>8

(* Sessions are applied in part or as a whole.                             *)
LEMMA ApplySessionsKeeps == ASSUME ArchivesInv, Archives!ApplySessions PROVE ArchivesInv'
<1> USE DEF Archives!At, Archives!Go, Archives!This, Archives!Inside, Archives!door,
   Archives!disk, ArchivesInv
<1> DEFINE a == task.archive
<1>1. /\ task \in ArchiveTasks /\ a \in Archive /\ journal # None /\ journal.archive = a
      /\ UNCHANGED <<Archives!disk, nodes>> /\ nodes[a] = "all" /\ ~journal.sessions
  BY DEF Archives!ApplySessions, ArchiveTaskOK, ArchiveTasks, StepTrue, Applying
<1>2. \A b \in Archive : b # a => sessions'[b] = sessions[b]
  BY <1>1 DEF Archives!ApplySessions, ArchivesShape
<1>3. a \in WithSessions
  BY <1>1 DEF JournalTrue
<1>4. ArchivesShape'
  BY <1>1 DEF Archives!ApplySessions, ArchivesShape, Archives!Progress
<1>5. \/ task' = [task EXCEPT !.step = "leave"]
      \/ task' = [task EXCEPT !.step = "sessionsDone"] /\ sessions'[a] = "all"
  BY <1>1 DEF Archives!ApplySessions, ArchivesShape
<1> HIDE DEF a
<1>6. ArchiveTaskOK' /\ StepTrue'
  BY <1>1, <1>5, ArchiveStepped DEF ArchiveTaskOK, StepTrue, ArchiveSteps, Early, Applying, a
<1>7. Order' /\ JournalTrue'
  BY <1>1, <1>2, <1>3 DEF Order, JournalTrue
<1>8. Archives!HalfAppliedIsJournalled'
  BY <1>1, <1>2 DEF Archives!HalfAppliedIsJournalled, JournalTrue
<1> QED BY <1>4, <1>6, <1>7, <1>8

(* The journal learns of what was applied.                                 *)
LEMMA DoneKeeps ==
  ASSUME ArchivesInv, Archives!NodesDone \/ Archives!SessionsDone
  PROVE  ArchivesInv'
<1> USE DEF Archives!At, Archives!Go, Archives!This, Archives!Untouched, Archives!Inside,
   Archives!door, Archives!disk, ArchivesInv
<1> DEFINE a == task.archive
<1>1. /\ task \in ArchiveTasks /\ a \in Archive /\ journal \in JournalEntry /\ journal.archive = a
      /\ UNCHANGED <<dirs, payload, nodes, sessions, running, tokens, waiting, exports>>
      /\ nodes[a] = "all"
  BY DEF Archives!NodesDone, Archives!SessionsDone, ArchiveTaskOK, ArchiveTasks, StepTrue,
     Applying, ArchivesShape, JournalEntry
<1>2. /\ journal' \in JournalEntry /\ journal'.archive = a /\ journal' # None
      /\ journal'.sessions => journal.sessions \/ sessions[a] = "all" \/ a \notin WithSessions
      /\ journal.sessions => journal'.sessions
  BY <1>1, JournalNotNone DEF Archives!NodesDone, Archives!SessionsDone, JournalEntry, StepTrue
<1>3. ArchivesShape'
  BY <1>1, <1>2 DEF ArchivesShape, JournalEntry
<1>4. JournalTrue'
  BY <1>1, <1>2, JournalNotNone DEF JournalTrue
<1>5. Archives!HalfAppliedIsJournalled' /\ Order'
  BY <1>1, <1>2 DEF Archives!HalfAppliedIsJournalled, Order
<1>6. ArchiveTaskOK' /\ StepTrue'
  <2>1. CASE Archives!NodesDone
    <3>1. /\ journal' = [journal EXCEPT !.nodes = TRUE]
          /\ task' = [task EXCEPT !.step = IF journal.sessions THEN "complete" ELSE "sessions"]
      BY <2>1 DEF Archives!NodesDone
    <3>2. journal'.sessions = journal.sessions
      BY <1>1, <3>1 DEF JournalEntry
    <3>3. journal.sessions /\ a \in WithSessions => sessions[a] = "all"
      BY <1>1, JournalNotNone DEF JournalTrue
    <3>4. PICK s \in {"complete", "sessions"} :
            /\ task' = [task EXCEPT !.step = s]
            /\ s = "complete" <=> journal.sessions
      BY <1>1, <3>1 DEF JournalEntry
    <3>5. task' \in ArchiveTasks /\ task'.step = s /\ task'.archive = a
      BY <1>1, <3>4, ArchiveStepped DEF ArchiveSteps, Applying
    <3> QED BY <1>1, <1>2, <3>2, <3>3, <3>4, <3>5 DEF ArchiveTaskOK, StepTrue, Early, Applying
  <2>2. CASE Archives!SessionsDone
    <3>1. task' = [task EXCEPT !.step = "complete"] /\ task.step = "sessionsDone"
      BY <2>2 DEF Archives!SessionsDone
    <3>2. task' \in ArchiveTasks /\ task'.step = "complete" /\ task'.archive = a
      BY <1>1, <3>1, ArchiveStepped DEF ArchiveSteps, Applying
    <3>3. a \in WithSessions => sessions[a] = "all"
      BY <2>2 DEF Archives!SessionsDone, StepTrue
    <3> QED BY <1>1, <1>2, <3>2, <3>3 DEF ArchiveTaskOK, StepTrue, Early, Applying
  <2> QED BY <2>1, <2>2
<1> QED BY <1>3, <1>4, <1>5, <1>6

(* The journal goes when nothing is half applied.                          *)
LEMMA CompleteKeeps == ASSUME ArchivesInv, Archives!Complete PROVE ArchivesInv'
<1> USE DEF Archives!At, Archives!Go, Archives!This, Archives!Untouched, Archives!Inside,
   Archives!door, Archives!disk, ArchivesInv
<1> DEFINE a == task.archive
<1>1. /\ task \in ArchiveTasks /\ a \in Archive /\ journal # None /\ journal.archive = a
      /\ journal' = None /\ task' = [task EXCEPT !.step = "clear"]
      /\ UNCHANGED <<dirs, payload, nodes, sessions, running, tokens, waiting, exports>>
      /\ nodes[a] = "all" /\ (a \in WithSessions => sessions[a] = "all")
  BY DEF Archives!Complete, ArchiveTaskOK, ArchiveTasks, StepTrue, Applying
<1>2. task' \in ArchiveTasks /\ task'.step = "clear"
  BY <1>1, ArchiveStepped DEF ArchiveSteps, Early
<1>3. ArchivesShape' /\ ArchiveTaskOK' /\ StepTrue'
  BY <1>1, <1>2 DEF ArchivesShape, ArchiveTaskOK, StepTrue, Early, Applying
<1>4. Archives!HalfAppliedIsJournalled'
  BY <1>1 DEF Archives!HalfAppliedIsJournalled, Order
<1> QED BY <1>1, <1>3, <1>4 DEF Order, JournalTrue

(* The directory goes.                                                     *)
LEMMA ClearKeeps == ASSUME ArchivesInv, Archives!Clear PROVE ArchivesInv'
<1> USE DEF Archives!At, Archives!This, Archives!Untouched, Archives!Inside, Archives!door
<1>1. task \in ArchiveTasks /\ journal = None /\ journal' = None /\ UNCHANGED <<nodes, sessions>>
  BY DEF Archives!Clear, ArchiveTaskOK, StepTrue, Early, ArchivesInv
<1>2. ArchivesShape'
  BY <1>1 DEF Archives!Clear, ArchivesInv, ArchivesShape
<1>3. CASE task' = None
  BY <1>1, <1>2, <1>3, DiskKeeps DEF ArchiveTaskOK, StepTrue
<1>4. CASE task' # None
  <2>1. /\ task' = [step |-> "stage", archive |-> task.import, import |-> None]
        /\ task.import \in Archive
    BY <1>1, <1>4 DEF Archives!Clear, Archives!Task, ArchiveTasks
  <2>2. ArchiveTaskOK' /\ StepTrue'
    BY <1>1, <2>1 DEF ArchiveTaskOK, ArchiveTasks, ArchiveSteps, StepTrue, Early, Applying
  <2> QED BY <1>1, <1>2, <2>2, DiskKeeps
<1> QED BY <1>3, <1>4

(* The process stops and starts.                                           *)
LEMMA ProcessKeeps ==
  ASSUME ArchivesInv, ServiceIdle, Archives!Crash \/ Archives!Boot
  PROVE  ArchivesInv'
<1> USE DEF Archives!disk, ArchivesInv
<1>1. CASE Archives!Crash
  BY <1>1 DEF Archives!Crash, ArchivesShape, ArchiveTaskOK, Order, JournalTrue, StepTrue,
     Archives!HalfAppliedIsJournalled
<1>2. CASE Archives!Boot
  <2>1. UNCHANGED <<journal, nodes, sessions, task>>
    BY <1>2 DEF Archives!Boot
  <2>2. journal # None => (journal.archive \in payload' <=> journal.archive \in payload)
    BY <1>2 DEF Archives!Boot
  <2>3. task = None
    BY <1>2 DEF Archives!Boot, ServiceIdle
  <2>4. ArchivesShape'
    BY <1>2 DEF Archives!Boot, ArchivesShape
  <2> QED BY <2>1, <2>2, <2>3, <2>4 DEF ArchiveTaskOK, Order, JournalTrue, StepTrue,
                                        Archives!HalfAppliedIsJournalled
<1> QED BY <1>1, <1>2

-----------------------------------------------------------------------------
(* Directories                                                             *)

(* A payload is in a directory, which its import has made.                 *)
Staged ==
  /\ dirs \subseteq Archive /\ payload \subseteq dirs /\ exports \in 0 .. MaxExports
  /\ running \in BOOLEAN
  /\ task # None /\ task.step = "decrypt" => task.archive \in dirs

(* No step separates a payload from its directory.                         *)
LEMMA StagedKeeps == ASSUME ArchivesInv, ServiceIdle, Staged, Archives!Next PROVE Staged'
<1> USE DEF Archives!At, Archives!Go, Archives!This, Archives!Untouched, Archives!Inside,
            Archives!door, Archives!disk
<1>1. task # None => task \in ArchiveTasks /\ task.archive \in Archive /\ task.step \in ArchiveSteps
  BY DEF ArchivesInv, ArchiveTaskOK, ArchiveTasks
<1>2. ASSUME NEW a \in Archive, Archives!Announce(a) \/ Archives!Expire(a) \/ Archives!Upload(a)
      PROVE  Staged'
  BY <1>2 DEF Staged, Archives!Announce, Archives!Expire, Archives!Upload
<1>3. CASE Archives!Export \/ Archives!Sent
  BY <1>3, ArchivesAssumption DEF Staged, Archives!Export, Archives!Sent
<1>4. ASSUME NEW import \in waiting \cup {None}, Archives!Start(import) PROVE Staged'
  BY <1>4 DEF Staged, Archives!Start, Archives!Task
<1>5. CASE Archives!Replay
  <2>1. CASE task' = None
    BY <1>5, <2>1 DEF Staged, Archives!Replay
  <2>2. CASE task' # None
    <3>1. PICK s \in {"nodes", "sessions", "complete"} : task' = [task EXCEPT !.step = s]
      BY <1>5, <2>2 DEF Archives!Replay
    <3>2. task'.step # "decrypt"
      BY <1>1, <1>5, <3>1 DEF Archives!Replay, ArchiveTasks
    <3> QED BY <1>5, <3>2 DEF Staged, Archives!Replay
  <2> QED BY <2>1, <2>2
<1>6. CASE Archives!Stage
  <2>1. task'.archive = task.archive
    BY <1>1, <1>6, ArchiveStepped DEF Archives!Stage, ArchiveTasks, ArchiveSteps, Early
  <2> QED BY <1>1, <1>6, <2>1 DEF Staged, Archives!Stage
<1>7. CASE Archives!Decrypt
  <2>1. task'.step # "decrypt" /\ task.archive \in dirs
    BY <1>1, <1>7 DEF Archives!Decrypt, ArchiveTasks, Staged
  <2> QED BY <1>7, <2>1 DEF Staged, Archives!Decrypt
<1>8. CASE Archives!Begin
  <2>1. task'.step # "decrypt"
    BY <1>1, <1>8 DEF Archives!Begin, ArchiveTasks
  <2> QED BY <1>8, <2>1 DEF Staged, Archives!Begin
<1>9. CASE Archives!Leave
  BY <1>9 DEF Staged, Archives!Leave
<1>10. CASE Archives!ApplyNodes
  <2>1. task'.step # "decrypt"
    BY <1>1, <1>10 DEF Archives!ApplyNodes, ArchiveTasks
  <2> QED BY <1>10, <2>1 DEF Staged, Archives!ApplyNodes
<1>11. CASE Archives!ApplySessions
  <2>1. task'.step # "decrypt"
    BY <1>1, <1>11 DEF Archives!ApplySessions, ArchiveTasks
  <2> QED BY <1>11, <2>1 DEF Staged, Archives!ApplySessions
<1>12. CASE Archives!NodesDone
  <2>1. task'.step # "decrypt"
    BY <1>1, <1>12 DEF Archives!NodesDone, ArchiveTasks
  <2> QED BY <1>12, <2>1 DEF Staged, Archives!NodesDone
<1>13. CASE Archives!SessionsDone
  <2>1. task'.step # "decrypt"
    BY <1>1, <1>13 DEF Archives!SessionsDone, ArchiveTasks
  <2> QED BY <1>13, <2>1 DEF Staged, Archives!SessionsDone
<1>14. CASE Archives!Complete
  <2>1. task'.step # "decrypt"
    BY <1>1, <1>14 DEF Archives!Complete, ArchiveTasks
  <2> QED BY <1>14, <2>1 DEF Staged, Archives!Complete
<1>15. CASE Archives!Clear
  <2>1. task' # None => task'.step # "decrypt"
    BY <1>15 DEF Archives!Clear, Archives!Task
  <2> QED BY <1>15, <2>1 DEF Staged, Archives!Clear
<1>16. CASE Archives!Crash
  BY <1>16 DEF Staged, Archives!Crash
<1>17. CASE Archives!Boot
  <2>1. exports' = 0 /\ 0 \in 0 .. MaxExports
    BY <1>17, ArchivesAssumption DEF Archives!Boot
  <2>2. dirs' \subseteq dirs /\ payload' \subseteq dirs' /\ running' = TRUE /\ task' = task
    BY <1>17 DEF Staged, Archives!Boot
  <2>3. task = None
    BY <1>17 DEF ServiceIdle, Archives!Boot
  <2> QED BY <1>17, <2>1, <2>2, <2>3 DEF Staged, Archives!Boot
<1> QED BY <1>2, <1>3, <1>4, <1>5, <1>6, <1>7, <1>8, <1>9, <1>10, <1>11, <1>12, <1>13,
           <1>14, <1>15, <1>16, <1>17 DEF Archives!Next

(* Imports and their journal, in every state.                              *)
LEMMA ArchivesInvariance == MC_HostSpec => [](ArchivesInv /\ ServiceIdle /\ Staged)
<1>1. MC_Init => ArchivesInv /\ ServiceIdle /\ Staged
  BY ArchivesInitially, ArchivesAssumption DEF MC_Init, Archives!Init, ServiceIdle, Staged
<1>2. ArchivesInv /\ ServiceIdle /\ Staged /\ [MC_Next]_hostVars =>
        (ArchivesInv /\ ServiceIdle /\ Staged)'
  <2> SUFFICES ASSUME ArchivesInv, ServiceIdle, Staged, [MC_Next]_hostVars
               PROVE  (ArchivesInv /\ ServiceIdle /\ Staged)'
    OBVIOUS
  <2>1. Archives!Next \/ UNCHANGED archivesVars
    BY DEF MC_Next, hostVars
  <2>2. ServiceIdle'
    BY <2>1, ServiceIdleKeeps DEF archivesVars, ServiceIdle
  <2>3. ASSUME UNCHANGED archivesVars PROVE ArchivesInv'
    BY <2>3, DoorKeeps DEF archivesVars, Archives!disk, ArchivesInv, ArchivesShape
  <2>4. ASSUME Archives!Next PROVE ArchivesInv'
    <3>1. ASSUME NEW import \in waiting \cup {None}, Archives!Start(import) PROVE ArchivesInv'
      BY <3>1, ArchiveStartKeeps
    <3>2. CASE Archives!Replay \/ Archives!Stage \/ Archives!Decrypt \/ Archives!Begin
      BY <3>2, ArchiveReplayKeeps, StagingKeeps
    <3>3. CASE Archives!Leave \/ Archives!Complete \/ Archives!Clear
      BY <3>3, LeaveKeeps, CompleteKeeps, ClearKeeps
    <3>4. CASE Archives!ApplyNodes \/ Archives!NodesDone \/ Archives!ApplySessions
               \/ Archives!SessionsDone
      BY <3>4, ApplyNodesKeeps, ApplySessionsKeeps, DoneKeeps
    <3>5. CASE Archives!Crash \/ Archives!Boot
      BY <3>5, ProcessKeeps
    <3>6. CASE (\E a \in Archive : Archives!Announce(a) \/ Archives!Expire(a) \/ Archives!Upload(a))
               \/ Archives!Export \/ Archives!Sent
      BY <3>6, RoutesKeep
    <3> QED BY <2>4, <3>1, <3>2, <3>3, <3>4, <3>5, <3>6 DEF Archives!Next
  <2>5. Staged'
    BY <2>1, StagedKeeps DEF archivesVars, Staged
  <2> QED BY <2>1, <2>2, <2>3, <2>4, <2>5
<1> QED BY <1>1, <1>2, PTL DEF MC_HostSpec

(* An archive of which a part was applied can be finished: the journal     *)
(* names it and its payload is on disk, whatever fails, stops or is        *)
(* uploaded meanwhile; and no session is touched before all nodes are      *)
(* there.                                                                  *)
THEOREM HalfAppliedIsFinishable == MC_HostSpec => []HalfAppliedIsJournalled
<1>1. ArchivesInv => HalfAppliedIsJournalled
  BY DEF ArchivesInv, HalfAppliedIsJournalled
<1> QED BY <1>1, ArchivesInvariance, PTL

-----------------------------------------------------------------------------
(* ObjectInbox                                                             *)

(* The object is there, or PendingHasObjects says why it may not be.       *)
Held(o) == inbox[o] = "whole" \/ o \in lost \/ \E c \in finished : o \in Needs[c]

(* What a stream has delivered is kept until the import begins.            *)
SentKept == \A b \in Batch : stage[b] = "sending" => \A o \in sent[b] : Held(o)

(* What an import has read is its own, and is removed after the import.    *)
ReadOwn == \A b \in Batch : read[b] \subseteq Needs[b]
ClearsFinished == \A b \in Batch : stage[b] = "clearing" => b \in finished

PendingNeeds == \A b \in pending : Needs[b] \subseteq Object

InboxInv ==
  /\ Inbox!TypeOK /\ SentKept /\ ReadOwn /\ ClearsFinished /\ PendingNeeds
  /\ Inbox!PendingHasObjects

-----------------------------------------------------------------------------
(* Batches are pending for a reason: their stream was complete.            *)

(* A step that keeps every kept object, begins no import and delivers      *)
(* nothing preserves what is said of objects.                              *)
LEMMA InboxUndisturbed ==
  ASSUME InboxInv, Inbox!TypeOK',
         \A o \in Object : Held(o) => Held(o)',
         pending' \subseteq pending, prepared \subseteq prepared',
         \A b \in Batch : stage'[b] = "sending" =>
           sent'[b] = {} \/ (stage[b] = "sending" /\ sent'[b] = sent[b])
  PROVE  SentKept' /\ PendingNeeds' /\ Inbox!PendingHasObjects'
<1>1. SentKept'
  <2> SUFFICES ASSUME NEW b \in Batch, stage'[b] = "sending", NEW o \in sent'[b]
               PROVE  Held(o)'
    BY DEF SentKept
  <2>1. stage[b] = "sending" /\ o \in sent[b]
    OBVIOUS
  <2> QED BY <2>1 DEF InboxInv, Inbox!TypeOK, SentKept
<1>2. PendingNeeds'
  BY DEF InboxInv, PendingNeeds
<1>3. Inbox!PendingHasObjects'
  <2> SUFFICES ASSUME NEW b \in (pending \ prepared)', NEW o \in Needs[b]
               PROVE  Held(o)'
    BY DEF Inbox!PendingHasObjects, Held
  <2>1. b \in pending \ prepared /\ o \in Object
    BY DEF InboxInv, PendingNeeds
  <2> QED BY <2>1 DEF InboxInv, Inbox!PendingHasObjects, Held
<1> QED BY <1>1, <1>2, <1>3

(* At the start.                                                           *)
LEMMA InboxInitially == Inbox!Init => InboxInv
BY DEF Inbox!Init, InboxInv, Inbox!TypeOK, SentKept, ReadOwn, ClearsFinished, PendingNeeds,
       Inbox!PendingHasObjects, Inbox!Stage, Inbox!Content

(* The stream delivers an object: it is whole and no longer missing.       *)
LEMMA InboxCommitKeeps ==
  ASSUME InboxInv, NEW b \in Batch, Inbox!Commit(b)
  PROVE  InboxInv'
<1> USE DEF Inbox!Commit, Inbox!Go
<1>1. PICK o \in Object : o = writer[b].object
  BY DEF InboxInv, Inbox!TypeOK
<1>2. Inbox!TypeOK'
  BY <1>1 DEF InboxInv, Inbox!TypeOK, Inbox!Stage, Inbox!Content
<1>3. ReadOwn' /\ ClearsFinished'
  BY DEF InboxInv, Inbox!TypeOK, ReadOwn, ClearsFinished
<1>4. \A p \in Object : Held(p) => Held(p)'
  BY <1>1 DEF InboxInv, Inbox!TypeOK, Held
<1>5. CASE writer[b].got = "whole"
  <2>1. Held(o)'
    BY <1>1, <1>5 DEF InboxInv, Inbox!TypeOK, Held
  <2>2. SentKept'
    BY <1>1, <1>4, <1>5, <2>1 DEF InboxInv, Inbox!TypeOK, SentKept
  <2>3. PendingNeeds' /\ Inbox!PendingHasObjects'
    BY <1>4 DEF InboxInv, PendingNeeds, Inbox!PendingHasObjects, Held
  <2> QED BY <1>2, <1>3, <2>2, <2>3 DEF InboxInv
<1>6. CASE writer[b].got # "whole"
  <2>1. \A c \in Batch : stage'[c] = "sending" => stage[c] = "sending" /\ sent'[c] = sent[c]
    BY <1>6 DEF InboxInv, Inbox!TypeOK
  <2> QED BY <1>2, <1>3, <1>4, <1>6, <2>1, InboxUndisturbed DEF InboxInv
<1> QED BY <1>5, <1>6

(* An import begins with every object it needs delivered.                  *)
LEMMA InboxApplyKeeps ==
  ASSUME InboxInv, NEW b \in Batch, Inbox!Apply(b)
  PROVE  InboxInv'
<1> USE DEF Inbox!Apply, Inbox!Go, Inbox!stream
<1>1. Inbox!TypeOK'
  BY DEF InboxInv, Inbox!TypeOK, Inbox!Stage
<1>2. \A o : Held(o)' <=> Held(o)
  BY DEF Held
<1>3. Needs[b] \subseteq Object /\ \A o \in Needs[b] : Held(o)
  BY DEF InboxInv, Inbox!TypeOK, SentKept
<1>4. SentKept' /\ ReadOwn' /\ ClearsFinished'
  BY <1>2 DEF InboxInv, Inbox!TypeOK, SentKept, ReadOwn, ClearsFinished
<1>5. PendingNeeds' /\ Inbox!PendingHasObjects'
  BY <1>2, <1>3 DEF InboxInv, PendingNeeds, Inbox!PendingHasObjects, Held
<1> QED BY <1>1, <1>4, <1>5 DEF InboxInv

(* What an applied batch removes was its own, so it is accounted for.      *)
LEMMA InboxDeleteKeeps ==
  ASSUME InboxInv, NEW b \in Batch, NEW o \in Object, Inbox!Delete(b, o)
  PROVE  InboxInv'
<1> USE DEF Inbox!Delete, Inbox!stream
<1>1. Inbox!TypeOK'
  BY DEF InboxInv, Inbox!TypeOK, Inbox!Content
<1>2. b \in finished /\ o \in Needs[b]
  BY DEF InboxInv, ReadOwn, ClearsFinished
<1>3. \A p \in Object : Held(p) => Held(p)'
  BY <1>2 DEF InboxInv, Inbox!TypeOK, Held
<1>4. ReadOwn' /\ ClearsFinished'
  BY DEF InboxInv, Inbox!TypeOK, ReadOwn, ClearsFinished
<1> QED BY <1>1, <1>3, <1>4, InboxUndisturbed DEF InboxInv

(* A restart loses only what the sweep removes and records as lost.        *)
LEMMA InboxRestartKeeps ==
  ASSUME InboxInv, NEW old \in SUBSET Object, Inbox!Restart(old)
  PROVE  InboxInv'
<1> USE DEF Inbox!Restart
<1>1. Inbox!TypeOK'
  BY DEF InboxInv, Inbox!TypeOK, Inbox!Content, Inbox!Stage
<1>2. \A p \in Object : Held(p) => Held(p)'
  BY DEF InboxInv, Inbox!TypeOK, Held
<1>3. ReadOwn' /\ ClearsFinished'
  BY DEF InboxInv, Inbox!TypeOK, ReadOwn, ClearsFinished
<1> QED BY <1>1, <1>2, <1>3, InboxUndisturbed DEF InboxInv

(* The steps that leave every object where it is.                          *)

(* A stream begins or is cut.                                              *)
LEMMA InboxSendKeeps ==
  ASSUME InboxInv, NEW b \in Batch, Inbox!Send(b) \/ Inbox!Cut(b)
  PROVE  InboxInv'
<1> USE DEF Inbox!Send, Inbox!Cut, Inbox!Go, Inbox!disk, Inbox!stream
<1>1. Inbox!TypeOK'
  BY DEF InboxInv, Inbox!TypeOK, Inbox!Content, Inbox!Stage
<1>2. finished \subseteq finished' /\ inbox' = inbox /\ lost' = lost
  OBVIOUS
<1>3. \A p \in Object : Held(p) => Held(p)'
  BY <1>2 DEF Held
<1>4. ReadOwn' /\ ClearsFinished'
  BY DEF InboxInv, Inbox!TypeOK, ReadOwn, ClearsFinished
<1>5. \A c \in Batch : stage'[c] = "sending" =>
        sent'[c] = {} \/ (stage[c] = "sending" /\ sent'[c] = sent[c])
  BY DEF InboxInv, Inbox!TypeOK
<1>6. pending' \subseteq pending /\ prepared \subseteq prepared'
  OBVIOUS
<1> QED BY <1>1, <1>3, <1>4, <1>5, <1>6, InboxUndisturbed DEF InboxInv

(* A header of a stream.                                                   *)
LEMMA InboxHeaderKeeps ==
  ASSUME InboxInv, NEW b \in Batch, NEW o \in Object, Inbox!Header(b, o)
  PROVE  InboxInv'
<1> USE DEF Inbox!Header, Inbox!Go, Inbox!disk, Inbox!stream
<1>1. Inbox!TypeOK'
  BY DEF InboxInv, Inbox!TypeOK, Inbox!Content, Inbox!Stage
<1>2. finished \subseteq finished' /\ inbox' = inbox /\ lost' = lost
  OBVIOUS
<1>3. \A p \in Object : Held(p) => Held(p)'
  BY <1>2 DEF Held
<1>4. ReadOwn' /\ ClearsFinished'
  BY DEF InboxInv, Inbox!TypeOK, ReadOwn, ClearsFinished
<1>5. \A c \in Batch : stage'[c] = "sending" =>
        stage[c] = "sending" /\ sent'[c] = sent[c]
  BY DEF InboxInv, Inbox!TypeOK
<1>6. pending' \subseteq pending /\ prepared \subseteq prepared'
  OBVIOUS
<1> QED BY <1>1, <1>3, <1>4, <1>5, <1>6, InboxUndisturbed DEF InboxInv

(* A payload of a stream.                                                  *)
LEMMA InboxPayloadKeeps ==
  ASSUME InboxInv, NEW b \in Batch, NEW got \in {"whole", "bad"}, Inbox!Payload(b, got)
  PROVE  InboxInv'
<1> USE DEF Inbox!Payload, Inbox!Go, Inbox!disk, Inbox!stream
<1>1. Inbox!TypeOK'
  BY DEF InboxInv, Inbox!TypeOK, Inbox!Content, Inbox!Stage
<1>2. finished \subseteq finished' /\ inbox' = inbox /\ lost' = lost
  OBVIOUS
<1>3. \A p \in Object : Held(p) => Held(p)'
  BY <1>2 DEF Held
<1>4. ReadOwn' /\ ClearsFinished'
  BY DEF InboxInv, Inbox!TypeOK, ReadOwn, ClearsFinished
<1>5. \A c \in Batch : stage'[c] = "sending" =>
        stage[c] = "sending" /\ sent'[c] = sent[c]
  BY DEF InboxInv, Inbox!TypeOK
<1>6. pending' \subseteq pending /\ prepared \subseteq prepared'
  OBVIOUS
<1> QED BY <1>1, <1>3, <1>4, <1>5, <1>6, InboxUndisturbed DEF InboxInv

(* An import reads an object.                                              *)
LEMMA InboxReadKeeps ==
  ASSUME InboxInv, NEW b \in Batch, NEW o \in Object, Inbox!Read(b, o)
  PROVE  InboxInv'
<1> USE DEF Inbox!Read, Inbox!Go, Inbox!disk, Inbox!stream
<1>1. Inbox!TypeOK'
  BY DEF InboxInv, Inbox!TypeOK, Inbox!Content, Inbox!Stage
<1>2. finished \subseteq finished' /\ inbox' = inbox /\ lost' = lost
  OBVIOUS
<1>3. \A p \in Object : Held(p) => Held(p)'
  BY <1>2 DEF Held
<1>4. ReadOwn' /\ ClearsFinished'
  BY DEF InboxInv, Inbox!TypeOK, ReadOwn, ClearsFinished
<1>5. \A c \in Batch : stage'[c] = "sending" =>
        stage[c] = "sending" /\ sent'[c] = sent[c]
  BY DEF InboxInv, Inbox!TypeOK
<1>6. pending' \subseteq pending /\ prepared \subseteq prepared'
  OBVIOUS
<1> QED BY <1>1, <1>3, <1>4, <1>5, <1>6, InboxUndisturbed DEF InboxInv

(* An import goes on, fails or ends.                                       *)
LEMMA InboxImportKeeps ==
  ASSUME InboxInv, NEW b \in Batch,
         Inbox!Replay(b) \/ Inbox!Prepare(b) \/ Inbox!Fail(b) \/ Inbox!Complete(b) \/ Inbox!Cleared(b)
  PROVE  InboxInv'
<1> USE DEF Inbox!Replay, Inbox!Prepare, Inbox!Fail, Inbox!Complete, Inbox!Cleared, Inbox!Go,
   Inbox!disk, Inbox!stream
<1>1. Inbox!TypeOK'
  BY DEF InboxInv, Inbox!TypeOK, Inbox!Content, Inbox!Stage
<1>2. finished \subseteq finished' /\ inbox' = inbox /\ lost' = lost
  OBVIOUS
<1>3. \A p \in Object : Held(p) => Held(p)'
  BY <1>2 DEF Held
<1>4. ReadOwn' /\ ClearsFinished'
  BY DEF InboxInv, Inbox!TypeOK, ReadOwn, ClearsFinished
<1>5. \A c \in Batch : stage'[c] = "sending" =>
        stage[c] = "sending" /\ sent'[c] = sent[c]
  BY DEF InboxInv, Inbox!TypeOK
<1>6. pending' \subseteq pending /\ prepared \subseteq prepared'
  OBVIOUS
<1> QED BY <1>1, <1>3, <1>4, <1>5, <1>6, InboxUndisturbed DEF InboxInv

-----------------------------------------------------------------------------
(* The inbox, in every state.                                              *)
LEMMA InboxInvariance == MC_HostSpec => []InboxInv
<1>1. MC_Init => InboxInv
  BY InboxInitially DEF MC_Init
<1>2. InboxInv /\ [MC_Next]_hostVars => InboxInv'
  <2> SUFFICES ASSUME InboxInv, [MC_Next]_hostVars PROVE InboxInv'
    OBVIOUS
  <2>1. Inbox!Next \/ UNCHANGED inboxVars
    BY DEF MC_Next, hostVars
  <2>2. CASE UNCHANGED inboxVars
    BY <2>2 DEF inboxVars, InboxInv, Inbox!TypeOK, SentKept, ReadOwn, ClearsFinished,
               PendingNeeds, Inbox!PendingHasObjects, Held
  <2> QED BY <2>1, <2>2, InboxCommitKeeps, InboxApplyKeeps, InboxDeleteKeeps,
             InboxRestartKeeps, InboxSendKeeps, InboxHeaderKeeps, InboxPayloadKeeps,
             InboxReadKeeps, InboxImportKeeps DEF Inbox!Next
<1> QED BY <1>1, <1>2, PTL DEF MC_HostSpec

(* The objects a pending batch still needs are whole in the inbox, through *)
(* streams that are cut or damaged, failed imports and restarts, unless an *)
(* applied batch took a shared one with it or it lay there for a day.      *)
THEOREM PendingIsServed == MC_HostSpec => []PendingHasObjects
<1>1. InboxInv => PendingHasObjects
  BY DEF InboxInv, PendingHasObjects
<1> QED BY <1>1, InboxInvariance, PTL

-----------------------------------------------------------------------------
(* SessionTransfer                                                         *)

Log == Seq(Nat)
Readers == [side : Transfer!Side, first : Log, got : Log, ended : BOOLEAN, attempt : 1 .. 2]
Bundles == [base : Log \cup {None}, tail : Log, full : Log]

(* The entry is what the manifest said, as a whole or behind its base.     *)
Bundled ==
  /\ bundle \in Bundles /\ bundle.full = manifest["source"]
  /\ IF bundle.base = None THEN bundle.tail = bundle.full
     ELSE bundle.base \o bundle.tail = bundle.full

TransferInv ==
  /\ log \in [Transfer!Side -> Log] /\ manifest \in [Transfer!Side -> Log]
  /\ events \in 0 .. MaxEvents /\ at \in Transfer!Step \ {"invalid"} /\ whole \in BOOLEAN
  /\ reader \in Readers \cup {None}
  /\ reader # None => Transfer!Prefix(reader.got, log[reader.side])
  /\ \A s \in Transfer!Side : Transfer!Prefix(manifest[s], log[s])
  /\ kept # None => kept = manifest["source"] /\ at # "list"
  /\ imported # None => imported = manifest["source"] /\ at = "applied" /\ reader = None
  /\ bundle \in Bundles \cup {None}
  /\ at = "expand" => Bundled /\ (bundle.base = None => reader = None)

-----------------------------------------------------------------------------
(* Beginnings of logs                                                      *)

(* A beginning, event by event.                                            *)
LEMMA PrefixIs ==
  ASSUME NEW a \in Log, NEW b \in Log
  PROVE  Transfer!Prefix(a, b) <=> Len(a) <= Len(b) /\ \A i \in 1 .. Len(a) : a[i] = b[i]
<1>1. Len(a) \in Nat /\ Len(b) \in Nat
  BY DEF Log
<1>2. CASE Len(a) <= Len(b)
  <2>1. \A i \in 1 .. Len(a) : b[i] \in Nat
    BY <1>1, <1>2, ElementOfSeq DEF Log
  <2>2. /\ SubSeq(b, 1, Len(a)) \in Seq(Nat)
        /\ Len(SubSeq(b, 1, Len(a))) = IF 1 <= Len(a) THEN Len(a) - 1 + 1 ELSE 0
        /\ \A i \in 1 .. Len(a) - 1 + 1 : SubSeq(b, 1, Len(a))[i] = b[1 + i - 1]
    BY <1>1, <2>1, SubSeqProperties
  <2>3. Len(SubSeq(b, 1, Len(a))) = Len(a) /\ \A i \in 1 .. Len(a) : SubSeq(b, 1, Len(a))[i] = b[i]
    BY <1>1, <2>2
  <2>4. (\A i \in 1 .. Len(a) : a[i] = b[i]) => SubSeq(b, 1, Len(a)) = a
    BY <2>2, <2>3, SeqEqual DEF Log
  <2> QED BY <1>2, <2>3, <2>4 DEF Transfer!Prefix
<1>3. CASE ~(Len(a) <= Len(b))
  BY <1>3 DEF Transfer!Prefix
<1> QED BY <1>2, <1>3

(* Nothing is a beginning of every log.                                    *)
LEMMA PrefixOfNothing == ASSUME NEW b \in Log PROVE Transfer!Prefix(<<>>, b)
<1>1. <<>> \in Log /\ Len(<<>>) = 0 /\ Len(b) \in Nat
  BY EmptySeq DEF Log
<1> QED BY <1>1, PrefixIs

(* A beginning stays one when an event is appended.                        *)
LEMMA PrefixGrows ==
  ASSUME NEW a \in Log, NEW b \in Log, NEW e \in Nat, Transfer!Prefix(a, b)
  PROVE  Append(b, e) \in Log /\ Transfer!Prefix(a, Append(b, e))
<1>1. /\ Append(b, e) \in Seq(Nat) /\ Len(Append(b, e)) = Len(b) + 1
      /\ \A i \in 1 .. Len(b) : Append(b, e)[i] = b[i]
  BY AppendProperties DEF Log
<1>2. Len(a) \in Nat /\ Len(b) \in Nat /\ Len(a) <= Len(b) /\ \A i \in 1 .. Len(a) : a[i] = b[i]
  BY PrefixIs DEF Log
<1>3. Append(b, e) \in Log /\ Len(a) <= Len(Append(b, e)) /\ \A i \in 1 .. Len(a) : a[i] = Append(b, e)[i]
  BY <1>1, <1>2 DEF Log
<1> QED BY <1>3, PrefixIs

(* A beginning stays one when the next event is read.                      *)
LEMMA PrefixReads ==
  ASSUME NEW a \in Log, NEW b \in Log, Transfer!Prefix(a, b), Len(a) < Len(b)
  PROVE  Append(a, b[Len(a) + 1]) \in Log /\ Transfer!Prefix(Append(a, b[Len(a) + 1]), b)
<1>1. Len(a) \in Nat /\ Len(b) \in Nat /\ \A i \in 1 .. Len(a) : a[i] = b[i]
  BY PrefixIs DEF Log
<1>2. b[Len(a) + 1] \in Nat
  BY <1>1, ElementOfSeq DEF Log
<1> DEFINE e == b[Len(a) + 1]
           c == Append(a, e)
<1>3. /\ c \in Seq(Nat) /\ Len(c) = Len(a) + 1
      /\ \A i \in 1 .. Len(a) : c[i] = a[i]
      /\ c[Len(a) + 1] = e
  BY <1>2, AppendProperties DEF Log
<1> HIDE DEF c
<1>4. \A i \in 1 .. Len(c) : c[i] = b[i]
  BY <1>1, <1>3
<1>5. Transfer!Prefix(c, b)
  BY <1>1, <1>3, <1>4, PrefixIs DEF Log
<1> QED BY <1>3, <1>5 DEF c, Log

(* A base and the rest make the whole.                                     *)
LEMMA BaseAndTail ==
  ASSUME NEW a \in Log, NEW b \in Log, Transfer!Prefix(a, b)
  PROVE  SubSeq(b, Len(a) + 1, Len(b)) \in Log /\ a \o SubSeq(b, Len(a) + 1, Len(b)) = b
<1> DEFINE m == Len(a) + 1
           t == SubSeq(b, m, Len(b))
<1>1. Len(a) \in Nat /\ Len(b) \in Nat /\ Len(a) <= Len(b) /\ \A i \in 1 .. Len(a) : a[i] = b[i]
  BY PrefixIs DEF Log
<1>2. m \in Int /\ Len(b) \in Int /\ \A i \in m .. Len(b) : b[i] \in Nat
  BY <1>1, ElementOfSeq DEF Log
<1> HIDE DEF m
<1>3. /\ t \in Seq(Nat)
      /\ Len(t) = IF m <= Len(b) THEN Len(b) - m + 1 ELSE 0
      /\ \A i \in 1 .. Len(b) - m + 1 : t[i] = b[m + i - 1]
  BY <1>2, SubSeqProperties
<1> HIDE DEF t
<1>4. Len(t) = Len(b) - Len(a) /\ \A i \in 1 .. Len(t) : t[i] = b[Len(a) + i]
  BY <1>1, <1>3 DEF m
<1>5. /\ a \o t \in Seq(Nat) /\ Len(a \o t) = Len(a) + Len(t)
      /\ \A i \in 1 .. Len(a) + Len(t) : (a \o t)[i] = IF i <= Len(a) THEN a[i] ELSE t[i - Len(a)]
  BY <1>3, ConcatProperties DEF Log
<1>6. Len(a \o t) = Len(b)
  BY <1>1, <1>4, <1>5
<1>7. \A i \in 1 .. Len(a \o t) : (a \o t)[i] = b[i]
  BY <1>1, <1>4, <1>5
<1>8. a \o t = b
  BY <1>5, <1>6, <1>7, SeqEqual DEF Log
<1> QED BY <1>3, <1>8 DEF t, m, Log

-----------------------------------------------------------------------------
(* A reader that starts.                                                   *)
LEMMA ReaderType ==
  ASSUME TransferInv, NEW s \in Transfer!Side, NEW n \in 1 .. 2
  PROVE  /\ Transfer!ReaderOf(s, n) \in Readers
         /\ Transfer!Prefix(Transfer!ReaderOf(s, n).got, log[Transfer!ReaderOf(s, n).side])
<1>1. log[s] \in Log /\ <<>> \in Log
  BY EmptySeq DEF TransferInv, Log
<1>2. Transfer!ReaderOf(s, n) =
        [side |-> s, first |-> log[s], got |-> <<>>, ended |-> FALSE, attempt |-> n]
  BY DEF Transfer!ReaderOf
<1> QED BY <1>1, <1>2, PrefixOfNothing DEF Readers

(* A step of the reader alone.                                             *)
LEMMA ReadingKeeps ==
  ASSUME TransferInv, UNCHANGED <<log, events, manifest, kept, whole, bundle, imported>>,
         reader' \in Readers \cup {None},
         reader' # None => Transfer!Prefix(reader'.got, log[reader'.side]),
         reader # None \/ \E s \in Transfer!Side : Transfer!Reads(s),
         at' = at \/ at' = "changing"
  PROVE  TransferInv'
<1>1. imported = None
  BY DEF TransferInv, Transfer!Reads
<1>2. at = "expand" => bundle.base # None
  BY DEF TransferInv, Transfer!Reads
<1> QED BY <1>1, <1>2 DEF TransferInv, Bundled, Transfer!Step

(* A user appends.                                                         *)
LEMMA AppendKeeps ==
  ASSUME TransferInv, NEW s \in Transfer!Side, Transfer!UserAppends(s)
  PROVE  TransferInv'
<1> DEFINE e == events + 1
<1>1. /\ e \in 0 .. MaxEvents /\ e \in Nat /\ events' = e
      /\ log' = [log EXCEPT ![s] = Append(log[s], e)]
      /\ UNCHANGED <<at, reader, manifest, kept, whole, bundle, imported>>
  BY TransferAssumption DEF Transfer!UserAppends, TransferInv
<1> HIDE DEF e
<1>2. ASSUME NEW x \in Transfer!Side, NEW a \in Log, Transfer!Prefix(a, log[x])
      PROVE  log'[x] \in Log /\ Transfer!Prefix(a, log'[x])
  <2>1. log[x] \in Log /\ log'[x] = IF x = s THEN Append(log[s], e) ELSE log[x]
    BY <1>1 DEF TransferInv
  <2>2. CASE x = s
    BY <1>1, <1>2, <2>1, <2>2, PrefixGrows
  <2>3. CASE x # s
    BY <1>2, <2>1, <2>3
  <2> QED BY <2>2, <2>3
<1>3. log' \in [Transfer!Side -> Log]
  <2>1. Append(log[s], e) \in Log
    BY <1>1, AppendProperties DEF TransferInv, Log
  <2> QED BY <1>1, <2>1 DEF TransferInv
<1>4. \A x \in Transfer!Side : Transfer!Prefix(manifest[x], log'[x])
  BY <1>2 DEF TransferInv
<1>5. reader # None => Transfer!Prefix(reader.got, log'[reader.side])
  BY <1>2 DEF TransferInv, Readers
<1> QED BY <1>1, <1>3, <1>4, <1>5 DEF TransferInv, Bundled

(* A log is read.                                                          *)
LEMMA ReadKeeps ==
  ASSUME TransferInv, (\E s \in Transfer!Side : Transfer!Open(s)) \/ Transfer!Page \/ Transfer!Unstable
  PROVE  TransferInv'
<1>1. ASSUME NEW s \in Transfer!Side, Transfer!Open(s) PROVE TransferInv'
  BY <1>1, ReaderType, ReadingKeeps DEF Transfer!Open
<1>2. CASE Transfer!Page
  <2>1. /\ reader \in Readers /\ reader # None /\ reader.side \in Transfer!Side
        /\ reader.got \in Log /\ log[reader.side] \in Log
        /\ Transfer!Prefix(reader.got, log[reader.side])
        /\ UNCHANGED <<log, events, at, manifest, kept, whole, bundle, imported>>
    BY <1>2 DEF Transfer!Page, TransferInv, Readers
  <2>2. CASE Len(reader.got) < Len(log[reader.side])
    <3> DEFINE g == Append(reader.got, log[reader.side][Len(reader.got) + 1])
    <3>1. g \in Log /\ Transfer!Prefix(g, log[reader.side])
      BY <2>1, <2>2, PrefixReads
    <3>2. reader' = [reader EXCEPT !.got = g]
      BY <1>2, <2>2 DEF Transfer!Page
    <3> HIDE DEF g
    <3>3. reader' \in Readers /\ reader'.got = g /\ reader'.side = reader.side
      BY <2>1, <3>1, <3>2 DEF Readers
    <3> QED BY <2>1, <3>1, <3>3, ReadingKeeps
  <2>3. CASE ~(Len(reader.got) < Len(log[reader.side]))
    <3>1. reader' = [reader EXCEPT !.ended = TRUE]
      BY <1>2, <2>3 DEF Transfer!Page
    <3>2. reader' \in Readers /\ reader'.got = reader.got /\ reader'.side = reader.side
      BY <2>1, <3>1 DEF Readers
    <3> QED BY <2>1, <3>2, ReadingKeeps
  <2> QED BY <2>2, <2>3
<1>3. CASE Transfer!Unstable
  <2>1. /\ reader \in Readers /\ reader.side \in Transfer!Side /\ reader # None
        /\ UNCHANGED <<log, events, manifest, kept, whole, bundle, imported>>
    BY <1>3 DEF Transfer!Unstable, TransferInv, Readers
  <2>2. CASE reader' = Transfer!ReaderOf(reader.side, 2) /\ UNCHANGED at
    BY <2>1, <2>2, ReaderType, ReadingKeeps
  <2>3. CASE reader' = None /\ at' = "changing"
    BY <2>1, <2>3, ReadingKeeps
  <2> QED BY <1>3, <2>2, <2>3 DEF Transfer!Unstable
<1> QED BY <1>1, <1>2, <1>3

-----------------------------------------------------------------------------
(* The manifests, the entry and the import                                 *)

(* The source's manifest.                                                  *)
LEMMA ListKeeps == ASSUME TransferInv, Transfer!List PROVE TransferInv'
<1>1. /\ at = "list" /\ at' = "compare" /\ reader' = None /\ imported = None
      /\ reader \in Readers /\ reader.side = "source" /\ reader.got \in Log
      /\ Transfer!Prefix(reader.got, log["source"])
      /\ manifest' = [manifest EXCEPT !["source"] = reader.got]
      /\ kept' \in {None, reader.got}
      /\ UNCHANGED <<log, events, imported, whole, bundle>>
  BY DEF Transfer!List, Transfer!Stable, TransferInv, Readers
<1>2. manifest' \in [Transfer!Side -> Log] /\ manifest'["source"] = reader.got
  BY <1>1 DEF TransferInv, Transfer!Side
<1>3. \A s \in Transfer!Side : Transfer!Prefix(manifest'[s], log[s])
  BY <1>1 DEF TransferInv, Transfer!Side
<1> QED BY <1>1, <1>2, <1>3 DEF TransferInv, Transfer!Step

(* The target's manifest.                                                  *)
LEMMA CompareKeeps == ASSUME TransferInv, Transfer!Compare PROVE TransferInv'
<1>1. /\ at = "compare" /\ at' \in {"skipped", "fetch"} /\ reader' = None /\ imported = None
      /\ reader \in Readers /\ reader.side = "target" /\ reader.got \in Log
      /\ Transfer!Prefix(reader.got, log["target"])
      /\ manifest' = [manifest EXCEPT !["target"] = reader.got]
      /\ UNCHANGED <<log, events, imported, kept, whole, bundle>>
  BY DEF Transfer!Compare, Transfer!Stable, TransferInv, Readers
<1>2. manifest' \in [Transfer!Side -> Log] /\ manifest'["source"] = manifest["source"]
  BY <1>1 DEF TransferInv, Transfer!Side
<1>3. \A s \in Transfer!Side : Transfer!Prefix(manifest'[s], log[s])
  BY <1>1 DEF TransferInv, Transfer!Side
<1> QED BY <1>1, <1>2, <1>3 DEF TransferInv, Transfer!Step

(* Cut or not, an entry can be put together again.                         *)
LEMMA WithEventTailIs ==
  ASSUME NEW entry \in Log, NEW prefix \in Log
  PROVE  LET b == Transfer!WithEventTail(entry, prefix) IN
         /\ b \in Bundles /\ b.full = entry
         /\ IF b.base = None THEN b.tail = b.full ELSE b.base \o b.tail = b.full
<1> DEFINE b == Transfer!WithEventTail(entry, prefix)
           t == SubSeq(entry, Len(prefix) + 1, Len(entry))
<1>1. CASE prefix # <<>> /\ Transfer!Prefix(prefix, entry)
  <2>1. t \in Log /\ prefix \o t = entry
    BY <1>1, BaseAndTail
  <2>2. b = [base |-> prefix, tail |-> t, full |-> entry]
    BY <1>1 DEF Transfer!WithEventTail
  <2>3. prefix # None
    BY TransferAssumption DEF Log
  <2> HIDE DEF b, t
  <2> QED BY <2>1, <2>2, <2>3 DEF Bundles, b
<1>2. CASE ~(prefix # <<>> /\ Transfer!Prefix(prefix, entry))
  <2>1. b = [base |-> None, tail |-> entry, full |-> entry]
    BY <1>2 DEF Transfer!WithEventTail
  <2> HIDE DEF b
  <2> QED BY <2>1 DEF Bundles, b
<1> QED BY <1>1, <1>2

(* An entry that was fetched is what the manifest said, or is not used.    *)
LEMMA FetchedKeeps ==
  ASSUME TransferInv, NEW entry \in Log, at = "fetch", Transfer!Fetched(entry),
         kept' \in {kept, None}
  PROVE  TransferInv'
<1> DEFINE p == IF whole THEN <<>> ELSE manifest["target"]
<1>1. p \in Log
  BY EmptySeq DEF TransferInv, Transfer!Side, Log
<1>2. /\ bundle' = Transfer!WithEventTail(entry, p)
      /\ at' = IF entry = manifest["source"] THEN "expand" ELSE "stale"
      /\ reader' = None /\ imported = None
      /\ UNCHANGED <<log, events, manifest, whole, imported>>
  BY DEF Transfer!Fetched, Transfer!Selected, TransferInv
<1> HIDE DEF p
<1>3. /\ bundle' \in Bundles /\ bundle'.full = entry
      /\ IF bundle'.base = None THEN bundle'.tail = bundle'.full
         ELSE bundle'.base \o bundle'.tail = bundle'.full
  BY <1>1, <1>2, WithEventTailIs
<1>4. at' = "expand" => Bundled'
  BY <1>2, <1>3 DEF Bundled
<1> QED BY <1>2, <1>3, <1>4 DEF TransferInv, Transfer!Step

(* The entry is fetched, or forgotten.                                     *)
LEMMA FetchKeeps ==
  ASSUME TransferInv, Transfer!FetchCached \/ Transfer!FetchRead \/ Transfer!Evict
  PROVE  TransferInv'
<1>1. CASE Transfer!FetchCached
  <2>1. kept \in Log
    BY <1>1 DEF Transfer!FetchCached, TransferInv, Transfer!Side
  <2> QED BY <1>1, <2>1, FetchedKeeps DEF Transfer!FetchCached
<1>2. CASE Transfer!FetchRead
  <2>1. reader.got \in Log
    BY <1>2 DEF Transfer!FetchRead, Transfer!Stable, TransferInv, Readers
  <2> QED BY <1>2, <2>1, FetchedKeeps DEF Transfer!FetchRead
<1>3. CASE Transfer!Evict
  BY <1>3 DEF Transfer!Evict, TransferInv, Bundled
<1> QED BY <1>1, <1>2, <1>3

(* The entry is put together and imported.                                 *)
LEMMA ApplyKeeps ==
  ASSUME TransferInv, Transfer!ApplyWhole \/ Transfer!ApplyDelta
  PROVE  TransferInv'
<1>1. at = "expand" /\ Bundled /\ imported = None
  BY DEF Transfer!ApplyWhole, Transfer!ApplyDelta, TransferInv
<1>2. CASE Transfer!ApplyWhole
  <2>1. imported' = manifest["source"] /\ at' = "applied" /\ reader' = None
    BY <1>1, <1>2 DEF Transfer!ApplyWhole, Transfer!Import, TransferInv, Bundled
  <2> QED BY <1>2, <2>1 DEF Transfer!ApplyWhole, TransferInv, Transfer!Step
<1>3. CASE Transfer!ApplyDelta
  <2>1. CASE reader.got # bundle.base
    BY <1>1, <1>3, <2>1 DEF Transfer!ApplyDelta, TransferInv, Transfer!Step
  <2>2. CASE reader.got = bundle.base
    <3>1. reader.got \o bundle.tail = bundle.full
      BY <1>1, <1>3, <2>2 DEF Transfer!ApplyDelta, Bundled
    <3>2. imported' = manifest["source"] /\ at' = "applied" /\ reader' = None
      BY <1>1, <1>3, <2>2, <3>1 DEF Transfer!ApplyDelta, Transfer!Import, Bundled
    <3> QED BY <1>3, <2>2, <3>2 DEF Transfer!ApplyDelta, TransferInv, Transfer!Step
  <2> QED BY <2>1, <2>2
<1> QED BY <1>2, <1>3

(* A transfer, in every state.                                             *)
LEMMA TransferInvariance == MC_HostSpec => []TransferInv
<1>1. MC_Init => TransferInv
  <2>1. MC_Init => Transfer!Init
    BY DEF MC_Init
  <2>2. ASSUME Transfer!Init PROVE TransferInv
    <3>1. PICK p \in FirstLogs : log = [source |-> p[1], target |-> p[2]]
      BY <2>2 DEF Transfer!Init
    <3>2. <<>> \in Log /\ p[1] \in Log /\ p[2] \in Log
      BY TransferAssumption, EmptySeq DEF Log
    <3>3. log \in [Transfer!Side -> Log]
      BY <3>1, <3>2 DEF Transfer!Side
    <3>4. /\ manifest \in [Transfer!Side -> Log]
          /\ \A s \in Transfer!Side : manifest[s] = <<>>
      BY <2>2, <3>2 DEF Transfer!Init, Transfer!Side
    <3>5. \A s \in Transfer!Side : Transfer!Prefix(manifest[s], log[s])
      BY <3>3, <3>4, PrefixOfNothing
    <3>6. events \in 0 .. MaxEvents
      BY <2>2, TransferAssumption DEF Transfer!Init
    <3> QED BY <2>2, <3>3, <3>4, <3>5, <3>6 DEF Transfer!Init, TransferInv, Transfer!Step
  <2> QED BY <2>1, <2>2
<1>2. TransferInv /\ [MC_Next]_hostVars => TransferInv'
  <2> SUFFICES ASSUME TransferInv, [MC_Next]_hostVars PROVE TransferInv'
    OBVIOUS
  <2>1. Transfer!Next \/ UNCHANGED transferVars
    BY DEF MC_Next, hostVars
  <2>2. CASE Transfer!Next
    BY <2>2, AppendKeeps, ReadKeeps, ListKeeps, CompareKeeps, FetchKeeps, ApplyKeeps
    DEF Transfer!Next
  <2>3. CASE UNCHANGED transferVars
    BY <2>3 DEF transferVars, TransferInv, Bundled
  <2> QED BY <2>1, <2>2, <2>3
<1> QED BY <1>1, <1>2, PTL DEF MC_HostSpec

(* What is imported is the log that the source's manifest spoke of, whole  *)
(* or put together from a base and its rest, whatever both users append    *)
(* meanwhile; and a rest always fits the base it was cut for.              *)
THEOREM ImportsAreAsPlanned == MC_HostSpec => []AppliedAsPlanned
<1>1. TransferInv => AppliedAsPlanned
  BY DEF TransferInv, AppliedAsPlanned, Transfer!AppliedAsPlanned
<1> QED BY <1>1, TransferInvariance, PTL

-----------------------------------------------------------------------------
(* ArchiveFormat                                                           *)

(* The sum of a function over the first indices, of which there are three  *)
(* at most.                                                                *)
LEMMA SumOfThree ==
  ASSUME NEW f, NEW S \in SUBSET {1, 2, 3}, \A i \in S : f[i] \in Int
  PROVE  Format!SumFunctionOnSet(f, S) =
           (IF 1 \in S THEN f[1] ELSE 0) + (IF 2 \in S THEN f[2] ELSE 0)
             + (IF 3 \in S THEN f[3] ELSE 0)
<1> DEFINE pick(s) == CHOOSE x \in s : TRUE
           P(g) == g = [s \in SUBSET S |-> IF s = {} THEN 0 ELSE f[pick(s)] + g[s \ {pick(s)}]]
           G == CHOOSE g : P(g)
           one(i, s) == IF i \in s THEN f[i] ELSE 0
           V(s) == one(1, s) + one(2, s) + one(3, s)
<1>1. Format!SumFunctionOnSet(f, S) = G[S]
  BY Zenon DEF Format!SumFunctionOnSet, Format!FoldFunctionOnSet, Format!MapThenFoldSet
<1>2. \A s : s # {} => pick(s) \in s
  OBVIOUS
<1>3. ASSUME NEW s \in SUBSET S PROVE V(s) \in Int /\ \A i \in 1 .. 3 : one(i, s) \in Int
  OBVIOUS
<1>4. ASSUME NEW s \in SUBSET S, NEW x \in s PROVE f[x] \in Int /\ V(s) = f[x] + V(s \ {x})
  <2> s \ {x} \in SUBSET S
    OBVIOUS
  <2>1. CASE x = 1
    BY <1>3, <2>1
  <2>2. CASE x = 2
    BY <1>3, <2>2
  <2>3. CASE x = 3
    BY <1>3, <2>3
  <2> QED BY <2>1, <2>2, <2>3
<1>5. V({}) = 0
  OBVIOUS
<1> HIDE DEF V, pick
<1>6. P([s \in SUBSET S |-> V(s)])
  <2> DEFINE H == [s \in SUBSET S |-> V(s)]
  <2>1. ASSUME NEW s \in SUBSET S
        PROVE  V(s) = IF s = {} THEN 0 ELSE f[pick(s)] + H[s \ {pick(s)}]
    <3>1. CASE s = {}
      BY <3>1, <1>5
    <3>2. CASE s # {}
      <4>1. pick(s) \in s /\ s \ {pick(s)} \in SUBSET S
        BY <3>2, <1>2
      <4>2. V(s) = f[pick(s)] + V(s \ {pick(s)})
        BY <4>1, <1>4
      <4>3. H[s \ {pick(s)}] = V(s \ {pick(s)})
        BY <4>1
      <4> QED BY <3>2, <4>2, <4>3
    <3> QED BY <3>1, <3>2
  <2> QED BY <2>1
<1>7. P(G)
  <2> HIDE DEF P
  <2>1. \E g : P(g)
    BY <1>6
  <2> QED BY <2>1, Zenon
<1> HIDE DEF G
<1>8. ASSUME NEW s \in SUBSET S
      PROVE  /\ G[s] = IF s = {} THEN 0 ELSE f[pick(s)] + G[s \ {pick(s)}]
  BY <1>7
<1> HIDE DEF P
<1>9. G[{}] = V({})
  BY <1>5, <1>8
<1>10. ASSUME NEW s \in SUBSET S, s # {}, \A x \in s : G[s \ {x}] = V(s \ {x})
       PROVE  G[s] = V(s)
  <2>1. pick(s) \in s
    BY <1>2, <1>10
  <2>2. G[s] = f[pick(s)] + G[s \ {pick(s)}]
    BY <1>8, <1>10
  <2> QED BY <2>1, <2>2, <1>4, <1>10
<1>11. ASSUME NEW x \in S PROVE G[{x}] = V({x})
  <2>1. \A y \in {x} : {x} \ {y} = {}
    OBVIOUS
  <2> QED BY <2>1, <1>9, <1>10
<1>12. ASSUME NEW x \in S, NEW y \in S PROVE G[{x, y}] = V({x, y})
  <2>1. \A z \in {x, y} : {x, y} \ {z} = {} \/ {x, y} \ {z} = {x} \/ {x, y} \ {z} = {y}
    OBVIOUS
  <2> QED BY <2>1, <1>9, <1>10, <1>11
<1>13. ASSUME NEW x \in S, NEW y \in S, NEW z \in S PROVE G[{x, y, z}] = V({x, y, z})
  <2>1. ASSUME NEW w \in {x, y, z} PROVE G[{x, y, z} \ {w}] = V({x, y, z} \ {w})
    <3> DEFINE T == {x, y, z} \ {w}
    <3>1. T = {} \/ \E u \in S, v \in S : T = {u, v}
      OBVIOUS
    <3> HIDE DEF T
    <3>2. G[T] = V(T)
      <4>1. CASE T = {}
        BY <4>1, <1>9
      <4>2. ASSUME NEW u \in S, NEW v \in S, T = {u, v} PROVE G[T] = V(T)
        BY <4>2, <1>12
      <4> QED BY <3>1, <4>1, <4>2
    <3> QED BY <3>2 DEF T
  <2>2. {x, y, z} \in SUBSET S /\ {x, y, z} # {}
    OBVIOUS
  <2> QED BY <2>1, <2>2, <1>10
<1>14. S = {} \/ \E x \in S, y \in S, z \in S : S = {x, y, z}
  <2> SUFFICES ASSUME NEW x \in S PROVE \E y \in S, z \in S : S = {x, y, z}
    OBVIOUS
  <2>1. CASE S = {x}
    BY <2>1
  <2>2. ASSUME NEW y \in S, y # x PROVE \E u \in S, z \in S : S = {x, u, z}
    <3>1. CASE S = {x, y}
      BY <3>1
    <3>2. CASE S # {x, y}
      <4>1. PICK z \in S : z # x /\ z # y
        BY <3>2
      <4>2. S = {x, y, z}
        BY <2>2, <4>1
      <4> QED BY <4>2
    <3> QED BY <3>1, <3>2
  <2> QED BY <2>1, <2>2
<1>15. G[S] = V(S)
  <2>1. CASE S = {}
    BY <2>1, <1>9
  <2>2. CASE \E x \in S, y \in S, z \in S : S = {x, y, z}
    BY <2>2, <1>13
  <2> QED BY <1>14, <2>1, <2>2
<1> QED BY <1>1, <1>15 DEF V

(* Two or three files with the names that parseZip() expects.              *)
NameOfFile(k) == CASE k = 1 -> "manifest.json" [] k = 2 -> "nodes.json" [] k = 3 -> "sessions.json"

ProperFiles(files, n) ==
  /\ n \in {2, 3} /\ Len(files) = n /\ DOMAIN files = 1 .. n
  /\ \A k \in 1 .. n : files[k].bytes \in Nat /\ files[k].name = NameOfFile(k)

(* The files of an export.                                                 *)
LEMMA ExportedFiles ==
  ASSUME NEW contents \in Format!Contents, NEW order, NEW size \in Size \X Size \X Size
  PROVE  LET files == Format!Files(contents, order, size)
             n == IF contents.sessions = None THEN 2 ELSE 3
         IN  /\ ProperFiles(files, n)
             /\ files[1].data = [sessions |-> contents.sessions # None,
                                 nodesFile |-> Format!Described(size[2], contents.nodes),
                                 sessionsFile |-> IF contents.sessions = None THEN None
                                   ELSE Format!Described(size[3], contents.sessions),
                                 records |-> Format!Summary(contents, order)]
             /\ files[2].bytes = size[2] /\ files[2].data = contents.nodes
             /\ contents.sessions # None =>
                  files[3] = Format!File("sessions.json", size[3], contents.sessions)
<1> DEFINE index == [sessions |-> contents.sessions # None,
                     nodesFile |-> Format!Described(size[2], contents.nodes),
                     sessionsFile |-> IF contents.sessions = None THEN None
                       ELSE Format!Described(size[3], contents.sessions),
                     records |-> Format!Summary(contents, order)]
           files == Format!Files(contents, order, size)
           a == Format!File("manifest.json", size[1], index)
           b == Format!File("nodes.json", size[2], contents.nodes)
           c == Format!File("sessions.json", size[3], contents.sessions)
<1>1. files = IF contents.sessions = None THEN <<a, b>> ELSE Append(<<a, b>>, c)
  BY Zenon DEF Format!Files
<1>2. /\ Len(Append(<<a, b>>, c)) = 3 /\ DOMAIN Append(<<a, b>>, c) = 1 .. 3
      /\ Append(<<a, b>>, c)[1] = a /\ Append(<<a, b>>, c)[2] = b
      /\ Append(<<a, b>>, c)[3] = c
  <2> HIDE DEF a, b, c
  <2> DEFINE t == <<a, b>>
  <2>1. t \in Seq({a, b, c}) /\ Len(t) = 2 /\ t[1] = a /\ t[2] = b
    OBVIOUS
  <2> HIDE DEF t
  <2>2. /\ Append(t, c) \in Seq({a, b, c}) /\ Len(Append(t, c)) = 3
        /\ Append(t, c)[1] = a /\ Append(t, c)[2] = b /\ Append(t, c)[3] = c
    BY <2>1, AppendProperties
  <2>3. DOMAIN Append(t, c) = 1 .. 3
    BY <2>2, LenProperties
  <2> QED BY <2>2, <2>3 DEF t
<1>3. /\ size[1] \in Nat /\ size[2] \in Nat /\ size[3] \in Nat
  BY FormatAssumption
<1>4. /\ a.name = "manifest.json" /\ a.bytes = size[1] /\ a.data = index
      /\ b.name = "nodes.json" /\ b.bytes = size[2] /\ b.data = contents.nodes
      /\ c.name = "sessions.json" /\ c.bytes = size[3]
  <2> HIDE DEF index
  <2> QED BY DEF Format!File
<1> HIDE DEF a, b, index, files
<1>5. CASE contents.sessions = None
  <2>1. files = <<a, b>>
    BY <1>1, <1>5
  <2>2. ProperFiles(files, 2) /\ files[1] = a /\ files[2] = b
    BY <2>1, <1>3, <1>4 DEF ProperFiles, NameOfFile
  <2> QED BY <2>2, <1>4, <1>5 DEF index, files
<1>6. CASE contents.sessions # None
  <2> HIDE DEF c
  <2>1. /\ Len(files) = 3 /\ DOMAIN files = 1 .. 3
        /\ files[1] = a /\ files[2] = b /\ files[3] = c
    BY <1>1, <1>2, <1>6
  <2>2. ProperFiles(files, 3)
    BY <2>1, <1>3, <1>4 DEF ProperFiles, NameOfFile
  <2> QED BY <2>1, <2>2, <1>4, <1>6 DEF index, files, c
<1> QED BY <1>5, <1>6

(* Where the parts of a ZIP are: each local record ends before the next    *)
(* one and the directory, which ends where the end record begins.          *)
LEMMA ZipLayout ==
  ASSUME NEW files, NEW n, ProperFiles(files, n)
  PROVE  LET z == Format!Zip(files)
             end(k) == Format!LocalAt(files, k) + Format!LocalBytes(files[k])
         IN  /\ Format!Rows(files) = 1 .. n
             /\ \A k \in 1 .. n : Format!LocalAt(files, k) \in Nat /\ end(k) <= z.centralAt
             /\ \A j, k \in 1 .. n :
                  Format!LocalAt(files, j) < Format!LocalAt(files, k)
                    => end(j) <= Format!LocalAt(files, k)
             /\ z.centralAt \in Nat /\ z.centralBytes \in Nat
             /\ z.bytes = z.centralAt + z.centralBytes + Format!EndRecord
<1> DEFINE size == Format!LocalSizes(files)
           central == [k \in Format!Rows(files) |-> Format!CentralBytes(files[k])]
           begin(k) == Format!LocalAt(files, k)
           z == Format!Zip(files)
<1>1. Format!Rows(files) = 1 .. n
  BY DEF Format!Rows, ProperFiles
<1>2. \A k \in 1 .. n : Format!LocalBytes(files[k]) \in Nat /\ Format!CentralBytes(files[k]) \in Nat
  BY DEF ProperFiles, Format!LocalBytes, Format!CentralBytes, Format!NameBytes, Format!LocalHeader,
         Format!CentralHeader
<1>3. /\ DOMAIN size = 1 .. n /\ \A k \in 1 .. n : size[k] = Format!LocalBytes(files[k])
      /\ DOMAIN central = 1 .. n /\ \A k \in 1 .. n : central[k] \in Nat
  BY <1>1, <1>2 DEF Format!LocalSizes
<1>4. /\ z.centralAt = Format!SumFunctionOnSet(size, 1 .. n)
      /\ z.centralBytes = Format!SumFunctionOnSet(central, 1 .. n)
      /\ z.bytes = z.centralAt + z.centralBytes + Format!EndRecord
  BY <1>3 DEF Format!Zip, Format!SumFunction
<1>5. \A k : begin(k) = Format!SumFunctionOnSet(size, 1 .. (k - 1))
  BY DEF Format!LocalAt
<1>6. n \in {2, 3}
  BY DEF ProperFiles
<1> HIDE DEF size, central, z, begin
<1>7. z.centralBytes \in Nat
  <2>1. 1 .. n \in SUBSET {1, 2, 3} /\ \A i \in 1 .. n : central[i] \in Int
    BY <1>3, <1>6
  <2>2. Format!SumFunctionOnSet(central, 1 .. n) =
           (IF 1 \in 1 .. n THEN central[1] ELSE 0) + (IF 2 \in 1 .. n THEN central[2] ELSE 0)
             + (IF 3 \in 1 .. n THEN central[3] ELSE 0)
    BY <2>1, SumOfThree
  <2> QED BY <2>2, <1>3, <1>4, <1>6
<1>8. ASSUME NEW k \in 0 .. n
      PROVE  Format!SumFunctionOnSet(size, 1 .. k) =
               (IF 1 <= k THEN size[1] ELSE 0) + (IF 2 <= k THEN size[2] ELSE 0)
                 + (IF 3 <= k THEN size[3] ELSE 0)
  <2>1. 1 .. k \in SUBSET {1, 2, 3} /\ \A i \in 1 .. k : size[i] \in Int
    BY <1>2, <1>3, <1>6
  <2>2. Format!SumFunctionOnSet(size, 1 .. k) =
           (IF 1 \in 1 .. k THEN size[1] ELSE 0) + (IF 2 \in 1 .. k THEN size[2] ELSE 0)
             + (IF 3 \in 1 .. k THEN size[3] ELSE 0)
    BY <2>1, SumOfThree
  <2> QED BY <2>2, <1>6
<1>9. /\ begin(1) = 0 /\ begin(2) = size[1]
      /\ n = 2 => z.centralAt = size[1] + size[2]
      /\ n = 3 => begin(3) = size[1] + size[2] /\ z.centralAt = size[1] + size[2] + size[3]
  <2>1. begin(1) = Format!SumFunctionOnSet(size, 1 .. 0) /\ begin(2) = Format!SumFunctionOnSet(size, 1 .. 1)
        /\ begin(3) = Format!SumFunctionOnSet(size, 1 .. 2)
    <3>1. 1 - 1 = 0 /\ 2 - 1 = 1 /\ 3 - 1 = 2
      OBVIOUS
    <3>2. /\ begin(1) = Format!SumFunctionOnSet(size, 1 .. (1 - 1))
          /\ begin(2) = Format!SumFunctionOnSet(size, 1 .. (2 - 1))
          /\ begin(3) = Format!SumFunctionOnSet(size, 1 .. (3 - 1))
      BY <1>5, Zenon
    <3> QED BY <3>1, <3>2, Zenon
  <2>2. size[1] \in Nat /\ size[2] \in Nat /\ (n = 3 => size[3] \in Nat)
    BY <1>2, <1>3, <1>6
  <2>3. /\ 0 \in 0 .. n /\ 1 \in 0 .. n /\ 2 \in 0 .. n /\ n \in 0 .. n
    BY <1>6
  <2> DEFINE sum(k) == (IF 1 <= k THEN size[1] ELSE 0) + (IF 2 <= k THEN size[2] ELSE 0)
                         + (IF 3 <= k THEN size[3] ELSE 0)
  <2>4. begin(1) = sum(0) /\ begin(2) = sum(1) /\ begin(3) = sum(2)
    <3> HIDE DEF sum
    <3>1. \A k \in 0 .. n : Format!SumFunctionOnSet(size, 1 .. k) = sum(k)
      BY <1>8 DEF sum
    <3> QED BY <2>1, <2>3, <3>1, Zenon
  <2>5. sum(0) = 0 /\ sum(1) = size[1] /\ sum(2) = size[1] + size[2]
    BY <2>2
  <2>6. z.centralAt = (IF 1 <= n THEN size[1] ELSE 0) + (IF 2 <= n THEN size[2] ELSE 0)
                        + (IF 3 <= n THEN size[3] ELSE 0)
    BY <2>3, <1>4, <1>8
  <2>7. n = 2 => z.centralAt = size[1] + size[2]
    BY <2>2, <2>6
  <2>8. n = 3 => z.centralAt = size[1] + size[2] + size[3]
    BY <2>2, <2>6
  <2> HIDE DEF sum
  <2> QED BY <2>4, <2>5, <2>7, <2>8
<1>10. size[1] \in Nat /\ size[2] \in Nat /\ (n = 3 => size[3] \in Nat)
  BY <1>2, <1>3, <1>6
<1>11. \A k \in 1 .. n : begin(k) \in Nat /\ begin(k) + size[k] <= z.centralAt /\ z.centralAt \in Nat
  <2>1. CASE n = 2
    <3>1. \A k \in 1 .. n : k = 1 \/ k = 2
      BY <2>1
    <3> QED BY <3>1, <2>1, <1>9, <1>10
  <2>2. CASE n = 3
    <3>1. \A k \in 1 .. n : k = 1 \/ k = 2 \/ k = 3
      BY <2>2
    <3> QED BY <3>1, <2>2, <1>9, <1>10
  <2> QED BY <1>6, <2>1, <2>2
<1>12. \A j, k \in 1 .. n : begin(j) < begin(k) => begin(j) + size[j] <= begin(k)
  BY <1>6, <1>9, <1>10
<1> QED BY <1>1, <1>3, <1>4, <1>6, <1>7, <1>11, <1>12 DEF begin, z

(* What the directory of a ZIP lists.                                      *)
LEMMA DirectoryIs ==
  ASSUME NEW files, NEW n, ProperFiles(files, n)
  PROVE  LET z == Format!Zip(files)
         IN  /\ Len(z.central) = n /\ Format!Rows(z.central) = 1 .. n
             /\ \A k \in 1 .. n : /\ z.central[k].file = files[k]
                                  /\ z.central[k].at = Format!LocalAt(files, k)
                                  /\ [at |-> z.central[k].at, file |-> files[k]] \in z.local
             /\ z.centralBytes = Format!SumFunction(
                  [k \in 1 .. n |-> Format!CentralBytes(z.central[k].file)])
             /\ Format!SumFunction([k \in 1 .. n |-> z.central[k].file.bytes])
                  = Format!SumFunction([k \in Format!Rows(files) |-> files[k].bytes])
<1> DEFINE z == Format!Zip(files)
           row(k) == [file |-> files[k], at |-> Format!LocalAt(files, k)]
<1>1. Format!Rows(files) = 1 .. n /\ n \in Nat
  BY DEF Format!Rows, ProperFiles
<1>2. z.central = [k \in 1 .. n |-> row(k)]
  BY <1>1 DEF Format!Zip
<1>3. Len(z.central) = n
  <2> DEFINE s == [k \in 1 .. n |-> row(k)]
             R == {row(k) : k \in 1 .. n}
  <2>1. s \in [1 .. n -> R]
    OBVIOUS
  <2>2. s \in Seq(R)
    BY <1>1, <2>1, SeqDef
  <2>3. DOMAIN s = 1 .. Len(s) /\ DOMAIN s = 1 .. n /\ Len(s) \in Nat
    BY <2>2, LenProperties
  <2> HIDE DEF s
  <2>4. n \in {2, 3}
    BY DEF ProperFiles
  <2>5. n \in 1 .. Len(s) /\ Len(s) \in Nat
    BY <2>3, <2>4
  <2>6. Len(s) \in 1 .. n
    BY <2>3, <2>5
  <2>7. Len(s) = n
    BY <2>4, <2>5, <2>6
  <2> QED BY <1>2, <2>7 DEF s
<1>4. Format!Rows(z.central) = 1 .. n
  BY <1>3 DEF Format!Rows
<1>5. \A k \in 1 .. n : z.central[k].file = files[k] /\ z.central[k].at = Format!LocalAt(files, k)
  BY <1>2
<1>6. \A k \in 1 .. n : [at |-> Format!LocalAt(files, k), file |-> files[k]] \in z.local
  BY <1>1 DEF Format!Zip, Format!LocalAt
<1>7. z.centralBytes = Format!SumFunction([k \in 1 .. n |-> Format!CentralBytes(files[k])])
  BY <1>1 DEF Format!Zip
<1> HIDE DEF z
<1>8. [k \in 1 .. n |-> Format!CentralBytes(z.central[k].file)]
        = [k \in 1 .. n |-> Format!CentralBytes(files[k])]
  BY <1>5
<1>9. [k \in 1 .. n |-> z.central[k].file.bytes] = [k \in 1 .. n |-> files[k].bytes]
  BY <1>5
<1> QED BY <1>1, <1>3, <1>4, <1>5, <1>6, <1>7, <1>8, <1>9 DEF z

(* Each name leads to its file.                                            *)
LEMMA NamesLead ==
  ASSUME NEW files, NEW n, ProperFiles(files, n)
  PROVE  LET z == Format!Zip(files)
         IN  /\ \A k \in 1 .. n : Format!Named(z, NameOfFile(k)) = files[k]
             /\ n = 2 => Format!Named(z, "sessions.json") = None
<1> DEFINE z == Format!Zip(files)
           found(name) == {i \in Format!Rows(z.central) : z.central[i].file.name = name}
<1>1. Format!Rows(z.central) = 1 .. n /\ \A k \in 1 .. n : z.central[k].file = files[k]
  BY DirectoryIs
<1>2. \A name : Format!Named(z, name) =
         IF found(name) = {} THEN None ELSE z.central[CHOOSE i \in found(name) : TRUE].file
  BY Zenon DEF Format!Named
<1>3. n \in {2, 3}
  BY DEF ProperFiles
<1> HIDE DEF z
<1>4. \A name : found(name) = {i \in 1 .. n : NameOfFile(i) = name}
  <2>1. \A i \in 1 .. n : z.central[i].file.name = NameOfFile(i)
    BY <1>1 DEF ProperFiles
  <2> QED BY <1>1, <2>1
<1> HIDE DEF found
<1>5. ASSUME NEW k \in 1 .. n PROVE Format!Named(z, NameOfFile(k)) = files[k]
  <2>1. found(NameOfFile(k)) = {k}
    BY <1>3, <1>4 DEF NameOfFile
  <2>2. (CHOOSE i \in found(NameOfFile(k)) : TRUE) = k
    BY <2>1
  <2>3. Format!Named(z, NameOfFile(k)) = z.central[k].file
    BY <1>2, <2>1, <2>2
  <2> QED BY <2>3, <1>1
<1>6. ASSUME n = 2 PROVE found("sessions.json") = {}
  BY <1>4, <1>6 DEF NameOfFile
<1> QED BY <1>2, <1>5, <1>6 DEF z

(* What is exported within the limits passes every check of parseZip().    *)
LEMMA ParseAccepts ==
  ASSUME NEW files, NEW n, ProperFiles(files, n), Format!Fits(files)
  PROVE  Format!DirectoryOk(Format!Zip(files)) /\ Format!EntriesOk(Format!Zip(files))
<1> DEFINE z == Format!Zip(files)
           names == {z.central[i].file.name : i \in Format!Rows(z.central)}
<1>1. n \in {2, 3} /\ Len(z.central) = n /\ Format!Rows(z.central) = 1 .. n
  BY DirectoryIs DEF ProperFiles
<1>2. \A k \in 1 .. n : /\ z.central[k].file = files[k]
                        /\ z.central[k].at = Format!LocalAt(files, k)
                        /\ [at |-> z.central[k].at, file |-> files[k]] \in z.local
  BY DirectoryIs
<1>3. /\ Cardinality(names) = n /\ {"manifest.json", "nodes.json"} \subseteq names
      /\ "sessions.json" \in names <=> n = 3
  <2> DEFINE two == {"manifest.json"} \cup {"nodes.json"}
  <2>1. IsFiniteSet({"manifest.json"}) /\ Cardinality({"manifest.json"}) = 1
    BY FS_Singleton
  <2>2. IsFiniteSet(two) /\ Cardinality(two) = 2
    BY <2>1, FS_AddElement
  <2>3. Cardinality(two \cup {"sessions.json"}) = 3
    BY <2>2, FS_AddElement
  <2> HIDE DEF z
  <2>4. names = {NameOfFile(i) : i \in 1 .. n}
    <3>1. \A i \in 1 .. n : z.central[i].file.name = NameOfFile(i)
      BY <1>2 DEF ProperFiles
    <3> QED BY <1>1, <3>1
  <2> HIDE DEF names
  <2>5. CASE n = 2
    <3>1. 1 .. 2 = {1, 2}
      OBVIOUS
    <3>2. names = two
      BY <2>4, <2>5, <3>1 DEF NameOfFile
    <3> QED BY <2>2, <2>5, <3>2
  <2>6. CASE n = 3
    <3>1. 1 .. 3 = {1, 2, 3}
      OBVIOUS
    <3>2. names = two \cup {"sessions.json"}
      BY <2>4, <2>6, <3>1 DEF NameOfFile
    <3> QED BY <2>3, <2>6, <3>2
  <2> QED BY <1>1, <2>5, <2>6
<1>4. z.centralAt + z.centralBytes = z.bytes - Format!EndRecord
  BY ZipLayout DEF Format!EndRecord
<1>5. z.centralBytes = Format!SumFunction([i \in Format!Rows(z.central) |->
                                            Format!CentralBytes(z.central[i].file)])
  BY <1>1, DirectoryIs
<1>6. Format!SumFunction([i \in Format!Rows(z.central) |-> z.central[i].file.bytes]) <= MaxBytes
  BY <1>1, DirectoryIs DEF Format!Fits
<1>7. Format!DirectoryOk(z)
  <2> HIDE DEF z
  <2>1. /\ Len(z.central) \in 2 .. 3 /\ ("sessions.json" \in names <=> Len(z.central) = 3)
        /\ Cardinality(names) = Len(z.central)
    BY <1>1, <1>3
  <2>2. {"manifest.json", "nodes.json"} \subseteq names
    BY <1>3
  <2>3. Format!Cardinality(names) = Cardinality(names)
    BY Zenon DEF Format!Cardinality, Cardinality
  <2> QED BY <1>4, <1>5, <1>6, <2>1, <2>2, <2>3, Zenon DEF Format!DirectoryOk
<1>8. /\ \A k \in 1 .. n :
           Format!LocalAt(files, k) + Format!LocalBytes(files[k]) <= z.centralAt
      /\ \A j, k \in 1 .. n : Format!LocalAt(files, j) < Format!LocalAt(files, k) =>
           Format!LocalAt(files, j) + Format!LocalBytes(files[j]) <= Format!LocalAt(files, k)
  BY ZipLayout
<1> HIDE DEF z
<1>9. Format!EntriesOk(z)
  <2>1. ASSUME NEW i \in Format!Rows(z.central)
        PROVE  /\ [at |-> z.central[i].at, file |-> z.central[i].file] \in z.local
               /\ z.central[i].at + Format!LocalBytes(z.central[i].file) <= z.centralAt
    BY <1>1, <1>2, <1>8
  <2>2. ASSUME NEW i \in Format!Rows(z.central), NEW j \in Format!Rows(z.central),
               z.central[i].at < z.central[j].at
        PROVE  z.central[i].at + Format!LocalBytes(z.central[i].file) <= z.central[j].at
    <3>1. i \in 1 .. n /\ j \in 1 .. n
      BY <1>1
    <3>2. Format!LocalAt(files, i) < Format!LocalAt(files, j)
      BY <3>1, <1>2, <2>2
    <3>3. Format!LocalAt(files, i) + Format!LocalBytes(files[i]) <= Format!LocalAt(files, j)
      BY <3>1, <3>2, <1>8
    <3> QED BY <3>1, <3>3, <1>2
  <2> QED BY <2>1, <2>2 DEF Format!EntriesOk
<1> QED BY <1>7, <1>9 DEF z

(* A host that sorts alike finds the manifest true if there are not too    *)
(* many sessions, and any host reads what was exported.                    *)
LEMMA ContentsAreRead ==
  ASSUME NEW contents \in Format!Contents, NEW order, NEW size \in Size \X Size \X Size
  PROVE  LET z == Format!Zip(Format!Files(contents, order, size))
         IN  /\ (contents.sessions = None \/ Format!BundleOk(contents.sessions))
                  => Format!ManifestOk(z, order)
             /\ Format!Decoded(z) = contents
<1> DEFINE files == Format!Files(contents, order, size)
           n == IF contents.sessions = None THEN 2 ELSE 3
           z == Format!Zip(files)
           index == Format!Named(z, "manifest.json").data
           nodesJson == Format!Named(z, "nodes.json")
           sessionsJson == Format!Named(z, "sessions.json")
<1>1. ProperFiles(files, n)
  BY ExportedFiles
<1>2. /\ files[1].data = [sessions |-> contents.sessions # None,
                          nodesFile |-> Format!Described(size[2], contents.nodes),
                          sessionsFile |-> IF contents.sessions = None THEN None
                            ELSE Format!Described(size[3], contents.sessions),
                          records |-> Format!Summary(contents, order)]
      /\ files[2].bytes = size[2] /\ files[2].data = contents.nodes
      /\ contents.sessions # None =>
           files[3] = Format!File("sessions.json", size[3], contents.sessions)
  BY ExportedFiles
<1> HIDE DEF files
<1>3. /\ Format!Named(z, "manifest.json") = files[1] /\ nodesJson = files[2]
      /\ sessionsJson = IF contents.sessions = None THEN None ELSE files[3]
  BY <1>1, NamesLead DEF NameOfFile
<1> HIDE DEF z
<1>4. contents = [nodes |-> contents.nodes, sessions |-> contents.sessions]
      /\ contents.sessions \in (SUBSET Format!Record) \cup {None}
  BY DEF Format!Contents
<1>5. contents.sessions # None =>
        /\ sessionsJson.data = contents.sessions /\ sessionsJson.bytes = size[3]
        /\ sessionsJson # None
  <2> SUFFICES ASSUME contents.sessions # None
               PROVE  /\ sessionsJson.data = contents.sessions /\ sessionsJson.bytes = size[3]
                      /\ sessionsJson # None
    OBVIOUS
  <2>1. sessionsJson = [name |-> "sessions.json", bytes |-> size[3], data |-> contents.sessions]
    BY <1>2, <1>3 DEF Format!File
  <2>2. sessionsJson \in [name : {"sessions.json"}, bytes : Size, data : SUBSET Format!Record]
    <3>1. size[3] \in Size /\ contents.sessions \in SUBSET Format!Record
      BY <1>4
    <3> HIDE DEF sessionsJson
    <3> QED BY <2>1, <3>1
  <2> QED BY <2>1, <2>2, FormatAssumption
<1>6. /\ index.nodesFile = Format!Described(size[2], contents.nodes)
      /\ index.sessionsFile = IF contents.sessions = None THEN None
                                 ELSE Format!Described(size[3], contents.sessions)
      /\ index.records = Format!Summary(contents, order)
  BY <1>2, <1>3
<1>7. index.sessions = (contents.sessions # None)
  BY <1>2, <1>3
<1>8. (sessionsJson = None) <=> (contents.sessions = None)
  BY <1>3, <1>5
<1>9. nodesJson.data = contents.nodes /\ nodesJson.bytes = size[2]
  BY <1>2, <1>3
<1>10. Format!Decoded(z) = contents
  <2>1. (IF sessionsJson = None THEN None ELSE sessionsJson.data) = contents.sessions
    BY <1>5, <1>8
  <2> QED BY <1>4, <1>9, <2>1 DEF Format!Decoded
<1> HIDE DEF index, nodesJson, sessionsJson
<1> SUFFICES ASSUME contents.sessions = None \/ Format!BundleOk(contents.sessions)
             PROVE  Format!ManifestOk(z, order)
  BY <1>10 DEF z, files
<1>11. /\ index.sessions <=> sessionsJson # None
       /\ index.nodesFile = Format!Described(nodesJson.bytes, nodesJson.data)
       /\ IF sessionsJson = None THEN index.sessionsFile = None
          ELSE /\ index.sessionsFile = Format!Described(sessionsJson.bytes, sessionsJson.data)
               /\ Format!BundleOk(sessionsJson.data)
       /\ index.records =
            Format!Summary([nodes |-> nodesJson.data,
                            sessions |-> IF sessionsJson = None THEN None ELSE sessionsJson.data], order)
  <2>1. index.sessions <=> sessionsJson # None
    BY <1>7, <1>8
  <2>2. index.nodesFile = Format!Described(nodesJson.bytes, nodesJson.data)
    BY <1>6, <1>9
  <2>3. IF sessionsJson = None THEN index.sessionsFile = None
        ELSE /\ index.sessionsFile = Format!Described(sessionsJson.bytes, sessionsJson.data)
             /\ Format!BundleOk(sessionsJson.data)
    BY <1>5, <1>6, <1>8
  <2>4. [nodes |-> nodesJson.data, sessions |-> IF sessionsJson = None THEN None ELSE sessionsJson.data]
          = contents
    BY <1>4, <1>5, <1>8, <1>9
  <2> QED BY <1>6, <2>1, <2>2, <2>3, <2>4
<1>12. Format!ManifestOk(z, order)
  BY <1>11, Zenon DEF Format!ManifestOk, index, nodesJson, sessionsJson
<1> QED BY <1>12

(* The package is what its origin says, and within the limits.             *)
Exported(contents, order, size) ==
  LET files == Format!Files(contents, order, size)
  IN  /\ Format!Fits(files)
      /\ package = [zip |-> Format!Zip(files), key |-> origin.key, whole |-> package.whole,
                    bytes |-> Format!Header + Format!Zip(files).bytes + Format!Tag]
      /\ origin.contents = contents /\ origin.order = order

(* There is nothing to import before the export, and afterwards there is   *)
(* what was exported.                                                      *)
FormatInv ==
  /\ package = None => outcome = None
  /\ package # None =>
       /\ package.whole \in BOOLEAN
       /\ \E contents \in Format!Contents, order \in Collation, size \in Size \X Size \X Size :
            Exported(contents, order, size)
  /\ Format!ExportsImport

(* An archive is exported.                                                 *)
LEMMA FormatExportKeeps ==
  ASSUME FormatInv, NEW contents \in Format!Contents, NEW order \in Collation,
         NEW size \in Size \X Size \X Size, NEW password \in Password,
         Format!Export(contents, order, size, password)
  PROVE  FormatInv'
<1> DEFINE files == Format!Files(contents, order, size)
<1>1. /\ package = None /\ outcome' = outcome /\ Format!Fits(files)
      /\ package' = [zip |-> Format!Zip(files), key |-> password, whole |-> TRUE,
                     bytes |-> Format!Header + Format!Zip(files).bytes + Format!Tag]
      /\ origin' = [contents |-> contents, order |-> order, key |-> password]
  BY DEF Format!Export
<1>2. outcome' = None
  BY <1>1 DEF FormatInv
<1> HIDE DEF files
<1>3. Exported(contents, order, size)' /\ package'.whole = TRUE
  BY <1>1 DEF Exported, files
<1> QED BY <1>2, <1>3 DEF FormatInv, Format!ExportsImport

(* It is damaged on its way.                                               *)
LEMMA DamageKeeps == ASSUME FormatInv, Format!Damage PROVE FormatInv'
<1>1. /\ package # None /\ outcome' = None /\ origin' = origin
      /\ package' = [package EXCEPT !.whole = FALSE]
  BY DEF Format!Damage
<1>2. PICK contents \in Format!Contents, order \in Collation, size \in Size \X Size \X Size :
        Exported(contents, order, size)
  BY <1>1 DEF FormatInv
<1> DEFINE z == Format!Zip(Format!Files(contents, order, size))
<1> DEFINE w == package.whole
           no == FALSE
           b == Format!Header + z.bytes + Format!Tag
           r == [zip |-> z, key |-> origin.key, whole |-> w, bytes |-> b]
<1>3. package = r /\ package' = [package EXCEPT !.whole = no] /\ no \in BOOLEAN
  BY <1>1, <1>2 DEF Exported
<1> HIDE DEF z, w, no, b
<1>4. [r EXCEPT !.whole = no] = [zip |-> z, key |-> origin.key, whole |-> no, bytes |-> b]
  OBVIOUS
<1>5. /\ package' = [zip |-> z, key |-> origin.key, whole |-> package'.whole, bytes |-> b]
      /\ package'.whole \in BOOLEAN
  BY <1>3, <1>4
<1>6. Exported(contents, order, size)'
  BY <1>1, <1>2, <1>5 DEF Exported, z, b
<1> QED BY <1>1, <1>5, <1>6 DEF FormatInv, Format!ExportsImport

(* It is imported, or refused.                                             *)
LEMMA FormatImportKeeps ==
  ASSUME FormatInv, NEW order \in Collation, NEW password \in Password,
         NEW ready \in BOOLEAN, Format!Import(order, password, ready)
  PROVE  FormatInv'
<1> DEFINE refusal == [refused |-> [order |-> order, key |-> password, ready |-> ready]]
<1>1. package # None /\ outcome = None /\ package' = package /\ origin' = origin
  BY DEF Format!Import
<1>2. PICK contents \in Format!Contents, o \in Collation, size \in Size \X Size \X Size :
        Exported(contents, o, size)
  BY <1>1 DEF FormatInv
<1> DEFINE files == Format!Files(contents, o, size)
           n == IF contents.sessions = None THEN 2 ELSE 3
           z == Format!Zip(files)
           few == contents.sessions = None \/ Format!BundleOk(contents.sessions)
           accepted == /\ package.bytes \in (Format!Header + Format!Tag + Format!EndRecord) .. MaxBytes
                       /\ package.whole /\ password = package.key
                       /\ package.zip.bytes <= MaxBytes
                       /\ Format!DirectoryOk(package.zip) /\ Format!EntriesOk(package.zip)
                       /\ Format!ManifestOk(package.zip, order)
                       /\ ready
<1>3. outcome' = IF accepted THEN Format!Decoded(package.zip) ELSE refusal
  BY DEF Format!Import
<1>4. package.zip = z /\ package.bytes = Format!Header + z.bytes + Format!Tag
  BY <1>2 DEF Exported
<1>5. package.key = origin.key /\ origin.contents = contents /\ origin.order = o
  BY <1>2 DEF Exported
<1>6. ProperFiles(files, n) /\ Format!Fits(files)
  BY <1>2, ExportedFiles DEF Exported
<1>7. Format!DirectoryOk(z) /\ Format!EntriesOk(z)
  BY <1>6, ParseAccepts
<1>8. (few => Format!ManifestOk(z, o)) /\ Format!Decoded(z) = contents
  BY ContentsAreRead
<1>9. z.bytes <= Format!MaxZip /\ z.bytes \in Nat /\ z.bytes >= Format!EndRecord
  <2>1. z.centralAt \in Nat /\ z.centralBytes \in Nat
        /\ z.bytes = z.centralAt + z.centralBytes + Format!EndRecord
    BY <1>6, ZipLayout
  <2>2. z.bytes <= Format!MaxZip
    BY <1>6 DEF Format!Fits
  <2> HIDE DEF z
  <2> QED BY <2>1, <2>2 DEF Format!EndRecord
<1> HIDE DEF z, files, n, few
<1>10. /\ package.bytes \in (Format!Header + Format!Tag + Format!EndRecord) .. MaxBytes
       /\ z.bytes <= MaxBytes
  BY <1>4, <1>9, FormatAssumption DEF Format!MaxZip, Format!Header, Format!Tag, Format!EndRecord
<1>11. package.whole /\ password = origin.key /\ order = origin.order /\ ready /\ few => accepted
  BY <1>4, <1>5, <1>7, <1>8, <1>10
<1> HIDE DEF accepted
<1>12. CASE accepted
  <2>1. outcome' = origin.contents
    BY <1>3, <1>4, <1>5, <1>8, <1>12
  <2>2. "refused" \notin DOMAIN origin.contents
    BY <1>5 DEF Format!Contents
  <2>3. Format!ExportsImport'
    BY <1>1, <2>1, <2>2 DEF Format!ExportsImport, Format!Refused
  <2> QED BY <1>1, <2>3 DEF FormatInv, Exported
<1>13. CASE ~accepted
  <2>1. outcome' = refusal
    BY <1>3, <1>13
  <2>2. \/ ~package.whole \/ refusal.refused.key # origin.key
        \/ refusal.refused.order # origin.order \/ ~refusal.refused.ready \/ ~few
    BY <1>11, <1>13
  <2>3. "refused" \in DOMAIN refusal
    OBVIOUS
  <2> HIDE DEF refusal
  <2>4. few \/ (origin.contents.sessions # None /\ ~Format!BundleOk(origin.contents.sessions))
    BY <1>5 DEF few
  <2>5. Format!ExportsImport'
    BY <1>1, <2>1, <2>2, <2>3, <2>4 DEF Format!ExportsImport, Format!Refused, Format!BundleOk
  <2> QED BY <1>1, <2>5 DEF FormatInv, Exported
<1> QED BY <1>12, <1>13

(* The invariant of the archive's way from one host to another.            *)
LEMMA FormatInvariance == MC_HostSpec => []FormatInv
<1>1. MC_Init => FormatInv
  BY DEF MC_Init, Format!Init, FormatInv, Format!ExportsImport
<1>2. FormatInv /\ [MC_Next]_hostVars => FormatInv'
  <2> SUFFICES ASSUME FormatInv, [MC_Next]_hostVars PROVE FormatInv'
    OBVIOUS
  <2>1. Format!Next \/ UNCHANGED formatVars
    BY DEF MC_Next, hostVars
  <2>2. CASE Format!Next
    BY <2>2, FormatExportKeeps, DamageKeeps, FormatImportKeeps DEF Format!Next
  <2>3. CASE UNCHANGED formatVars
    BY <2>3 DEF formatVars, FormatInv, Exported, Format!ExportsImport, Format!Refused
  <2> QED BY <2>1, <2>2, <2>3
<1> QED BY <1>1, <1>2, PTL DEF MC_HostSpec

(* Whatever an instance can export, up to the last byte of the limit and   *)
(* to as many sessions as a bundle may hold, one that sorts alike, has room *)
(* and finds no conflict imports with the same password; and what is       *)
(* imported is what was exported.                                          *)
THEOREM ExportsAreImported == MC_HostSpec => []ExportsImport
<1>1. FormatInv => ExportsImport
  BY DEF FormatInv, ExportsImport
<1> QED BY <1>1, FormatInvariance, PTL

-----------------------------------------------------------------------------
(* All parts                                                               *)

(* The scheduler of peers takes only its own steps.                        *)
LEMMA PeersRun == MC_HostSpec => Spec
<1>1. MC_Init => Init
  BY DEF MC_Init
<1>2. [MC_Next]_hostVars => [Next]_vars
  BY DEF MC_Next, hostVars, peersVars, Next
<1> QED BY <1>1, <1>2, PTL DEF MC_HostSpec, Spec

(* What each part's invariant says of its types.                           *)
LEMMA PartsHaveTypes ==
  ASSUME NodesInv, WorldInv, RoutesInv, FilesInv, StoreInv, LimiterInv, TextsInv,
         ArchivesInv, Staged, InboxInv, TransferInv
  PROVE  /\ Nodes!TypeOK /\ World!TypeOK /\ Archives!TypeOK /\ Texts!TypeOK
         /\ Login!TypeOK /\ Inbox!TypeOK /\ Transfer!TypeOK
         /\ Routes!TypeOK /\ Files!TypeOK
<1>1. Nodes!TypeOK
  BY DEF NodesInv, NodesShape, Jobs, Nodes!TypeOK, Nodes!Idle
<1>2. World!TypeOK
  BY DEF WorldInv
<1>3. Archives!TypeOK
  BY DEF ArchivesInv, ArchivesShape, JournalEntry, Staged, Archives!TypeOK
<1>4. Texts!TypeOK
  <2>1. ASSUME NEW s \in Session PROVE Len(entered[s]) <= 1
    <3>1. entered[s] = <<>> \/ \E t \in Text : entered[s] = <<t>>
      BY DEF TextsInv, TextsShape
    <3>2. ASSUME entered[s] = <<>> PROVE Len(entered[s]) <= 1
      BY <3>2, EmptySeq
    <3>3. ASSUME NEW t \in Text, entered[s] = <<t>> PROVE Len(entered[s]) <= 1
      <4>1. Len(<<t>>) = 1
        OBVIOUS
      <4> QED BY <3>3, <4>1
    <3> QED BY <3>1, <3>2, <3>3
  <2> QED BY <2>1 DEF TextsInv, TextsShape, TextValue, Opened, Texts!TypeOK, Texts!Value
<1>5. Login!TypeOK
  BY DEF StoreInv, LimiterInv, Accounts, Signed, Counts, Login!TypeOK, Login!Credentials,
         Login!Cookie
<1>6. Inbox!TypeOK
  BY DEF InboxInv
<1>7. Transfer!TypeOK
  BY DEF TransferInv, Readers, Bundles, Transfer!TypeOK, Transfer!Step
<1>8. Routes!TypeOK
  BY DEF RoutesInv
<1>9. Files!TypeOK
  BY DEF FilesInv, FilesShape, Disk, Files!TypeOK
<1> QED BY <1>1, <1>2, <1>3, <1>4, <1>5, <1>6, <1>7, <1>8, <1>9

(* Every variable of every part has the type that its module gives it.     *)
THEOREM PartsKeepTypes == MC_HostSpec => []HostTypeOK
<1>1. /\ NodesInv /\ WorldInv /\ RoutesInv /\ FilesInv /\ StoreInv /\ LimiterInv /\ TextsInv
      /\ ArchivesInv /\ Staged /\ InboxInv /\ TransferInv /\ TypeOK
      => HostTypeOK
  BY PartsHaveTypes DEF HostTypeOK
<1> QED BY <1>1, PeersRun, TypeCorrect, NodesInvariance, WorldInvariance, RoutesInvariance,
           FilesInvariance, LoginInvariance, TextsInvariance, ArchivesInvariance,
           InboxInvariance, TransferInvariance, PTL
=============================================================================
