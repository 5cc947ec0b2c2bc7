-------------------------------- MODULE Auth --------------------------------
(***************************************************************************)
(* The administrator's credentials, the cookies signed with their secret,  *)
(* and the limiter that counts wrong passwords.                            *)
(*                                                                         *)
(* The credentials are a file that two programs write: the web server, for *)
(* a form, and the reset command, which loads the file, hashes and writes. *)
(* The server keeps the file in memory and reads it again when its time of *)
(* modification has changed.  Every write has a new secret, so the secret  *)
(* stands for that time too.  A handler awaits only the body of its        *)
(* request, before it decides anything: it is one step.                    *)
(*                                                                         *)
(* The server's own write is one step: a reset between its rename and its  *)
(* reading of the time is left out.                                        *)
(***************************************************************************)
EXTENDS Integers, FiniteSets

CONSTANTS Ip, User, Password,
          MaxFailures,  \* wrong passwords before an address is locked
          MaxEntries,   \* entries at which the limiter sweeps
          MaxSecrets,   \* bound: writes of the file
          None          \* no file, nothing loaded, no request served

VARIABLES
  file,      \* web-auth.json: [user, password, secret], or None
  cache,     \* CredentialStore.data
  seen,      \* loadedMtime, as the secret of the file it belongs to; 0 at first
  cookies,   \* cookies issued and not yet too old: [user, secret]
  limiter,   \* limiter[ip]: [failures, lock], or None
  reset,     \* what a running reset command has loaded, or None
  served,    \* the cookie a remote request was just let in with, or None
  guesses    \* wrong passwords tried from an address, see GuessesBounded

vars == <<file, cache, seen, cookies, limiter, reset, served, guesses>>

Credentials == [user : User, password : Password, secret : 1..MaxSecrets]
Cookie == [user : User, secret : 1..MaxSecrets]

(* The cookie issueSession() makes of credentials.                         *)
CookieOf(c) == [user |-> c.user, secret |-> c.secret]

(* A secret no file has had.                                               *)
NewSecret == 1 + (IF file = None THEN 0 ELSE file.secret)

-----------------------------------------------------------------------------
(* CredentialStore *)

Stamp(f) == IF f = None THEN 0 ELSE f.secret

(* Wrong on purpose: what is loaded once is never read again.              *)
LoadedOnce == IF seen = 0 THEN file ELSE cache

(* maybeReload(): the data the store goes on with.                         *)
Loaded == IF seen # Stamp(file) THEN file ELSE cache

Reload == cache' = Loaded /\ seen' = Stamp(file)

(* register(), changePassword(), changeUsername(): new data with a new     *)
(* secret, saved; the caller's cookie is issued from it.                   *)
Store(user, password) ==
  LET new == [user |-> user, password |-> password, secret |-> NewSecret] IN
  /\ NewSecret <= MaxSecrets
  /\ file' = new /\ cache' = new /\ seen' = new.secret
  /\ cookies' = cookies \cup {CookieOf(new)}

-----------------------------------------------------------------------------
(* LoginRateLimiter *)

Locked(ip) == limiter[ip] # None /\ limiter[ip].lock = "on"

(* isLocked() has removed an entry whose lock is over.                     *)
Failures(ip) == IF limiter[ip] = None \/ limiter[ip].lock = "over" THEN 0 ELSE limiter[ip].failures

(* A full limiter forgets every address that is not locked.                *)
Swept(l) == IF Cardinality({ip \in Ip : l[ip] # None}) < MaxEntries THEN l
            ELSE [ip \in Ip |-> IF l[ip] # None /\ l[ip].lock = "on" THEN l[ip] ELSE None]

(* Wrong on purpose: one wrong password more before the lock.              *)
RecordFailureLate(ip) ==
  LET full == Failures(ip) + 1 > MaxFailures IN
  Swept([limiter EXCEPT ![ip] = [failures |-> IF full THEN 0 ELSE Failures(ip) + 1,
                                 lock |-> IF full THEN "on" ELSE "off"]])

(* recordFailure(): the limiter after one more wrong password.             *)
RecordFailure(ip) ==
  LET full == Failures(ip) + 1 >= MaxFailures IN
  Swept([limiter EXCEPT ![ip] = [failures |-> IF full THEN 0 ELSE Failures(ip) + 1,
                                 lock |-> IF full THEN "on" ELSE "off"]])

(* The count a lock, a right password or a sweep starts again.             *)
Wrong(ip) ==
  /\ limiter' = RecordFailure(ip)
  /\ guesses' = [i \in Ip |-> IF limiter'[i] = None THEN 0 ELSE guesses[i] + IF i = ip THEN 1 ELSE 0]

Right(ip) == limiter' = [limiter EXCEPT ![ip] = None] /\ guesses' = [guesses EXCEPT ![ip] = 0]

(* 30 seconds have passed since the lock.                                  *)
Unlock(ip) ==
  /\ Locked(ip) /\ limiter' = [limiter EXCEPT ![ip].lock = "over"]
  /\ guesses' = [guesses EXCEPT ![ip] = 0] /\ served' = None
  /\ UNCHANGED <<file, cache, seen, cookies, reset>>

-----------------------------------------------------------------------------
(* The routes and the gate *)

Register(user, password) ==
  /\ Loaded = None /\ Store(user, password)
  /\ served' = None /\ UNCHANGED <<limiter, reset, guesses>>

(* POST /api/auth/login *)
Login(ip, user, password) ==
  /\ ~Locked(ip) /\ Loaded # None /\ Reload
  /\ IF user = Loaded.user /\ password = Loaded.password
     THEN Right(ip) /\ cookies' = cookies \cup {CookieOf(Loaded)}
     ELSE Wrong(ip) /\ UNCHANGED cookies
  /\ served' = None /\ UNCHANGED <<file, reset>>

(* verifySession(): signed with the present secret, for the present user.  *)
Valid(cookie) == Loaded # None /\ cookie = CookieOf(Loaded)

(* POST change-password, change-username: user and password are the new    *)
(* ones, one of them as before, unless they are refused after the check.   *)
Change(ip, cookie, password, new) ==
  /\ Valid(cookie) /\ ~Locked(ip)
  /\ IF password # Loaded.password
     THEN Wrong(ip) /\ Reload /\ UNCHANGED <<file, cookies>>
     ELSE /\ Right(ip)
          /\ IF new = None THEN Reload /\ UNCHANGED <<file, cookies>>
             ELSE Store(new.user, new.password)
  /\ served' = None /\ UNCHANGED reset

(* What a change may make of the loaded credentials; None is refused.      *)
Changes ==
  {None} \cup {[user |-> Loaded.user, password |-> p] : p \in Password}
         \cup {[user |-> u, password |-> Loaded.password] : u \in User}

(* AuthGate.decide() of a remote request or upgrade.                       *)
Serve(cookie) ==
  /\ Reload /\ served' = IF Valid(cookie) THEN cookie ELSE None
  /\ UNCHANGED <<file, cookies, limiter, reset, guesses>>

(* A cookie is older than 14 days.                                         *)
Age(cookie) ==
  /\ cookies' = cookies \ {cookie} /\ served' = None
  /\ UNCHANGED <<file, cache, seen, limiter, reset, guesses>>

-----------------------------------------------------------------------------
(* dshb-auth-reset, another process *)

ResetLoad ==
  /\ reset = None /\ file # None /\ reset' = file /\ served' = None
  /\ UNCHANGED <<file, cache, seen, cookies, limiter, guesses>>

(* A new password, with a new name or the loaded one; or only a new name,  *)
(* with the loaded password.                                               *)
ResetSave(user, password) ==
  /\ reset # None /\ reset' = None /\ NewSecret <= MaxSecrets
  /\ file' = [user |-> user, password |-> password, secret |-> NewSecret]
  /\ served' = None /\ UNCHANGED <<cache, seen, cookies, limiter, guesses>>

-----------------------------------------------------------------------------
Init ==
  /\ file = None /\ cache = None /\ seen = 0 /\ cookies = {}
  /\ limiter = [ip \in Ip |-> None] /\ reset = None /\ served = None
  /\ guesses = [ip \in Ip |-> 0]

Next ==
  \/ \E u \in User, p \in Password :
       Register(u, p) \/ ResetSave(u, p) \/ \E ip \in Ip : Login(ip, u, p)
  \/ \E ip \in Ip, c \in cookies, p \in Password :
       Loaded # None /\ \E new \in Changes : Change(ip, c, p, new)
  \/ \E c \in cookies : Serve(c) \/ Age(c)
  \/ \E ip \in Ip : Unlock(ip)
  \/ ResetLoad

Spec == Init /\ [][Next]_vars

-----------------------------------------------------------------------------
TypeOK ==
  /\ file \in Credentials \cup {None} /\ cache \in Credentials \cup {None}
  /\ seen \in 0..MaxSecrets /\ cookies \subseteq Cookie
  /\ \A ip \in Ip : limiter[ip] = None
                    \/ limiter[ip] \in [failures : 0..MaxFailures, lock : {"off", "on", "over"}]
  /\ reset \in Credentials \cup {None} /\ served \in Cookie \cup {None}
  /\ guesses \in [Ip -> Nat]

(* From one address no more than MaxFailures wrong passwords are tried     *)
(* until its lock is over, a password is right, or a full limiter forgets  *)
(* the address; login and the two change forms share the count.            *)
GuessesBounded == \A ip \in Ip : guesses[ip] <= MaxFailures

(* A remote request is let in only with a cookie for the user and secret   *)
(* now in the file: a change or a reset, of this process or of another,    *)
(* ends every earlier session at once.                                     *)
RotationRevokes == served # None => file # None /\ served = CookieOf(file)
=============================================================================
