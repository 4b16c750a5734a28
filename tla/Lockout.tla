------------------------------- MODULE Lockout -------------------------------
(***************************************************************************)
(* The lockout after failed attempts: of an e-mail at login (lockout.ts),  *)
(* of an employee ID at a scan (scan-lockout.ts). Both count failures in   *)
(* Redis and fall back to a map in memory, command by command, when Redis  *)
(* does not answer; without Redis they use the map alone.                  *)
(*                                                                         *)
(* One key. The requests that try it run at once: each checks the lock,    *)
(* verifies what it was given, and records the failure or clears the key.  *)
(***************************************************************************)
EXTENDS Integers, FiniteSets

CONSTANTS
  Attempts,     \* the requests in progress for the key
  MaxAttempts,  \* failures that lock
  Duration,     \* how long a lock, and an entry in Redis, lasts
  IdleTTL,      \* how long the scan's map keeps an entry that is not used
  LastTick      \* bound on the time explored

(* Bounds: counts past the limit, and guesses past what the property       *)
(* allows, are all alike. *)
CountCap == MaxAttempts + 1
GuessCap == MaxAttempts + Cardinality(Attempts)
Least(a, b) == IF a < b THEN a ELSE b

Guards == {"login", "scan"}
None == [count |-> 0, until |-> 0, at |-> -1]
Entry == [count : Nat, until : Nat, at : Nat \cup {-1}]

Idle == [op |-> "idle"]
AttemptStates ==
  {Idle} \cup [op : {"verify", "record", "clear"}] \cup [op : {"set"}, seen : Entry]

VARIABLES
  guard,      \* which of the two lockouts it is
  withRedis,  \* whether REDIS_URL is set
  now,
  redis,      \* the entry in Redis, or None; it lives until at + Duration
  memory,     \* the entry in the map, or None
  attempt,    \* request -> what it is in the middle of
  guesses,    \* history: wrong guesses since the key was last cleared or free again
  promised,   \* history: store -> until when it has locked the key, 0 for not
  raced,      \* history: a failure was stored over an entry it had not read
  fellBack    \* history: a command went to the map though there is a Redis

vars == <<guard, withRedis, now, redis, memory, attempt, guesses, promised, raced, fellBack>>
history == <<guesses, promised, raced, fellBack>>

TypeOK ==
  /\ guard \in Guards /\ withRedis \in BOOLEAN
  /\ now \in 0..LastTick
  /\ {redis, memory} \subseteq Entry
  /\ attempt \in [Attempts -> AttemptStates]
  /\ guesses \in Nat
  /\ promised \in [redis : Nat, memory : Nat]
  /\ {raced, fellBack} \subseteq BOOLEAN

Locked(entry) == entry.until > now

Init ==
  /\ guard \in Guards /\ withRedis \in BOOLEAN
  /\ now = 0
  /\ redis = None /\ memory = None
  /\ attempt = [a \in Attempts |-> Idle]
  /\ guesses = 0
  /\ promised = [redis |-> 0, memory |-> 0]
  /\ raced = FALSE /\ fellBack = FALSE

Go(a, state) == attempt' = [attempt EXCEPT ![a] = state]
FallBack == fellBack' = (fellBack \/ withRedis)

(***************************************************************************)
(* checkLockout and checkScanLockout: a locked key is refused. The scan's  *)
(* map drops an entry whose lock has ended, the login's keeps its count.   *)
(***************************************************************************)
CheckRedis(a) ==
  /\ attempt[a] = Idle /\ withRedis
  /\ ~Locked(redis)
  /\ Go(a, [op |-> "verify"])
  /\ UNCHANGED <<guard, withRedis, now, redis, memory, history>>

Lapsed(entry) == guard = "scan" /\ entry.until # 0 /\ ~Locked(entry)

CheckMemory(a) ==
  /\ attempt[a] = Idle
  /\ ~Locked(memory)
  /\ memory' = IF Lapsed(memory) THEN None ELSE memory
  /\ Go(a, [op |-> "verify"])
  /\ FallBack
  /\ UNCHANGED <<guard, withRedis, now, redis, guesses, promised, raced>>

(* The PIN or the password is verified, which takes a while. *)
Wrong(a) ==
  /\ attempt[a].op = "verify"
  /\ Go(a, [op |-> "record"])
  /\ guesses' = Least(guesses + 1, GuessCap)
  /\ UNCHANGED <<guard, withRedis, now, redis, memory, promised, raced, fellBack>>

Right(a) ==
  /\ attempt[a].op = "verify"
  /\ Go(a, [op |-> "clear"])
  /\ UNCHANGED <<guard, withRedis, now, redis, memory, history>>

(* No such member, a code that is revoked, a PIN that is not set, an       *)
(* inactive account: refused without a record. *)
Abandon(a) ==
  /\ attempt[a].op = "verify"
  /\ Go(a, Idle)
  /\ UNCHANGED <<guard, withRedis, now, redis, memory, history>>

(***************************************************************************)
(* recordFailedAttempt and recordFailedScanAttempt: in Redis a get and a   *)
(* set, in memory one step.                                                *)
(***************************************************************************)
(* A mistaken form: only the failure that reaches the limit locks. *)
FailedAtLimitOnly(entry) ==
  LET count == Least(entry.count + 1, CountCap) IN
  [count |-> count, until |-> IF count = MaxAttempts THEN now + Duration ELSE 0, at |-> now]

Failed(entry) ==
  LET count == Least(entry.count + 1, CountCap) IN
  [count |-> count,
   until |-> IF count >= MaxAttempts THEN now + Duration ELSE entry.until,
   at |-> now]

(* A lock that a store sets is a promise of that store. *)
Promised(old, entry) == IF Locked(entry) THEN entry.until ELSE old

RecordGet(a) ==
  /\ attempt[a].op = "record" /\ withRedis
  /\ Go(a, [op |-> "set", seen |-> redis])
  /\ UNCHANGED <<guard, withRedis, now, redis, memory, history>>

RecordSet(a) ==
  /\ attempt[a].op = "set"
  /\ redis' = Failed(attempt[a].seen)
  /\ promised' = [promised EXCEPT !.redis = Promised(@, redis')]
  /\ raced' = (raced \/ attempt[a].seen # redis)
  /\ Go(a, Idle)
  /\ UNCHANGED <<guard, withRedis, now, memory, guesses, fellBack>>

RecordMemory(a) ==
  /\ attempt[a].op \in {"record", "set"}
  /\ memory' = Failed(memory)
  /\ promised' = [promised EXCEPT !.memory = Promised(@, memory')]
  /\ FallBack
  /\ Go(a, Idle)
  /\ UNCHANGED <<guard, withRedis, now, redis, guesses, raced>>

(***************************************************************************)
(* clearFailedAttempts and clearFailedScanAttempts.                        *)
(***************************************************************************)
ClearRedis(a) ==
  /\ attempt[a].op = "clear" /\ withRedis
  /\ redis' = None
  /\ guesses' = 0 /\ promised' = [promised EXCEPT !.redis = 0] /\ raced' = FALSE
  /\ Go(a, Idle)
  /\ UNCHANGED <<guard, withRedis, now, memory, fellBack>>

ClearMemory(a) ==
  /\ attempt[a].op = "clear"
  /\ memory' = None
  /\ guesses' = 0 /\ promised' = [promised EXCEPT !.memory = 0]
  /\ FallBack
  /\ Go(a, Idle)
  /\ UNCHANGED <<guard, withRedis, now, redis, raced>>

(***************************************************************************)
(* Time: Redis drops an entry that has not been written for the duration;  *)
(* the maps are swept, each by its own rule.                               *)
(***************************************************************************)
Dies(entry) == entry.at + Duration
Ends(entry) == entry.until = now + 1
Due(time) == IF time <= now + 1 THEN 0 ELSE time

(* Once an entry of Redis is gone, or a lock of the map is over, the key is *)
(* free again, and what was guessed before no longer counts.                *)
Tick ==
  /\ now < LastTick
  /\ now' = now + 1
  /\ redis' = IF redis # None /\ Dies(redis) <= now + 1 THEN None ELSE redis
  /\ promised' = [redis |-> Due(promised.redis), memory |-> Due(promised.memory)]
  /\ raced' = (raced /\ redis' = redis)
  /\ guesses' = IF redis' # redis \/ Ends(memory) THEN 0 ELSE guesses
  /\ UNCHANGED <<guard, withRedis, memory, attempt, fellBack>>

LoginSwept == memory.until < now /\ memory.count > 0
ScanSwept == now - memory.at > IdleTTL

Sweep ==
  /\ memory # None
  /\ \/ guard = "login" /\ LoginSwept
     \/ guard = "scan" /\ ScanSwept
  /\ memory' = None
  /\ guesses' = 0
  /\ UNCHANGED <<guard, withRedis, now, redis, attempt, promised, raced, fellBack>>

Next ==
  \/ \E a \in Attempts :
       \/ CheckRedis(a) \/ CheckMemory(a) \/ Wrong(a) \/ Right(a) \/ Abandon(a)
       \/ RecordGet(a) \/ RecordSet(a) \/ RecordMemory(a)
       \/ ClearRedis(a) \/ ClearMemory(a)
  \/ Tick
  \/ Sweep

Spec == Init /\ [][Next]_vars
-----------------------------------------------------------------------------
(* A lock that a store has set holds in that store for its time, whatever  *)
(* requests that had passed the check before still record, unless a right  *)
(* guess clears it there; and however many requests try at once, at most   *)
(* MaxAttempts - 1 failures and one of each request are let through before *)
(* it (lockout.ts:45-64, scan-lockout.ts:86-118). Excepted are failures    *)
(* stored over one another in Redis, the get and the set being two         *)
(* commands. A check asks one store, Redis while it answers: it passes     *)
(* over a lock set in the map while Redis did not, so of a Redis that      *)
(* fails in between no bound on the guesses is stated.                     *)
LockoutHolds ==
  /\ now < promised.redis => Locked(redis) \/ raced
  /\ now < promised.memory => Locked(memory)
  /\ raced \/ fellBack \/ guesses <= MaxAttempts - 1 + Cardinality(Attempts)
=============================================================================
