----------------------------- MODULE UnlockGate -----------------------------
(***************************************************************************)
(* The brute-force gate of SessionManager::unlock (session/manager.rs):    *)
(* the attempt counter in memory, the lockout in SessionState, and the     *)
(* attempts file that is to carry them over a restart.  Each caller is a   *)
(* client that calls unlock again and again, with a right or a wrong       *)
(* password; callers interleave at every atomic access and every await.    *)
(*                                                                         *)
(* A deadline is kept as the seconds that remain until it (0: past), so    *)
(* that time needs no bound.  The wall clock and the monotonic clock, used *)
(* by the file and by the memory, advance together.  The code drops every  *)
(* error of the attempts file and goes on.  The vault behind the gate is   *)
(* module VaultSession.                                                    *)
(***************************************************************************)
EXTENDS Naturals, FiniteSets

CONSTANTS Callers,
          MAX_UNLOCK_ATTEMPTS,    \* 5 in the code
          LOCKOUT_DURATION_SECS,  \* 30 in the code
          MaxFailures             \* bound on the history of wrong guesses

ASSUME GateAssumption ==
    /\ IsFiniteSet(Callers)
    /\ MAX_UNLOCK_ATTEMPTS \in Nat \ {0}
    /\ LOCKOUT_DURATION_SECS \in Nat \ {0}
    /\ MaxFailures \in Nat

VARIABLES state,     \* "Locked", "Unlocked" or "RateLimited"
          until,     \* RateLimited: what remains to locked_until
          attempts,  \* the AtomicU32
          lockout,   \* attempts file: what remains to its lockout timestamp
                     \* (the count it has besides is read and dropped)
          pc,        \* where each caller is
          num,       \* per caller: its attempt number, or the remaining seconds
          failures,  \* history: wrong guesses since the last success or lockout,
                     \* or the start of the program
          imposed,   \* history: what remains of the lockout last imposed
          overlap,   \* history: have two calls ever been under way at a time
          faulty,    \* history: since the last lockout, its write failed or a
                     \* read that would have found one
          forgotten  \* history: the session was locked, or the program started
                     \* again, since the last lockout was set in memory

memory == <<state, until>>
causes == <<overlap, faulty, forgotten>>
history == <<failures, imposed, causes>>
vars == <<memory, attempts, lockout, pc, num, history>>

Goto(c, l) == pc' = [pc EXCEPT ![c] = l]
Secs == 0..LOCKOUT_DURATION_SECS
-----------------------------------------------------------------------------
Init ==
    /\ state = "Locked" /\ until = 0
    /\ attempts = 0
    /\ lockout = 0        \* no attempts file reads as (0, 0)
    /\ pc = [c \in Callers |-> "idle"]
    /\ num = [c \in Callers |-> 0]
    /\ failures = 0 /\ imposed = 0
    /\ overlap = FALSE /\ faulty = FALSE /\ forgotten = FALSE

\* write_persisted_attempts: the file is written; or it stays as it was; or it
\* is torn, fs::write truncates first, and reads as no lockout.
Write(secs) == lockout' \in {secs, lockout, 0}

\* First gate: a RateLimited state whose deadline has not passed.
CheckMemory(c) ==
    /\ pc[c] = "idle"
    /\ ~(state = "RateLimited" /\ until > 0)
    /\ Goto(c, "file")
    /\ overlap' = (overlap \/ \E d \in Callers : pc[d] # "idle")
    /\ UNCHANGED <<memory, attempts, lockout, num, failures, imposed, faulty, forgotten>>

\* Mutation: the lockout timestamp of the file is not looked at.
CheckFileIgnored(c) ==
    /\ pc[c] = "file"
    /\ Goto(c, "derive")
    /\ UNCHANGED <<memory, attempts, lockout, num, history>>

\* Second gate: the lockout timestamp of the file.  If the file cannot be
\* read, or another caller is in the middle of writing it, there is none.
CheckFile(c) ==
    /\ pc[c] = "file"
    /\ \/ /\ lockout > 0
          /\ num' = [num EXCEPT ![c] = lockout]
          /\ Goto(c, "reapply")
          /\ UNCHANGED faulty
       \/ /\ Goto(c, "derive")
          /\ faulty' = (faulty \/ lockout > 0)
          /\ UNCHANGED num
    /\ UNCHANGED <<memory, attempts, lockout, failures, imposed, overlap, forgotten>>

\* Mutation: a refusal starts the lockout anew, in the file too.
ReapplyAnew(c) ==
    /\ pc[c] = "reapply"
    /\ state' = "RateLimited" /\ until' = LOCKOUT_DURATION_SECS
    /\ lockout' = LOCKOUT_DURATION_SECS
    /\ num' = [num EXCEPT ![c] = 0]
    /\ Goto(c, "idle")
    /\ UNCHANGED <<attempts, history>>

\* The refusal re-applies RateLimited, over whatever the state is by now.  The
\* memory has the whole lockout again, if the file had.
Reapply(c) ==
    /\ pc[c] = "reapply"
    /\ state' = "RateLimited" /\ until' = num[c]
    /\ num' = [num EXCEPT ![c] = 0]
    /\ Goto(c, "idle")
    /\ forgotten' = (forgotten /\ faulty)
    /\ UNCHANGED <<attempts, lockout, failures, imposed, overlap, faulty>>

\* The password was right: counter, file and state are reset one by one.
Right(c) ==
    /\ pc[c] = "derive"
    /\ attempts' = 0
    /\ failures' = 0
    /\ Goto(c, "clear")
    /\ UNCHANGED <<memory, lockout, num, imposed, causes>>

\* The file is removed, or stays.
ClearFile(c) ==
    /\ pc[c] = "clear"
    /\ lockout' \in {0, lockout}
    /\ Goto(c, "install")
    /\ UNCHANGED <<memory, attempts, num, history>>

Install(c) ==
    /\ pc[c] = "install"
    /\ state' = "Unlocked" /\ until' = 0
    /\ Goto(c, "idle")
    /\ UNCHANGED <<attempts, lockout, num, history>>

\* The password was wrong, or the load failed for any other reason.
Wrong(c) ==
    /\ pc[c] = "derive"
    /\ failures < MaxFailures
    /\ attempts' = attempts + 1
    /\ failures' = failures + 1
    /\ num' = [num EXCEPT ![c] = attempts + 1]
    /\ Goto(c, IF attempts + 1 >= MAX_UNLOCK_ATTEMPTS THEN "trip" ELSE "note")
    /\ UNCHANGED <<memory, lockout, imposed, causes>>

\* Below the limit: the file gets the count and no lockout.
Note(c) ==
    /\ pc[c] = "note"
    /\ Write(0)
    /\ num' = [num EXCEPT ![c] = 0]
    /\ Goto(c, "idle")
    /\ UNCHANGED <<memory, attempts, history>>

\* At the limit: the counter is reset, the lockout written, the state set.
Trip(c) ==
    /\ pc[c] = "trip"
    /\ attempts' = 0
    /\ Goto(c, "persist")
    /\ UNCHANGED <<memory, lockout, num, history>>

PersistLockout(c) ==
    /\ pc[c] = "persist"
    /\ Write(LOCKOUT_DURATION_SECS)
    /\ failures' = 0 /\ imposed' = LOCKOUT_DURATION_SECS
    /\ faulty' = (lockout' < LOCKOUT_DURATION_SECS) /\ forgotten' = FALSE
    /\ Goto(c, "limit")
    /\ UNCHANGED <<memory, attempts, num, overlap>>

Limit(c) ==
    /\ pc[c] = "limit"
    /\ state' = "RateLimited" /\ until' = LOCKOUT_DURATION_SECS
    /\ num' = [num EXCEPT ![c] = 0]
    /\ Goto(c, "idle")
    /\ forgotten' = FALSE
    /\ UNCHANGED <<attempts, lockout, failures, imposed, overlap, faulty>>
-----------------------------------------------------------------------------
\* Mutation: locking the session resets the attempt counter.
LockResets ==
    /\ state' = "Locked" /\ until' = 0
    /\ attempts' = 0
    /\ forgotten' = TRUE
    /\ UNCHANGED <<lockout, pc, num, failures, imposed, overlap, faulty>>

\* SessionManager::lock, from any state.
Lock ==
    /\ state' = "Locked" /\ until' = 0
    /\ forgotten' = TRUE
    /\ UNCHANGED <<attempts, lockout, pc, num, failures, imposed, overlap, faulty>>

\* with_session and with_session_mut find a deadline that has passed.
Expire ==
    /\ state = "RateLimited" /\ until = 0
    /\ state' = "Locked"
    /\ UNCHANGED <<until, attempts, lockout, pc, num, history>>

\* The program is closed, perhaps in the middle of a write to the lockout, and
\* started again.
Restart ==
    /\ state' = "Locked" /\ until' = 0
    /\ attempts' = 0
    /\ pc' = [c \in Callers |-> "idle"]
    /\ num' = [c \in Callers |-> 0]
    /\ failures' = 0 /\ forgotten' = TRUE
    /\ lockout' \in IF \E c \in Callers : pc[c] \in {"note", "persist"}
                    THEN {lockout, 0} ELSE {lockout}
    /\ UNCHANGED <<imposed, overlap, faulty>>

\* Mutation: the subtraction does not saturate; u64 wraps (the type bounds it).
BeforeWrapping(n) == IF n = 0 THEN LOCKOUT_DURATION_SECS + 1 ELSE n - 1

\* What remains of a deadline a second later (saturating_sub).
Before(n) == IF n = 0 THEN 0 ELSE n - 1

\* A second passes: every deadline comes nearer.
Tick ==
    /\ {until, lockout, imposed} # {0}
    /\ until' = Before(until)
    /\ lockout' = Before(lockout)
    /\ imposed' = Before(imposed)
    /\ UNCHANGED <<state, attempts, pc, num, failures, causes>>

Step(c) == \/ CheckFile(c) \/ Reapply(c)
           \/ Right(c) \/ ClearFile(c) \/ Install(c)
           \/ Wrong(c) \/ Note(c)
           \/ Trip(c) \/ PersistLockout(c) \/ Limit(c)

Next == \/ \E c \in Callers : CheckMemory(c) \/ Step(c)
        \/ Lock
        \/ Expire
        \/ Restart
        \/ Tick

Spec == Init /\ [][Next]_vars /\ WF_vars(Tick)
-----------------------------------------------------------------------------
\* The type invariant of the gate.
TypeOK ==
    /\ state \in {"Locked", "Unlocked", "RateLimited"}
    /\ until \in Secs /\ lockout \in Secs /\ imposed \in Secs
    /\ attempts \in Nat /\ failures \in Nat
    /\ pc \in [Callers -> {"idle", "file", "reapply", "derive", "clear", "install",
                           "note", "trip", "persist", "limit"}]
    /\ num \in [Callers -> Nat]
    /\ overlap \in BOOLEAN /\ faulty \in BOOLEAN /\ forgotten \in BOOLEAN

\* While a lockout lasts nobody gets to try a password: the memory refuses
\* until the session is locked or the program started again, and the file does
\* from then on, and gives the memory back what is left of it.  It takes both,
\* a lock or restart and an attempts file that could not be written or read,
\* to guess meanwhile; or two calls of unlock that have overlapped (see
\* LockoutPersisted).
NoGuessInLockout ==
    [][\A c \in Callers : pc[c] # "derive" /\ pc'[c] = "derive" =>
          imposed = 0 \/ overlap \/ (faulty' /\ forgotten)]_vars

\* However callers interleave, the wrong guesses since the last lockout,
\* success or start of the program are at most the allowed attempts for each caller.  (Not the
\* allowed attempts: the counter is reset before the lockout is in force,
\* and another caller can use it up once more in between.)
GuessesBounded == failures <= Cardinality(Callers) * MAX_UNLOCK_ATTEMPTS

\* A lockout ends, however often callers retry and the session is locked
\* meanwhile: a refusal re-applies what remains of it and no more.  (Unless
\* more guesses get through and another one is imposed.)
LockoutEnds == until > 0 \/ lockout > 0 ~> \/ until = 0 /\ lockout = 0
                                           \/ imposed = LOCKOUT_DURATION_SECS

\* session/manager.rs line 212: "Persist lockout timestamp so restart doesn't
\* reset it": what the file holds of a lockout is all that remains of it, if it
\* could be written and read.
LockoutPersisted == lockout >= imposed \/ faulty
=============================================================================
