-------------------------- MODULE UnlockGateProofs --------------------------
(***************************************************************************)
(* Proofs about UnlockGate, for any number of callers, allowed attempts    *)
(* and seconds of lockout.                                                 *)
(***************************************************************************)
EXTENDS UnlockGate, FiniteSetTheorems, TLAPS

\* What a refused caller is going to re-apply is a number of seconds.
Types == TypeOK /\ \A c \in Callers : pc[c] = "reapply" => num[c] \in Secs

LEMMA TypesInit == Init => Types
<1> SUFFICES ASSUME Init PROVE Types
  OBVIOUS
<1>1. overlap \in BOOLEAN /\ faulty \in BOOLEAN /\ forgotten \in BOOLEAN
  BY DEF Init
<1> QED
  BY <1>1, GateAssumption DEF Init, Types, TypeOK, Secs

LEMMA BeforeType == \A n \in Secs : Before(n) \in Secs
BY GateAssumption DEF Before, Secs

LEMMA TypesNext == Types /\ [Next]_vars => Types'
<1> SUFFICES ASSUME Types, [Next]_vars PROVE Types'
  OBVIOUS
<1> USE GateAssumption DEF Types, TypeOK, Goto, memory, causes, history
<1>1. ASSUME NEW c \in Callers, CheckMemory(c)
      PROVE  Types'
  BY <1>1 DEF CheckMemory
<1>2. ASSUME NEW c \in Callers, CheckFile(c)
      PROVE  Types'
  <2>1. faulty' \in BOOLEAN
    BY <1>2 DEF CheckFile
  <2>2. /\ UNCHANGED <<state, until, attempts, lockout, failures, imposed, overlap, forgotten>>
        /\ \/ num' = [num EXCEPT ![c] = lockout] /\ pc' = [pc EXCEPT ![c] = "reapply"]
           \/ pc' = [pc EXCEPT ![c] = "derive"] /\ UNCHANGED num
    BY <1>2, Zenon DEF CheckFile
  <2>3. Secs \subseteq Nat
    BY DEF Secs
  <2> QED
    BY <2>1, <2>2, <2>3
<1>3. ASSUME NEW c \in Callers, Reapply(c)
      PROVE  Types'
  BY <1>3 DEF Reapply
<1>4. ASSUME NEW c \in Callers, Right(c) \/ ClearFile(c) \/ Install(c)
      PROVE  Types'
  BY <1>4 DEF Right, ClearFile, Install, Secs
<1>5. ASSUME NEW c \in Callers, Wrong(c)
      PROVE  Types'
  BY <1>5 DEF Wrong
<1>6. ASSUME NEW c \in Callers, Note(c) \/ Trip(c)
      PROVE  Types'
  BY <1>6 DEF Note, Trip, Write, Secs
<1>7. ASSUME NEW c \in Callers, PersistLockout(c)
      PROVE  Types'
  <2>1. /\ UNCHANGED <<state, until, attempts, num, overlap>>
        /\ lockout' \in {LOCKOUT_DURATION_SECS, lockout, 0}
        /\ failures' = 0 /\ imposed' = LOCKOUT_DURATION_SECS
        /\ pc' = [pc EXCEPT ![c] = "limit"]
    BY <1>7, Zenon DEF PersistLockout, Write
  <2>2. /\ faulty' = (lockout' < LOCKOUT_DURATION_SECS)
        /\ forgotten' = FALSE
    BY <1>7, Zenon DEF PersistLockout
  <2>3. faulty' \in BOOLEAN /\ forgotten' \in BOOLEAN
    <3>1. (lockout' < LOCKOUT_DURATION_SECS) \in BOOLEAN
      BY <2>1
    <3> QED
      BY <2>2, <3>1, Zenon
  <2> QED
    BY <2>1, <2>3 DEF Secs
<1>11. ASSUME NEW c \in Callers, Limit(c)
       PROVE  Types'
  <2>1. /\ UNCHANGED <<attempts, lockout, failures, imposed, overlap, faulty>>
        /\ state' = "RateLimited" /\ until' = LOCKOUT_DURATION_SECS
        /\ num' = [num EXCEPT ![c] = 0] /\ pc' = [pc EXCEPT ![c] = "idle"]
        /\ forgotten' \in BOOLEAN
    BY <1>11, Zenon DEF Limit
  <2> QED
    BY <2>1 DEF Secs
<1>8. CASE Lock \/ Expire
  <2>1. /\ UNCHANGED <<attempts, lockout, pc, num, failures, imposed, overlap, faulty>>
        /\ state' = "Locked" /\ until' \in {0, until} /\ forgotten' \in BOOLEAN
    BY <1>8, Zenon DEF Lock, Expire
  <2> QED
    BY <2>1 DEF Secs
<1>12. CASE Restart
  BY <1>12 DEF Restart, Secs
<1>9. CASE Tick
  BY <1>9, BeforeType DEF Tick
<1>10. CASE UNCHANGED vars
  BY <1>10 DEF vars
<1> QED
  BY <1>1, <1>2, <1>3, <1>4, <1>5, <1>6, <1>7, <1>8, <1>9, <1>10, <1>11, <1>12 DEF Next, Step

\* The gate's state always has its type; in particular a refusal never
\* re-applies a lockout longer than LOCKOUT_DURATION_SECS.
THEOREM GateTypeCorrect == Spec => []TypeOK
<1>1. Types => TypeOK
  BY DEF Types
<1> QED
  BY <1>1, TypesInit, TypesNext, PTL DEF Spec
-----------------------------------------------------------------------------
\* Where a caller is after the gates let it pass and before it answers.
Guessing == {"derive", "clear", "install", "note", "trip", "persist"}

\* The memory has the lockout, or is about to be given it.
Remembered == \/ state = "RateLimited" /\ until >= imposed
              \/ \E c \in Callers : pc[c] = "limit"

\* As long as calls do not overlap, at most one is under way.  What remains of
\* a lockout is in the file, unless an access to it failed, and in memory,
\* unless it was forgotten there: so who is past the first gate while a lockout
\* lasts owes it to a lock or a restart, and who is past the second one also
\* to a failing access.
Kept ==
    ~overlap =>
      /\ \A c, d \in Callers : pc[c] # "idle" /\ pc[d] # "idle" => c = d
      /\ faulty \/ lockout >= imposed
      /\ forgotten \/ imposed = 0 \/ Remembered
      /\ \A c \in Callers :
            /\ pc[c] \in Guessing \cup {"file", "reapply"} => imposed = 0 \/ forgotten
            /\ pc[c] \in Guessing => imposed = 0 \/ faulty
            /\ pc[c] = "reapply" => faulty \/ num[c] >= imposed

LEMMA KeptNext == Types /\ Kept /\ [Next]_vars => Kept'
<1> SUFFICES ASSUME Types, Kept, [Next]_vars PROVE Kept'
  OBVIOUS
<1> USE GateAssumption DEF Kept, Guessing, Remembered, Types, TypeOK, Goto, memory, causes,
        history, Secs
<1>0. ASSUME NEW c \in Callers, CheckMemory(c)
      PROVE  Kept'
  <2>1. CASE overlap'
    BY <2>1
  <2>2. CASE ~overlap'
    <3>1. ~overlap /\ \A d \in Callers : pc[d] = "idle"
      BY <1>0, <2>2 DEF CheckMemory
    <3>2. imposed = 0 \/ forgotten
      BY <1>0, <3>1 DEF CheckMemory
    <3> QED
      BY <1>0, <2>2, <3>1, <3>2 DEF CheckMemory
  <2> QED
    BY <2>1, <2>2
<1>1. ASSUME NEW c \in Callers, CheckFile(c)
      PROVE  Kept'
  BY <1>1 DEF CheckFile
<1>2. ASSUME NEW c \in Callers, Reapply(c)
      PROVE  Kept'
  BY <1>2 DEF Reapply
<1>3. ASSUME NEW c \in Callers, Right(c) \/ ClearFile(c) \/ Install(c)
      PROVE  Kept'
  BY <1>3 DEF Right, ClearFile, Install
<1>4. ASSUME NEW c \in Callers, Wrong(c) \/ Trip(c)
      PROVE  Kept'
  BY <1>4 DEF Wrong, Trip
<1>11. ASSUME NEW c \in Callers, Note(c)
       PROVE  Kept'
  BY <1>11 DEF Note, Write
<1>5. ASSUME NEW c \in Callers, PersistLockout(c)
      PROVE  Kept'
  <2>1. /\ UNCHANGED <<num, overlap>> /\ pc[c] = "persist"
        /\ imposed' = LOCKOUT_DURATION_SECS /\ pc' = [pc EXCEPT ![c] = "limit"]
    BY <1>5, Zenon DEF PersistLockout
  <2>2. faulty' \/ lockout' >= imposed'
    <3>1. lockout' < LOCKOUT_DURATION_SECS => faulty'
      BY <1>5, Zenon DEF PersistLockout
    <3>2. lockout' \in Nat
      BY <1>5 DEF PersistLockout, Write
    <3> QED
      BY <2>1, <3>1, <3>2
  <2>3. pc'[c] = "limit" /\ \A d \in Callers \ {c} : pc'[d] = pc[d]
    BY <2>1
  <2>4. ~overlap => \A d \in Callers \ {c} : pc'[d] = "idle"
    BY <2>1, <2>3
  <2>5. Remembered'
    BY <2>3
  <2>6. ASSUME ~overlap, NEW d \in Callers
        PROVE  pc'[d] \in {"limit", "idle"} /\ (pc'[d] # "idle" => d = c)
    BY <2>3, <2>4, <2>6
  <2> HIDE DEF Remembered
  <2> QED
    BY <2>1, <2>2, <2>5, <2>6
<1>6. ASSUME NEW c \in Callers, Limit(c)
      PROVE  Kept'
  BY <1>6 DEF Limit
<1>7. CASE Lock \/ Expire
  BY <1>7 DEF Lock, Expire
<1>8. CASE Restart
  BY <1>8 DEF Restart
<1>9. CASE Tick
  BY <1>9 DEF Tick, Before
<1>10. CASE UNCHANGED vars
  BY <1>10 DEF vars
<1> QED
  BY <1>0, <1>1, <1>2, <1>3, <1>4, <1>5, <1>6, <1>7, <1>8, <1>9, <1>10, <1>11 DEF Next, Step

\* Nobody gets to try a password while a lockout lasts, unless two calls have
\* overlapped, or the session was locked or the program started again and the
\* attempts file could not be written or read.
THEOREM NobodyGuessesInLockout == Spec => NoGuessInLockout
<1>1. Init => Kept
  BY DEF Init, Kept, Guessing
<1>2. Types /\ Kept /\ [Next]_vars =>
        [\A c \in Callers : pc[c] # "derive" /\ pc'[c] = "derive"
             => imposed = 0 \/ overlap \/ (faulty' /\ forgotten)]_vars
  <2> SUFFICES ASSUME Types, Kept, [Next]_vars, NEW c \in Callers,
                      pc[c] # "derive", pc'[c] = "derive"
               PROVE  imposed = 0 \/ overlap \/ (faulty' /\ forgotten)
    OBVIOUS
  <2>1. CheckFile(c)
    BY DEF Next, Step, CheckMemory, CheckFile, Reapply, Right, ClearFile, Install, Wrong, Note,
           Trip, PersistLockout, Limit, Lock, Expire, Restart, Tick, vars, Goto, Types, TypeOK
  <2> QED
    BY <2>1, GateAssumption DEF CheckFile, Kept, Guessing, Goto, Types, TypeOK, Secs
<1> QED
  BY <1>1, <1>2, KeptNext, TypesInit, TypesNext, PTL DEF Spec, NoGuessInLockout
-----------------------------------------------------------------------------
\* Callers that have made the guess that trips the limit, and those of them
\* that have reset the counter since.
Tripping == {c \in Callers : pc[c] = "trip"}
Tripped == {c \in Callers : pc[c] = "persist"}

\* What the counter accounts for below the limit.
Counted == IF attempts < MAX_UNLOCK_ATTEMPTS THEN attempts ELSE MAX_UNLOCK_ATTEMPTS - 1

\* Each caller on its way to the lockout accounts for the guesses that were
\* made before it reset the counter.  When all of them are, the last one to
\* reset it left nothing behind.
Accounts ==
    /\ failures <= Cardinality(Tripped) * MAX_UNLOCK_ATTEMPTS + Cardinality(Tripping) + Counted
    /\ Tripped = Callers => attempts = 0

LEMMA CallerCounts ==
    /\ IsFiniteSet(Tripped) /\ IsFiniteSet(Tripping)
    /\ Cardinality(Tripped) \in Nat /\ Cardinality(Tripping) \in Nat
    /\ Cardinality(Callers) \in Nat
    /\ Cardinality(Tripped) + Cardinality(Tripping) <= Cardinality(Callers)
    /\ Tripped # Callers => Cardinality(Tripped) < Cardinality(Callers)
<1>1. Tripped \subseteq Callers /\ Tripping \subseteq Callers \ Tripped
  BY DEF Tripped, Tripping
<1>2. IsFiniteSet(Callers \ Tripped)
      /\ Cardinality(Callers \ Tripped) = Cardinality(Callers) - Cardinality(Tripped)
  <2>1. Callers \cap Tripped = Tripped
    BY <1>1
  <2> QED
    BY <2>1, GateAssumption, FS_Difference
<1> QED
  BY <1>1, <1>2, GateAssumption, FS_Subset, FS_CardinalityType

\* A step that leaves the counter, the guesses and the callers at the limit
\* alone leaves the accounts right.
LEMMA AccountsKept ==
    ASSUME Accounts, UNCHANGED <<attempts, failures>>,
           \A c \in Callers : \/ UNCHANGED pc[c]
                             \/ {pc[c], pc'[c]} \cap {"trip", "persist"} = {}
    PROVE  Accounts'
<1>1. UNCHANGED <<Tripping, Tripped>>
  BY DEF Tripping, Tripped
<1> QED
  BY <1>1 DEF Accounts, Counted

LEMMA CountedType == attempts \in Nat => Counted \in 0..(MAX_UNLOCK_ATTEMPTS - 1)
BY GateAssumption DEF Counted

\* No guess is a guess within the account.
LEMMA AccountsCleared ==
    ASSUME Types', failures' = 0, Tripped' = Callers => attempts' = 0
    PROVE  Accounts'
<1> DEFINE p == Cardinality(Tripped')
           t == Cardinality(Tripping')
<1>1. p \in Nat /\ t \in Nat
  <2>1. IsFiniteSet(Tripped') /\ IsFiniteSet(Tripping')
    BY GateAssumption, FS_Subset DEF Tripped, Tripping
  <2> QED
    BY <2>1, FS_CardinalityType
<1>2. Counted' \in Nat
  BY GateAssumption DEF Counted, Types, TypeOK
<1>3. p * MAX_UNLOCK_ATTEMPTS \in Nat
  <2> HIDE DEF p
  <2> QED BY <1>1, GateAssumption
<1>4. 0 <= p * MAX_UNLOCK_ATTEMPTS + t + Counted'
  BY <1>1, <1>2, <1>3
<1> QED
  BY <1>4 DEF Accounts

LEMMA AccountsNext == Types /\ Accounts /\ [Next]_vars => Accounts'
<1> SUFFICES ASSUME Types, Accounts, [Next]_vars PROVE Accounts'
  OBVIOUS
<1> DEFINE M == MAX_UNLOCK_ATTEMPTS
           p == Cardinality(Tripped)
           t == Cardinality(Tripping)
<1>a. M \in Nat \ {0} /\ p \in Nat /\ t \in Nat /\ p * M \in Nat /\ (p + 1) * M = p * M + M
  <2>1. p \in Nat /\ t \in Nat
    BY CallerCounts
  <2> HIDE DEF p
  <2> QED
    BY <2>1, GateAssumption
<1>b. /\ attempts \in Nat /\ failures \in Nat /\ DOMAIN pc = Callers
      /\ Counted \in 0..(M - 1)
  BY CountedType DEF Types, TypeOK
<1>c. Types'
  BY TypesNext
<1>1. ASSUME NEW c \in Callers, CheckMemory(c) \/ CheckFile(c) \/ Reapply(c)
      PROVE  Accounts'
  BY <1>1, <1>b, AccountsKept DEF CheckMemory, CheckFile, Reapply, Goto
<1>2. ASSUME NEW c \in Callers, Right(c)
      PROVE  Accounts'
  BY <1>2, <1>c, AccountsCleared DEF Right
<1>3. ASSUME NEW c \in Callers, ClearFile(c) \/ Install(c) \/ Note(c) \/ Limit(c)
      PROVE  Accounts'
  BY <1>3, <1>b, AccountsKept DEF ClearFile, Install, Note, Limit, Goto, history
<1>4. ASSUME NEW c \in Callers, Wrong(c)
      PROVE  Accounts'
  <2>1. attempts' = attempts + 1 /\ failures' = failures + 1 /\ pc[c] = "derive"
    BY <1>4 DEF Wrong
  <2>2. pc'[c] # "persist" /\ Tripped' = Tripped
    BY <1>4, <1>b DEF Wrong, Goto, Tripped
  <2>3. Tripped' # Callers
    BY <2>2 DEF Tripped
  <2>4. CASE attempts + 1 >= M
    <3>1. Tripping' = Tripping \cup {c} /\ c \notin Tripping
      BY <1>4, <1>b, <2>4 DEF Wrong, Goto, Tripping
    <3>2. Cardinality(Tripping') = t + 1
      BY <3>1, CallerCounts, FS_AddElement
    <3>3. Counted <= Counted'
      BY <2>1, <2>4, <1>a, <1>b DEF Counted
    <3>4. Counted' \in Nat
      BY <1>a, <1>b, <2>1 DEF Counted
    <3>5. failures + 1 <= p * M + (t + 1) + Counted'
      BY <1>a, <1>b, <3>3, <3>4 DEF Accounts
    <3> QED
      BY <2>1, <2>2, <2>3, <3>2, <3>5 DEF Accounts
  <2>5. CASE ~(attempts + 1 >= M)
    <3>1. Tripping' = Tripping
      BY <1>4, <1>b, <2>5 DEF Wrong, Goto, Tripping
    <3>2. Counted' = Counted + 1
      BY <2>1, <2>5, <1>a, <1>b DEF Counted
    <3>3. failures + 1 <= p * M + t + Counted'
      BY <1>a, <1>b, <3>2 DEF Accounts
    <3> QED
      BY <2>1, <2>2, <2>3, <3>1, <3>3 DEF Accounts
  <2> QED
    BY <2>4, <2>5
<1>5. ASSUME NEW c \in Callers, Trip(c)
      PROVE  Accounts'
  <2>1. attempts' = 0 /\ failures' = failures /\ pc[c] = "trip"
    BY <1>5 DEF Trip, history
  <2>2. /\ Tripped' = Tripped \cup {c} /\ c \notin Tripped
        /\ Tripping' = Tripping \ {c} /\ c \in Tripping
    BY <1>5, <1>b DEF Trip, Goto, Tripped, Tripping
  <2>3. Cardinality(Tripped') = p + 1 /\ Cardinality(Tripping') = t - 1
    BY <2>2, CallerCounts, FS_AddElement, FS_RemoveElement
  <2>4. Counted' = 0
    BY <2>1, <1>a DEF Counted
  <2>5. failures <= (p + 1) * M + (t - 1) + 0
    <3>1. failures <= p * M + t + Counted
      BY DEF Accounts
    <3> HIDE DEF p, t, M
    <3> QED
      BY <3>1, <1>a, <1>b
  <2> QED
    BY <2>1, <2>3, <2>4, <2>5 DEF Accounts
<1>6. ASSUME NEW c \in Callers, PersistLockout(c)
      PROVE  Accounts'
  <2>1. failures' = 0 /\ pc'[c] = "limit"
    BY <1>6, <1>b DEF PersistLockout, Goto
  <2>2. Tripped' # Callers
    BY <2>1 DEF Tripped
  <2> QED
    BY <2>1, <2>2, <1>c, AccountsCleared
<1>7. CASE Lock \/ Expire \/ Tick
  BY <1>7, AccountsKept DEF Lock, Expire, Tick, history
<1>8. CASE UNCHANGED vars
  BY <1>8, AccountsKept DEF vars, history
<1>9. CASE Restart
  BY <1>9, <1>c, AccountsCleared DEF Restart
<1> QED
  BY <1>1, <1>2, <1>3, <1>4, <1>5, <1>6, <1>7, <1>8, <1>9 DEF Next, Step

LEMMA Product ==
    \A k, m \in Nat \ {0} : k + m - 1 <= k * m
<1> SUFFICES ASSUME NEW k \in Nat \ {0}, NEW m \in Nat \ {0}
             PROVE  k + m - 1 <= k * m
  OBVIOUS
<1>1. (k - 1) * (m - 1) >= 0
  OBVIOUS
<1>2. (k - 1) * (m - 1) = k * m - k - m + 1
  OBVIOUS
<1>3. k * m \in Nat
  OBVIOUS
<1> QED
  BY <1>1, <1>2, <1>3

\* The wrong guesses since the last lockout, success or start of the program
\* are at most the allowed attempts for each caller, however the
\* callers interleave.
THEOREM GuessesAlwaysBounded == Spec => []GuessesBounded
<1>1. Init => Accounts
  <2> SUFFICES ASSUME Init PROVE Accounts
    OBVIOUS
  <2>1. Tripped = {} /\ Tripping = {} /\ failures = 0 /\ attempts = 0
    BY DEF Init, Tripped, Tripping
  <2>2. Counted = 0
    BY <2>1, GateAssumption DEF Counted
  <2> QED
    BY <2>1, <2>2, GateAssumption, FS_EmptySet DEF Accounts
<1>3. Types /\ Accounts => GuessesBounded
  <2> SUFFICES ASSUME Types, Accounts PROVE GuessesBounded
    OBVIOUS
  <2> DEFINE M == MAX_UNLOCK_ATTEMPTS
             p == Cardinality(Tripped)
             t == Cardinality(Tripping)
             n == Cardinality(Callers)
  <2>1. failures <= p * M + t + Counted
    BY DEF Accounts
  <2>2. /\ M \in Nat \ {0} /\ failures \in Nat /\ Counted \in 0..(M - 1)
        /\ p \in Nat /\ t \in Nat /\ n \in Nat
        /\ p + t <= n
    BY CallerCounts, CountedType, GateAssumption DEF Types, TypeOK
  <2>3. CASE Tripped = Callers
    <3>1. Tripping = {}
      BY <2>3 DEF Tripped, Tripping
    <3>2. Counted = 0 /\ t = 0 /\ p = n
      BY <2>3, <3>1, FS_EmptySet, GateAssumption DEF Accounts, Counted
    <3>3. n * M \in Nat
      <4> HIDE DEF n, M
      <4> QED BY <2>2
    <3> QED
      BY <2>1, <2>2, <3>2, <3>3 DEF GuessesBounded
  <2>4. CASE Tripped # Callers
    <3>1. p < n
      BY <2>4, CallerCounts
    <3> HIDE DEF p, t, n, M
    <3>2. n - p \in Nat \ {0}
      BY <2>2, <3>1
    <3>3. (n - p) + M - 1 <= (n - p) * M
      BY <2>2, <3>2, Product
    <3>4. n * M = p * M + (n - p) * M
      BY <2>2
    <3>5. p * M \in Nat /\ (n - p) * M \in Nat
      BY <2>2, <3>2
    <3>6. failures <= n * M
      BY <2>1, <2>2, <3>3, <3>4, <3>5
    <3> QED
      BY <3>6 DEF GuessesBounded, n, M
  <2> QED
    BY <2>3, <2>4
<1> QED
  BY <1>1, <1>3, TypesInit, TypesNext, AccountsNext, PTL DEF Spec
=============================================================================
