---------------------------- MODULE RevealProofs ----------------------------
(***************************************************************************)
(* Proofs about Reveal, for any finite number of callers, any set of       *)
(* tokens and any limits.                                                  *)
(***************************************************************************)
EXTENDS Reveal, FiniteSetTheorems, TLAPS

LEMMA DecType == \A n \in Nat : Dec(n) \in 0..n /\ (n > 0 => Dec(n) = n - 1)
BY DEF Dec

LEMMA TypesInit == Init => TypeOK
<1> SUFFICES ASSUME Init PROVE TypeOK
  OBVIOUS
<1>1. unlocked \in BOOLEAN
  BY DEF Init
<1> QED
  BY <1>1, RevealAssumption DEF Init, TypeOK, Checking

LEMMA TypesNext == TypeOK /\ [Next]_vars => TypeOK'
<1> SUFFICES ASSUME TypeOK, [Next]_vars PROVE TypeOK'
  OBVIOUS
<1> USE RevealAssumption DEF TypeOK, Goto, Checking, quota, store
<1>1. ASSUME NEW c \in Clients, CheckWindow(c) \/ ResetCount(c)
      PROVE  TypeOK'
  BY <1>1 DEF CheckWindow, ResetCount
<1>2. ASSUME NEW c \in Clients, StampWindow(c)
      PROVE  TypeOK'
  BY <1>2 DEF StampWindow
<1>3. ASSUME NEW c \in Clients, Count(c)
      PROVE  TypeOK'
  BY <1>3 DEF Count
<1>4. ASSUME NEW c \in Clients, GetPassword(c) \/ RequestToken(c) \/ ReadRefused(c)
      PROVE  TypeOK'
  BY <1>4 DEF GetPassword, RequestToken, ReadRefused
<1>5. ASSUME NEW c \in Clients, NEW t \in Tokens, Store(c, t)
      PROVE  TypeOK'
  BY <1>5 DEF Store
<1>6. ASSUME NEW t \in Tokens, Consume(t)
      PROVE  TypeOK'
  BY <1>6 DEF Consume
<1>7. CASE Unlock \/ LockBegin \/ LockStep
  <2>1. unlocked' \in BOOLEAN
    BY <1>7 DEF Unlock, LockBegin, LockStep, LockCount, LockStart
  <2>2. dark' \in 0..TOKEN_TTL
    BY <1>7 DEF Unlock, LockBegin, LockStep, LockCount, LockStart
  <2> QED
    BY <1>7, <2>1, <2>2 DEF Unlock, LockBegin, LockStep, LockCount, LockStart
<1>8. CASE Tick
  <2>1. left' \in 0..WINDOW_SECS
    BY <1>8, DecType DEF Tick
  <2>2. life' \in [Tokens -> 0..TOKEN_TTL \cup {Absent}]
    <3>1. \A t \in Tokens : life[t] # Absent => Dec(life[t]) \in 0..TOKEN_TTL
      BY DecType
    <3> QED
      BY <1>8, <3>1 DEF Tick
  <2>3. lag' \in [Clients -> 0..(WINDOW_SECS - 1)]
    BY <1>8 DEF Tick
  <2> QED
    BY <1>8, <2>1, <2>2, <2>3 DEF Tick
<1>9. CASE UNCHANGED vars
  BY <1>9 DEF vars
<1> QED
  BY <1>1, <1>2, <1>3, <1>4, <1>5, <1>6, <1>7, <1>8, <1>9 DEF Next, Step

\* The quota, the callers and the token map always have their types; in
\* particular the start of a window never lies in the future.
THEOREM RevealTypeCorrect == Spec => []TypeOK
BY TypesInit, TypesNext, PTL DEF Spec
-----------------------------------------------------------------------------
\* A token that was not drawn is not in the map, and one that is in the map
\* has given nothing yet.
Spent ==
    \A t \in Tokens : /\ t \notin issued => life[t] = Absent /\ reveals[t] = 0
                      /\ life[t] # Absent => reveals[t] = 0
                      /\ reveals[t] <= 1

LEMMA SpentNext == TypeOK /\ Spent /\ [Next]_vars => Spent'
<1> SUFFICES ASSUME TypeOK, Spent, [Next]_vars PROVE Spent'
  OBVIOUS
<1> USE RevealAssumption DEF TypeOK, Spent, quota, store
<1>1. ASSUME NEW c \in Clients, CheckWindow(c) \/ ResetCount(c) \/ StampWindow(c) \/ Count(c)
      PROVE  Spent'
  BY <1>1 DEF CheckWindow, ResetCount, StampWindow, Count
<1>2. ASSUME NEW c \in Clients, GetPassword(c) \/ RequestToken(c) \/ ReadRefused(c)
      PROVE  Spent'
  BY <1>2 DEF GetPassword, RequestToken, ReadRefused
<1>3. ASSUME NEW c \in Clients, NEW t \in Tokens, Store(c, t)
      PROVE  Spent'
  BY <1>3 DEF Store
<1>4. ASSUME NEW t \in Tokens, Consume(t)
      PROVE  Spent'
  BY <1>4 DEF Consume
<1>5. CASE Unlock \/ LockBegin \/ LockStep
  BY <1>5 DEF Unlock, LockBegin, LockStep, LockCount, LockStart
<1>6. CASE Tick
  BY <1>6 DEF Tick
<1>7. CASE UNCHANGED vars
  BY <1>7 DEF vars
<1> QED
  BY <1>1, <1>2, <1>3, <1>4, <1>5, <1>6, <1>7 DEF Next, Step

\* However callers, locks and time interleave, a token gives its password
\* at most once.
THEOREM TokensUsedOnce == Spec => []OneUse
<1>1. Init => Spent
  BY RevealAssumption DEF Init, Spent
<1>2. Spent => OneUse
  BY DEF Spent, OneUse
<1> QED
  BY <1>1, <1>2, TypesInit, TypesNext, SpentNext, PTL DEF Spec
-----------------------------------------------------------------------------
\* What a token has left and the time since the lock are together no more
\* than TOKEN_TTL; a password still on its way was read at the moment of the
\* lock, because time waits for it.
Fading ==
    ~unlocked => /\ \A t \in Tokens : life[t] # Absent => life[t] + dark <= TOKEN_TTL
                 /\ \A c \in Clients : pc[c] = "store" => dark = 0

LEMMA FadingNext == TypeOK /\ Fading /\ [Next]_vars => Fading'
<1> SUFFICES ASSUME TypeOK, Fading, [Next]_vars PROVE Fading'
  OBVIOUS
<1> USE RevealAssumption DEF TypeOK, Fading, Goto, quota, store
<1>1. ASSUME NEW c \in Clients, CheckWindow(c) \/ ResetCount(c) \/ StampWindow(c) \/ Count(c)
      PROVE  Fading'
  BY <1>1 DEF CheckWindow, ResetCount, StampWindow, Count
<1>2. ASSUME NEW c \in Clients, GetPassword(c) \/ RequestToken(c) \/ ReadRefused(c)
      PROVE  Fading'
  BY <1>2 DEF GetPassword, RequestToken, ReadRefused
<1>3. ASSUME NEW c \in Clients, NEW t \in Tokens, Store(c, t)
      PROVE  Fading'
  BY <1>3 DEF Store
<1>4. ASSUME NEW t \in Tokens, Consume(t)
      PROVE  Fading'
  BY <1>4 DEF Consume
<1>5. CASE Unlock \/ LockBegin \/ LockStep
  BY <1>5 DEF Unlock, LockBegin, LockStep, LockCount, LockStart
<1>6. CASE Tick
  <2>1. \A t \in Tokens : life[t] # Absent =>
           /\ life[t] \in Nat
           /\ life[t] > 0 => Dec(life[t]) = life[t] - 1
           /\ life[t] = 0 => Dec(life[t]) = 0
    BY DEF Dec
  <2>2. ~unlocked' => \A t \in Tokens : life'[t] # Absent => life'[t] + dark' <= TOKEN_TTL
    BY <1>6, <2>1 DEF Tick
  <2> QED
    BY <1>6, <2>2 DEF Tick
<1>7. CASE UNCHANGED vars
  BY <1>7 DEF vars
<1> QED
  BY <1>1, <1>2, <1>3, <1>4, <1>5, <1>6, <1>7 DEF Next, Step

\* TOKEN_TTL seconds after a lock, no token has anything left to give,
\* whichever calls were under way when the lock came.
THEOREM LocksEndReveals == Spec => []LockEndsReveals
<1>1. Init => Fading
  BY DEF Init, Fading
<1>2. TypeOK /\ Fading => LockEndsReveals
  BY RevealAssumption DEF Fading, LockEndsReveals, TypeOK
<1> QED
  BY <1>1, <1>2, TypesInit, TypesNext, FadingNext, PTL DEF Spec
-----------------------------------------------------------------------------
\* The callers that saw the old window: those that have yet to store the
\* count, and those of them that have yet to store the start.
Resetting == {c \in Clients : pc[c] = "reset"}
Stamping == {c \in Clients : pc[c] = "stamp"}

\* How many times the count of this window may have been begun again: by
\* those who stamp, or, once one has, by all who do not reset any more.
Restarts == IF left = 0 THEN Cardinality(Stamping)
            ELSE Cardinality(Clients) - Cardinality(Resetting)

\* A caller about to stamp was counted, and is granted when it does.
Budget == granted + Cardinality(Stamping) <= count + MAX_REVEALS_PER_WINDOW * Restarts

LEMMA ClientCounts ==
    /\ IsFiniteSet(Stamping) /\ IsFiniteSet(Resetting)
    /\ Cardinality(Stamping) \in Nat /\ Cardinality(Resetting) \in Nat
    /\ Cardinality(Clients) \in Nat
    /\ Cardinality(Stamping) + Cardinality(Resetting) <= Cardinality(Clients)
<1>1. Stamping \subseteq Clients /\ Resetting \subseteq Clients \ Stamping
  BY DEF Stamping, Resetting
<1>2. IsFiniteSet(Clients \ Stamping)
      /\ Cardinality(Clients \ Stamping) = Cardinality(Clients) - Cardinality(Stamping)
  <2>1. Clients \cap Stamping = Stamping
    BY <1>1
  <2> QED
    BY <2>1, RevealAssumption, FS_Difference
<1> QED
  BY <1>1, <1>2, RevealAssumption, FS_Subset, FS_CardinalityType

LEMMA Scaled ==
    ASSUME NEW m \in Nat \ {0}, NEW a \in Nat, NEW b \in Nat, a <= b
    PROVE  m * a \in Nat /\ m * b \in Nat /\ a <= m * b /\ m * a <= m * b /\ m * (a + 1) = m * a + m
<1>1. m * b = m * a + m * (b - a) /\ m * (b - a) \in Nat
  <2>1. b - a \in Nat
    OBVIOUS
  <2> DEFINE d == b - a
  <2>2. b = a + d /\ d \in Nat
    BY <2>1
  <2> HIDE DEF d
  <2>3. m * (a + d) = m * a + m * d /\ m * d \in Nat
    BY <2>2
  <2> QED
    BY <2>2, <2>3 DEF d
<1>2. m * b = b + (m - 1) * b /\ (m - 1) * b \in Nat
  OBVIOUS
<1>3. m * a \in Nat /\ m * b \in Nat /\ m * (a + 1) = m * a + m
  OBVIOUS
<1> QED
  BY <1>1, <1>2, <1>3

LEMMA RestartsType == Restarts \in Nat /\ Cardinality(Stamping) <= Restarts
                      /\ Restarts <= Cardinality(Clients)
BY ClientCounts DEF Restarts

\* A step that neither lets anybody through nor touches the window.
LEMMA BudgetKept ==
    ASSUME Budget, UNCHANGED <<granted, count, left>>,
           \A c \in Clients : \/ UNCHANGED pc[c]
                             \/ {pc[c], pc'[c]} \cap {"reset", "stamp"} = {}
    PROVE  Budget'
<1>1. UNCHANGED <<Stamping, Resetting>>
  BY DEF Stamping, Resetting
<1> QED
  BY <1>1 DEF Budget, Restarts

\* A step after which nothing has been let through.
LEMMA BudgetBegun ==
    ASSUME TypeOK', granted' = 0, UNCHANGED pc
    PROVE  Budget'
<1> DEFINE m == MAX_REVEALS_PER_WINDOW
           s == Cardinality(Stamping)
           r == Cardinality(Resetting)
           n == Cardinality(Clients)
<1>1. UNCHANGED <<Stamping, Resetting>>
  BY DEF Stamping, Resetting
<1>2. s \in Nat /\ r \in Nat /\ n \in Nat /\ s + r <= n
  BY ClientCounts
<1>3. Restarts' = IF left' = 0 THEN s ELSE n - r
  BY <1>1 DEF Restarts
<1> DEFINE b == IF left' = 0 THEN s ELSE n - r
<1>4. b \in Nat /\ s <= b
  BY <1>2
<1>5. m \in Nat \ {0} /\ count' \in Nat
  BY RevealAssumption DEF TypeOK
<1>6. s <= m * b /\ m * b \in Nat
  <2> HIDE DEF b, s, m
  <2> QED BY <1>4, <1>5, <1>2, Scaled
<1>7. 0 + s <= count' + m * b
  <2> HIDE DEF b, s, m
  <2> QED BY <1>5, <1>6, <1>2
<1> QED
  BY <1>1, <1>3, <1>7 DEF Budget

LEMMA BudgetNext == TypeOK /\ Budget /\ [Next]_vars => Budget'
<1> SUFFICES ASSUME TypeOK, Budget, [Next]_vars PROVE Budget'
  OBVIOUS
<1> DEFINE m == MAX_REVEALS_PER_WINDOW
           s == Cardinality(Stamping)
           r == Cardinality(Resetting)
           n == Cardinality(Clients)
<1>a. /\ m \in Nat \ {0} /\ s \in Nat /\ r \in Nat /\ n \in Nat /\ s + r <= n
      /\ Restarts \in Nat /\ s <= Restarts
  BY RevealAssumption, ClientCounts, RestartsType
<1>b. DOMAIN pc = Clients /\ count \in 0..m /\ granted \in Nat /\ left \in Nat
  BY DEF TypeOK
<1>c. TypeOK'
  BY TypesNext
<1>d. /\ m * Restarts \in Nat /\ m * (Restarts + 1) = m * Restarts + m
  <2> HIDE DEF m
  <2> QED BY <1>a, Scaled
<1>e. granted + s <= count + m * Restarts
  BY DEF Budget
<1>1. ASSUME NEW c \in Clients, CheckWindow(c)
      PROVE  Budget'
  <2>1. CASE left = 0
    <3>1. Stamping' = Stamping
      BY <1>1, <1>b DEF CheckWindow, Goto, Stamping
    <3> QED
      BY <1>1, <2>1, <3>1 DEF CheckWindow, Budget, Restarts, quota
  <2>2. CASE left # 0
    BY <1>1, <2>2, <1>b, BudgetKept DEF CheckWindow, Goto, quota
  <2> QED
    BY <2>1, <2>2
<1>2. ASSUME NEW c \in Clients, ResetCount(c)
      PROVE  Budget'
  <2>1. /\ Stamping' = Stamping \cup {c} /\ c \notin Stamping
        /\ Resetting' = Resetting \ {c} /\ c \in Resetting
    BY <1>2, <1>b DEF ResetCount, Goto, Stamping, Resetting
  <2>2. Cardinality(Stamping') = s + 1 /\ Cardinality(Resetting') = r - 1
    BY <2>1, ClientCounts, FS_AddElement, FS_RemoveElement
  <2>3. left' = left /\ granted' = granted /\ count' = 1
    BY <1>2 DEF ResetCount
  <2>4. Restarts' = Restarts + 1
    BY <2>2, <2>3, <1>a DEF Restarts
  <2>5. granted + (s + 1) <= 1 + (m * Restarts + m)
    BY <1>a, <1>b, <1>d, <1>e
  <2> QED
    BY <2>2, <2>3, <2>4, <2>5, <1>d DEF Budget
<1>3. ASSUME NEW c \in Clients, StampWindow(c)
      PROVE  Budget'
  <2>1. /\ Stamping' = Stamping \ {c} /\ c \in Stamping
        /\ Resetting' = Resetting
    BY <1>3, <1>b DEF StampWindow, Goto, Stamping, Resetting
  <2>2. Cardinality(Stamping') = s - 1
    BY <2>1, ClientCounts, FS_RemoveElement
  <2>3. left' # 0 /\ granted' = granted + 1 /\ count' = count
    BY <1>3, RevealAssumption DEF StampWindow, TypeOK
  <2>4. Restarts' = n - r
    BY <2>1, <2>3 DEF Restarts
  <2>5. Restarts <= n - r
    BY <1>a DEF Restarts
  <2>6. m * Restarts <= m * (n - r) /\ m * (n - r) \in Nat
    <3>1. n - r \in Nat
      BY <1>a
    <3> HIDE DEF m, n, r
    <3> QED BY <1>a, <2>5, <3>1, Scaled
  <2>7. (granted + 1) + (s - 1) <= count + m * (n - r)
    <3>1. n - r \in Nat
      BY <1>a
    <3> DEFINE x == m * (n - r)
               y == m * Restarts
    <3>2. x \in Nat /\ y \in Nat /\ y <= x
      BY <2>6, <1>d
    <3>3. granted + s <= count + y
      BY <1>e
    <3> HIDE DEF x, y
    <3>4. (granted + 1) + (s - 1) <= count + x
      BY <3>2, <3>3, <1>a, <1>b
    <3> QED
      BY <3>4 DEF x
  <2> QED
    BY <2>2, <2>3, <2>4, <2>7 DEF Budget
<1>4. ASSUME NEW c \in Clients, Count(c)
      PROVE  Budget'
  <2>1. Stamping' = Stamping /\ Resetting' = Resetting
    BY <1>4, <1>b DEF Count, Goto, Stamping, Resetting
  <2>2. Restarts' = Restarts
    BY <1>4, <2>1 DEF Count, Restarts
  <2>3. \/ UNCHANGED <<count, granted>>
        \/ count' = count + 1 /\ granted' = granted + 1
    BY <1>4 DEF Count
  <2> QED
    BY <2>1, <2>2, <2>3, <1>a, <1>b, <1>d, <1>e DEF Budget
<1>5. ASSUME NEW c \in Clients,
             \/ GetPassword(c) \/ RequestToken(c) \/ ReadRefused(c)
             \/ \E t \in Tokens : Store(c, t)
      PROVE  Budget'
  BY <1>5, <1>b, BudgetKept DEF GetPassword, RequestToken, ReadRefused, Store, Goto, quota
<1>6. ASSUME NEW t \in Tokens, Consume(t)
      PROVE  Budget'
  BY <1>6, BudgetKept DEF Consume, quota
<1>7. CASE Unlock \/ LockBegin
  BY <1>7, BudgetKept DEF Unlock, LockBegin, quota
<1>8. CASE LockStep
  BY <1>8, <1>c, BudgetBegun DEF LockStep, LockCount, LockStart
<1>9. CASE Tick
  <2>1. CASE left = 1
    BY <1>9, <2>1, <1>c, BudgetBegun DEF Tick
  <2>2. CASE left # 1
    <3>1. UNCHANGED <<Stamping, Resetting, granted, count>>
      BY <1>9, <2>2 DEF Tick, Stamping, Resetting
    <3>2. (left' = 0) = (left = 0)
      BY <1>9, <2>2, <1>b DEF Tick, Dec
    <3> QED
      BY <3>1, <3>2 DEF Budget, Restarts
  <2> QED
    BY <2>1, <2>2
<1>10. CASE UNCHANGED vars
  BY <1>10, BudgetKept DEF vars, quota
<1> QED
  BY <1>1, <1>2, <1>3, <1>4, <1>5, <1>6, <1>7, <1>8, <1>9, <1>10 DEF Next, Step

\* However callers overlap at the edge of a window or with a lock, what they
\* are let through with in one window is at most the limit for each of them
\* and once more, for any number of callers and any limit.
THEOREM QuotaAlwaysKept == Spec => []QuotaKept
<1>1. Init => Budget
  <2> SUFFICES ASSUME Init PROVE Budget
    OBVIOUS
  <2>1. Stamping = {} /\ left = 0 /\ granted = 0 /\ count = 0
    BY DEF Init, Stamping
  <2>2. Cardinality(Stamping) = 0 /\ Restarts = 0
    BY <2>1, FS_EmptySet DEF Restarts
  <2> QED
    BY <2>1, <2>2, RevealAssumption DEF Budget
<1>2. TypeOK /\ Budget => QuotaKept
  <2> SUFFICES ASSUME TypeOK, Budget PROVE QuotaKept
    OBVIOUS
  <2> DEFINE m == MAX_REVEALS_PER_WINDOW
             s == Cardinality(Stamping)
             n == Cardinality(Clients)
  <2>1. /\ m \in Nat \ {0} /\ s \in Nat /\ n \in Nat /\ Restarts \in Nat /\ Restarts <= n
        /\ count \in 0..m /\ granted \in Nat
    BY RevealAssumption, ClientCounts, RestartsType DEF TypeOK
  <2>2. granted + s <= count + m * Restarts
    BY DEF Budget
  <2>3. m * Restarts \in Nat /\ m * Restarts <= m * n /\ m * n \in Nat
    <3> HIDE DEF m, n
    <3> QED BY <2>1, Scaled
  <2>4. (n + 1) * m = m * n + m
    <3> HIDE DEF m, n
    <3> QED BY <2>1
  <2>5. granted <= m * n + m
    <3> HIDE DEF m, n, s
    <3> QED BY <2>1, <2>2, <2>3
  <2> QED
    BY <2>4, <2>5 DEF QuotaKept
<1> QED
  BY <1>1, <1>2, TypesInit, TypesNext, BudgetNext, PTL DEF Spec
=============================================================================
