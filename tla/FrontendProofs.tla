--------------------------- MODULE FrontendProofs ---------------------------
(***************************************************************************)
(* Proofs about Frontend, for any numbers of tries, calls and locks under  *)
(* way: the state keeps its types, and a window that shows the vault of a  *)
(* session that has ended is about to find out, unless the backend locked  *)
(* it in front of the window.                                              *)
(***************************************************************************)
EXTENDS Frontend, TLAPS

\* The types without the fact about the loads.
Typed ==
    /\ session \in {"locked", "open", "limited"}
    /\ decided \in BOOLEAN
    /\ screen \in {"lock", "app"}
    /\ countdown \in BOOLEAN /\ cooldown \in BOOLEAN /\ overlapped \in BOOLEAN
    /\ silent \in BOOLEAN
    /\ try \in [Tries -> {"idle", "sent", "ok", "failed", "loading"}]
    /\ call \in [Calls -> {"idle", "sent", "ok", "locked", "failed"}]
    /\ locking \in [Locks -> {"idle", "sent", "answered"}]

LEMMA TypedNext == Typed /\ [Next]_vars => Typed'
<1> SUFFICES ASSUME Typed, [Next]_vars PROVE Typed'
  OBVIOUS
<1> USE DEF Typed, window
<1>1. CASE Decide \/ CooldownEnds
  BY <1>1 DEF Decide, CooldownEnds
<1>2. CASE LockDecided
  BY <1>2, Zenon DEF LockDecided
<1>4. ASSUME NEW t \in Tries, TryUnlock(t) \/ Unlock(t) \/ TryFailed(t)
      PROVE  Typed'
  BY <1>4 DEF TryUnlock, Unlock, TryFailed
<1>5. ASSUME NEW t \in Tries, AfterUnlock(t) \/ Loaded(t)
      PROVE  Typed'
  BY <1>5 DEF AfterUnlock, Loaded, StartCountdown
<1>6. ASSUME NEW p \in Pages, PageCall(p)
      PROVE  Typed'
  BY <1>6 DEF PageCall, Calls
<1>7. ASSUME NEW c \in Calls, Answer(c)
      PROVE  Typed'
  BY <1>7 DEF Answer
<1>8. ASSUME NEW c \in Calls, VaultCall(c)
      PROVE  Typed'
  BY <1>8 DEF VaultCall, StartCountdown, ShowLockScreen
<1>9. ASSUME NEW k \in Locks, LockVaultUI(k) \/ LockShown(k)
      PROVE  Typed'
  BY <1>9 DEF LockVaultUI, LockShown, ShowLockScreen
<1>10. ASSUME NEW k \in Locks, LockVault(k)
       PROVE  Typed'
  <2>1. locking' \in [Locks -> {"idle", "sent", "answered"}]
    BY <1>10 DEF LockVault
  <2> QED
    BY <1>10, <2>1, Zenon DEF LockVault
<1>11. CASE UNCHANGED vars
  BY <1>11 DEF vars
<1> QED
  BY <1>1, <1>2, <1>4, <1>5, <1>6, <1>7, <1>8, <1>9, <1>10, <1>11
  DEF Next, TryStep, CallStep, LockStep

\* The loads of an unlock are under way only while it waits for them.
Awaited == \A t \in Tries, l \in Lists : call[<<t, l>>] # "idle" => try[t] = "loading"

LEMMA AwaitedNext == Typed /\ Awaited /\ [Next]_vars => Awaited'
<1> SUFFICES ASSUME Typed, Awaited, [Next]_vars,
                    NEW t \in Tries, NEW l \in Lists, call'[<<t, l>>] # "idle"
             PROVE  try'[t] = "loading"
  BY DEF Awaited
<1>0. <<t, l>> \in Calls
  BY DEF Calls
<1>1. CASE UNCHANGED <<try, call>>
  BY <1>1 DEF Awaited
<1>2. ASSUME NEW u \in Tries, TryUnlock(u) \/ Unlock(u) \/ TryFailed(u) \/ Loaded(u)
      PROVE  try'[t] = "loading"
  <2>1. UNCHANGED call
    BY <1>2 DEF TryUnlock, Unlock, TryFailed, Loaded
  <2>2. try[t] = "loading"
    BY <2>1 DEF Awaited
  <2> QED
    BY <1>2, <2>1, <2>2 DEF TryUnlock, Unlock, TryFailed, Loaded, Typed
<1>3. ASSUME NEW u \in Tries, AfterUnlock(u)
      PROVE  try'[t] = "loading"
  <2>1. CASE t = u
    BY <1>3, <2>1 DEF AfterUnlock, Typed
  <2>2. CASE t # u
    <3>1. <<t, l>> \notin {u} \X Lists
      BY <2>2
    <3>2. call'[<<t, l>>] = call[<<t, l>>]
      BY <1>0, <1>3, <3>1 DEF AfterUnlock
    <3> QED
      BY <1>3, <2>2, <3>2 DEF AfterUnlock, Awaited, Typed
  <2> QED
    BY <2>1, <2>2
<1>4. ASSUME NEW p \in Pages, PageCall(p)
      PROVE  try'[t] = "loading"
  <2>1. <<t, l>> # p
    BY FrontendAssumption
  <2>2. call'[<<t, l>>] = call[<<t, l>>] /\ UNCHANGED try
    BY <1>0, <1>4, <2>1 DEF PageCall, Typed
  <2> QED
    BY <2>2 DEF Awaited
<1>5. ASSUME NEW c \in Calls, CallStep(c)
      PROVE  try'[t] = "loading"
  <2>1. call[c] # "idle" /\ UNCHANGED try
    BY <1>5 DEF CallStep, Answer, VaultCall
  <2>2. \A d \in Calls \ {c} : call'[d] = call[d]
    BY <1>5 DEF CallStep, Answer, VaultCall, Typed
  <2> QED
    BY <1>0, <2>1, <2>2 DEF Awaited
<1> QED
  BY <1>1, <1>2, <1>3, <1>4, <1>5
  DEF Next, TryStep, LockStep, Decide, LockDecided, CooldownEnds, LockVaultUI, LockVault,
      LockShown, vars

LEMMA TypesNext == TypeOK /\ [Next]_vars => TypeOK'
<1>1. TypeOK <=> Typed /\ Awaited
  BY Zenon DEF TypeOK, Typed, Awaited
<1>2. Typed' /\ Awaited' => TypeOK'
  BY Zenon DEF TypeOK, Typed, Awaited
<1> QED
  BY <1>1, <1>2, TypedNext, AwaitedNext, Zenon

LEMMA TypesInit == Init => TypeOK
<1> SUFFICES ASSUME Init PROVE TypeOK
  OBVIOUS
<1>1. Awaited
  BY DEF Init, Awaited, Calls
<1>2. Typed
  BY DEF Init, Typed
<1> QED
  BY <1>1, <1>2, Zenon DEF TypeOK, Typed, Awaited

\* The session, the window and what is in between keep their types.
THEOREM FrontendTypeCorrect == Spec => []TypeOK
BY TypesInit, TypesNext, PTL DEF Spec
-----------------------------------------------------------------------------
\* Unless tries overlap there is one at a time, and none in an open window.
OneTry == ~overlapped => /\ \A t, u \in Waiting : t = u
                         /\ screen = "app" => Waiting = {}

\* So no try limits the session of an open window, or of one that is about
\* to open.
NotLimited == ~overlapped /\ session = "limited" =>
                 screen = "lock" /\ \A t \in Tries : try[t] # "ok"

Inv == TypeOK /\ OneTry /\ NotLimited /\ LockNoticed

\* Once the lock screen is shown.
LEMMA ScreenLocked ==
    ASSUME TypeOK, OneTry, NotLimited, ShowLockScreen,
           UNCHANGED <<try, session>> \/ (session' = "locked" /\ UNCHANGED try)
    PROVE  OneTry' /\ NotLimited' /\ LockNoticed'
<1>1. Waiting' = Waiting
  BY DEF Waiting
<1>2. CASE overlapped'
  BY <1>2 DEF ShowLockScreen, OneTry, NotLimited, LockNoticed
<1>3. CASE ~overlapped'
  <2>1. ~overlapped \/ Waiting = {}
    BY <1>3 DEF ShowLockScreen
  <2>2. Waiting = {} => \A t \in Tries : try[t] # "ok"
    BY DEF Waiting
  <2> QED
    BY <1>1, <2>1, <2>2 DEF ShowLockScreen, OneTry, NotLimited, LockNoticed
<1> QED
  BY <1>2, <1>3

\* A step that leaves the tries and the screen alone, and limits nothing.
LEMMA TriesKept ==
    ASSUME OneTry, NotLimited, UNCHANGED <<try, screen, overlapped>>,
           session' = "limited" => session = "limited"
    PROVE  OneTry' /\ NotLimited'
BY DEF OneTry, NotLimited, Waiting

LEMMA InvNext == Inv /\ [Next]_vars => Inv'
<1> SUFFICES ASSUME Inv, [Next]_vars PROVE OneTry' /\ NotLimited' /\ LockNoticed'
  BY TypesNext DEF Inv
<1> USE DEF Inv
<1>1. CASE Decide
  BY <1>1, TriesKept DEF Decide, window, LockNoticed, Coming
<1>2. CASE LockDecided
  <2>1. OneTry' /\ NotLimited'
    BY <1>2, TriesKept DEF LockDecided
  <2>2. silent' \/ session # "open" \/ screen = "lock"
    BY <1>2 DEF LockDecided, TypeOK
  <2>3. UNCHANGED <<screen, overlapped, call, locking>> /\ (silent => silent')
    BY <1>2, Zenon DEF LockDecided
  <2> QED
    BY <2>1, <2>2, <2>3 DEF LockNoticed, Coming
<1>4. CASE CooldownEnds
  BY <1>4, TriesKept DEF CooldownEnds, window, LockNoticed, Coming
<1>5. ASSUME NEW t \in Tries, TryUnlock(t)
      PROVE  OneTry' /\ NotLimited' /\ LockNoticed'
  <2>1. Waiting' = Waiting \cup {t} /\ try' = [try EXCEPT ![t] = "sent"]
    BY <1>5 DEF TryUnlock, Waiting, TypeOK
  <2>2. OneTry'
    BY <1>5, <2>1 DEF TryUnlock, OneTry
  <2>3. NotLimited'
    BY <1>5, <2>1 DEF TryUnlock, NotLimited, TypeOK
  <2> QED
    BY <1>5, <2>2, <2>3 DEF TryUnlock, LockNoticed
<1>6. ASSUME NEW t \in Tries, Unlock(t)
      PROVE  OneTry' /\ NotLimited' /\ LockNoticed'
  <2>1. t \in Waiting /\ Waiting' \subseteq Waiting
    BY <1>6 DEF Unlock, Waiting, TypeOK
  <2>2. UNCHANGED <<screen, overlapped, call, locking>>
    BY <1>6 DEF Unlock
  <2>3. OneTry'
    BY <2>1, <2>2 DEF OneTry
  <2>4. ASSUME ~overlapped
        PROVE  screen = "lock" /\ \A u \in Tries \ {t} : try[u] # "ok"
    BY <2>1, <2>4 DEF OneTry, TypeOK, Waiting
  <2>5. NotLimited'
    BY <1>6, <2>2, <2>4 DEF Unlock, NotLimited, TypeOK
  <2>6. LockNoticed'
    BY <2>2, <2>4 DEF LockNoticed
  <2> QED
    BY <2>3, <2>5, <2>6
<1>7. ASSUME NEW t \in Tries, TryFailed(t) \/ Loaded(t)
      PROVE  OneTry' /\ NotLimited' /\ LockNoticed'
  <2>1. /\ UNCHANGED <<session, screen, overlapped, silent, call, locking>>
        /\ try[t] \notin {"sent", "ok"} /\ try' = [try EXCEPT ![t] = "idle"]
    BY <1>7 DEF TryFailed, Loaded, window
  <2>2. Waiting' = Waiting /\ \A u \in Tries : try'[u] = "ok" => try[u] = "ok"
    BY <2>1 DEF Waiting, TypeOK
  <2> QED
    BY <2>1, <2>2 DEF OneTry, NotLimited, LockNoticed, Coming
<1>8. ASSUME NEW t \in Tries, AfterUnlock(t)
      PROVE  OneTry' /\ NotLimited' /\ LockNoticed'
  <2>1. t \in Waiting /\ Waiting' = Waiting \ {t}
    BY <1>8 DEF AfterUnlock, Waiting, TypeOK
  <2>2. UNCHANGED <<session, overlapped>>
    BY <1>8 DEF AfterUnlock
  <2>3. OneTry'
    BY <2>1, <2>2 DEF OneTry
  <2>4. NotLimited'
    BY <1>8, <2>2 DEF AfterUnlock, NotLimited
  <2>5. PICK l \in Lists : TRUE
    BY FrontendAssumption
  <2>6. <<t, l>> \in Calls /\ call'[<<t, l>>] = "sent"
    BY <1>8 DEF AfterUnlock, Calls
  <2> QED
    BY <2>3, <2>4, <2>6 DEF LockNoticed, Coming
<1>9. ASSUME NEW p \in Pages, PageCall(p)
      PROVE  OneTry' /\ NotLimited' /\ LockNoticed'
  <2>1. UNCHANGED <<session, screen, overlapped, silent, locking, try>>
    BY <1>9 DEF PageCall, window
  <2>2. \A c \in Calls : call[c] \in {"sent", "locked"} => call'[c] \in {"sent", "locked"}
    BY <1>9 DEF PageCall, TypeOK
  <2> QED
    BY <2>1, <2>2, TriesKept DEF LockNoticed, Coming
<1>10. ASSUME NEW c \in Calls, Answer(c)
       PROVE  OneTry' /\ NotLimited' /\ LockNoticed'
  <2>1. UNCHANGED <<screen, overlapped, silent, locking, try>>
    BY <1>10 DEF Answer, window
  <2>2. OneTry' /\ NotLimited'
    BY <1>10, <2>1, TriesKept DEF Answer
  <2>3. CASE session = "open" /\ UNCHANGED session
    BY <2>2, <2>3 DEF LockNoticed
  <2>4. CASE call' = [call EXCEPT ![c] = "locked"]
    <3>1. call'[c] = "locked"
      BY <2>4 DEF TypeOK
    <3> QED
      BY <2>2, <3>1 DEF LockNoticed, Coming
  <2>5. CASE session = "limited" /\ UNCHANGED session
    BY <2>1, <2>2, <2>5 DEF NotLimited, LockNoticed
  <2> QED
    BY <1>10, <2>2, <2>3, <2>4, <2>5 DEF Answer
<1>11. ASSUME NEW c \in Calls, VaultCall(c)
       PROVE  OneTry' /\ NotLimited' /\ LockNoticed'
  <2>1. CASE call[c] = "locked"
    BY <1>11, <2>1, ScreenLocked DEF VaultCall
  <2>2. CASE call[c] # "locked"
    <3>1. UNCHANGED <<session, screen, overlapped, silent, locking, try>>
      BY <1>11, <2>2 DEF VaultCall, window
    <3>2. call[c] \notin {"sent", "locked"}
          /\ \A d \in Calls \ {c} : call'[d] = call[d]
      BY <1>11, <2>2 DEF VaultCall, TypeOK
    <3> QED
      BY <3>1, <3>2, TriesKept DEF LockNoticed, Coming
  <2> QED
    BY <2>1, <2>2
<1>12. ASSUME NEW k \in Locks, LockVaultUI(k)
       PROVE  OneTry' /\ NotLimited' /\ LockNoticed'
  <2>1. UNCHANGED <<session, screen, overlapped, silent, call, try>>
    BY <1>12 DEF LockVaultUI
  <2>2. \A j \in Locks : locking[j] = "answered" => locking'[j] = "answered"
    BY <1>12 DEF LockVaultUI, TypeOK
  <2> QED
    BY <2>1, <2>2, TriesKept DEF LockNoticed, Coming
<1>13. ASSUME NEW k \in Locks, LockVault(k)
       PROVE  OneTry' /\ NotLimited' /\ LockNoticed'
  <2>1. locking'[k] = "answered"
    BY <1>13 DEF LockVault, TypeOK
  <2> QED
    BY <1>13, <2>1, TriesKept DEF LockVault, window, LockNoticed, Coming
<1>14. ASSUME NEW k \in Locks, LockShown(k)
       PROVE  OneTry' /\ NotLimited' /\ LockNoticed'
  BY <1>14, ScreenLocked DEF LockShown
<1>15. CASE UNCHANGED vars
  BY <1>15, TriesKept DEF vars, window, LockNoticed, Coming
<1> QED
  BY <1>1, <1>2, <1>4, <1>5, <1>6, <1>7, <1>8, <1>9, <1>10, <1>11, <1>12, <1>13,
     <1>14, <1>15
  DEF Next, TryStep, CallStep, LockStep

\* A window that shows the vault of a session that has ended is about to
\* find out, unless the loop or the blur task ended it in front of the window
\* or two tries overlapped, for any number of unlocks, commands and locks on
\* their way.
THEOREM LocksAlwaysNoticed == Spec => []LockNoticed
<1>1. Init => OneTry /\ NotLimited /\ LockNoticed
  <2> SUFFICES ASSUME Init PROVE OneTry /\ NotLimited /\ LockNoticed
    OBVIOUS
  <2>1. Waiting = {}
    BY DEF Init, Waiting
  <2>2. session = "locked" /\ screen = "lock"
    BY Zenon DEF Init
  <2> QED
    BY <2>1, <2>2 DEF OneTry, NotLimited, LockNoticed
<1>2. Inv => LockNoticed
  BY DEF Inv
<1> QED
  BY <1>1, <1>2, TypesInit, InvNext, PTL DEF Spec, Inv
=============================================================================
