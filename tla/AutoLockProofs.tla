--------------------------- MODULE AutoLockProofs ---------------------------
(***************************************************************************)
(* Proofs about AutoLock, for any number of calls and any set of timeouts. *)
(***************************************************************************)
EXTENDS AutoLock, TLAPS

\* As long as no two saves overlapped, the one save that has reached the file
\* and not yet the timer carries the timeout that is in the file, unless an
\* edit has stored another one since.
Handover ==
    ~raced => \A c \in Calls : pc[c] = "set" =>
                 /\ carried \/ held[c].secs = stored.secs
                 /\ \A d \in Calls : pc[d] = "set" => d = c

Inv == TypeOK /\ Handover /\ SavedInForce

LEMMA InvInit == Init => Inv
<1> SUFFICES ASSUME Init PROVE Inv
  OBVIOUS
<1>1. TypeOK
  <2>1. saved \in BOOLEAN /\ raced \in BOOLEAN /\ carried \in BOOLEAN
    BY DEF Init
  <2>2. 0 \in 0..MaxSecs
    BY AutoLockAssumption
  <2> QED
    BY <2>1, <2>2, AutoLockAssumption DEF Init, TypeOK
<1>2. Handover /\ SavedInForce
  BY DEF Init, Handover, SavedInForce
<1> QED
  BY <1>1, <1>2 DEF Inv

LEMMA AfterType == \A n \in 0..MaxSecs : After(n) \in 0..MaxSecs
BY AutoLockAssumption DEF After

LEMMA InvNext == Inv /\ [Next]_vars => Inv'
<1> SUFFICES ASSUME Inv, [Next]_vars PROVE Inv'
  OBVIOUS
<1> USE AutoLockAssumption DEF Inv, TypeOK, timerVars, saveVars, calls
<1>0. Nothing \notin Settings
  BY DEF Settings
<1>1. ASSUME NEW c \in Calls, UnlockRead(c)
      PROVE  Inv'
  <2>1. /\ pc' = [pc EXCEPT ![c] = "read"] /\ held' = [held EXCEPT ![c] = stored]
        /\ UNCHANGED <<session, settings, stored, timeout, idle, timer, armed, blur, saved,
                       raced, carried>>
    BY <1>1, Zenon DEF UnlockRead
  <2>2. TypeOK'
    BY <1>0, <2>1
  <2>3. Handover' /\ SavedInForce'
    BY <1>1, <2>1 DEF UnlockRead, Handover, SavedInForce
  <2> QED
    BY <2>2, <2>3
<1>2. ASSUME NEW c \in Calls, UnlockInstall(c)
      PROVE  Inv'
  <2>1. held[c] \in Settings
    BY <1>2 DEF UnlockInstall
  <2>2. TypeOK'
    BY <1>2, <2>1 DEF UnlockInstall
  <2>3. Handover' /\ SavedInForce'
    BY <1>2 DEF UnlockInstall, Handover, SavedInForce
  <2> QED
    BY <2>2, <2>3
<1>9. ASSUME NEW c \in Calls, UnlockBump(c) \/ Use(c) \/ ChangePassword(c) \/ SaveBump(c)
      PROVE  Inv'
  BY <1>9 DEF UnlockBump, Use, ChangePassword, SaveBump, Handover, SavedInForce
<1>10. ASSUME NEW c \in Calls, Edit(c)
       PROVE  Inv'
  BY <1>10 DEF Edit, Handover, SavedInForce
<1>11. ASSUME NEW c \in Calls, NEW s \in Settings, SaveApply(c, s)
       PROVE  Inv'
  <2>1. CASE /\ stored' = s /\ held' = [held EXCEPT ![c] = s]
             /\ raced' = (\E d \in Calls : pc[d] = "set") /\ carried' = FALSE
             /\ pc' = [pc EXCEPT ![c] = "set"]
    <3>1. TypeOK'
      BY <1>0, <1>11, <2>1 DEF SaveApply
    <3>2. Handover' /\ SavedInForce'
      BY <1>11, <2>1 DEF SaveApply, Handover, SavedInForce
    <3> QED
      BY <3>1, <3>2
  <2>2. CASE UNCHANGED <<stored, held, raced, carried>> /\ pc' = [pc EXCEPT ![c] = "idle"]
    BY <1>11, <2>2 DEF SaveApply, Handover, SavedInForce
  <2> QED
    BY <1>11, <2>1, <2>2 DEF SaveApply
<1>3. ASSUME NEW c \in Calls, Refused(c)
      PROVE  Inv'
  BY <1>3 DEF Refused, Handover, SavedInForce
<1>4. ASSUME NEW c \in Calls, SaveSet(c)
      PROVE  Inv'
  BY <1>4 DEF Settings, SaveSet, Handover, SavedInForce
<1>5. CASE LockVault \/ FocusLost \/ BlurStep
  BY <1>5 DEF LockVault, FocusLost, BlurStep, BlurRead, BlurLock, Handover, SavedInForce
<1>6. CASE TimerStep
  BY <1>6 DEF TimerStep, TimerLoad, TimerCompare, TimerLook, TimerLock, Handover, SavedInForce
<1>7. CASE Tick
  BY <1>7, AfterType DEF Tick, Handover, SavedInForce
<1>8. CASE UNCHANGED vars
  BY <1>8 DEF vars, Handover, SavedInForce
<1> QED
  BY <1>1, <1>2, <1>3, <1>4, <1>5, <1>6, <1>7, <1>8, <1>9, <1>10, <1>11 DEF Next, CallStep

LEMMA InvAlways == Spec => []Inv
BY InvInit, InvNext, PTL DEF Spec

\* The session, the settings, the timer and the calls always have values of
\* their type; in particular the timeout in force is one a vault can hold.
THEOREM AutoLockTypeCorrect == Spec => []TypeOK
<1>1. Inv => TypeOK
  BY DEF Inv
<1> QED
  BY <1>1, InvAlways, PTL

\* After a save of the settings was reported Ok, the timeout in force is the
\* one in the vault file, whatever failed, locked or reopened since, unless
\* two saves overlapped or another command has stored a timeout no save of the
\* settings had brought to the file.
THEOREM SavedAlwaysInForce == Spec => []SavedInForce
<1>1. Inv => SavedInForce
  BY DEF Inv
<1> QED
  BY <1>1, InvAlways, PTL
=============================================================================
