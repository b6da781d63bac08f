------------------------------ MODULE AutoLock ------------------------------
(***************************************************************************)
(* When an unlocked vault is locked without being asked: the inactivity    *)
(* timer of session/autolock.rs, lock-on-blur in lib.rs, and the commands  *)
(* that feed them (unlock_vault, save_settings, every command that calls   *)
(* bump_activity or stores the vault).  The timer reads its two atomics    *)
(* and the session one after the other, so commands come between any two   *)
(* of its steps.                                                           *)
(*                                                                         *)
(* The session is Locked (RateLimited included) or Unlocked; the only data *)
(* of the vault that matters here are two of its settings.  There is one   *)
(* vault.  Time is the number of seconds since an event, counted up to     *)
(* MaxSecs.                                                                *)
(***************************************************************************)
EXTENDS Naturals

CONSTANTS Calls,           \* clients, each with one command at a time
          Timeouts,        \* the values of auto_lock_secs (0: never)
          DefaultTimeout,  \* AutoLockTimer::new(300)
          MaxSecs,         \* bound on the seconds counted
          Nothing          \* what a client holds that holds no settings

ASSUME AutoLockAssumption ==
    /\ DefaultTimeout \in Timeouts
    /\ MaxSecs \in Nat
    /\ Timeouts \subseteq 0..MaxSecs
    /\ Nothing \notin [secs: Timeouts, blur: BOOLEAN]

VARIABLES session,   \* "Locked" or "Unlocked"
          settings,  \* the settings of the unlocked vault, in memory
          stored,    \* the settings in the vault file
          timeout,   \* timeout_secs
          idle,      \* seconds since last_activity
          timer,     \* where the polling loop is
          armed,     \* the timeout the loop loaded in this round
          blur,      \* where the task of a focus loss is
          pc,        \* where each client is
          held,      \* the settings an unlock has read, or a save was given
          saved,     \* history: a save has been reported Ok
          raced,     \* history: the last save of the settings overlapped another
          carried    \* history: since the last save of the settings, another
                     \* command has stored a timeout the file did not have

vars == <<session, settings, stored, timeout, idle, timer, armed, blur,
          pc, held, saved, raced, carried>>
timerVars == <<timer, armed>>
saveVars == <<held, saved, raced, carried>>
calls == <<pc, saveVars>>

Settings == [secs: Timeouts, blur: BOOLEAN]
-----------------------------------------------------------------------------
Init ==
    /\ session = "Locked"
    /\ stored \in Settings /\ settings = stored
    /\ timeout = DefaultTimeout
    /\ idle = 0
    /\ timer = "sleep" /\ armed = DefaultTimeout
    /\ blur = "none"
    /\ pc = [c \in Calls |-> "idle"]
    /\ held = [c \in Calls |-> Nothing]
    /\ saved = FALSE /\ raced = FALSE /\ carried = FALSE

\* unlock_vault reads the file, and derives the key without the lock ...
UnlockRead(c) ==
    /\ pc[c] = "idle"
    /\ held' = [held EXCEPT ![c] = stored]
    /\ pc' = [pc EXCEPT ![c] = "read"]
    /\ UNCHANGED <<session, settings, stored, timeout, idle, timerVars, blur,
                   saved, raced, carried>>

\* ... then the session opens with the settings it has read, or it fails ...
UnlockInstall(c) ==
    /\ pc[c] = "read"
    /\ \/ /\ session' = "Unlocked" /\ settings' = held[c]
          /\ pc' = [pc EXCEPT ![c] = "bump"]
       \/ /\ pc' = [pc EXCEPT ![c] = "idle"]
          /\ UNCHANGED <<session, settings>>
    /\ held' = [held EXCEPT ![c] = Nothing]
    /\ UNCHANGED <<stored, timeout, idle, timerVars, blur, saved, raced, carried>>

\* ... and only then counts as activity.
UnlockBump(c) ==
    /\ pc[c] = "bump"
    /\ idle' = 0
    /\ pc' = [pc EXCEPT ![c] = "idle"]
    /\ UNCHANGED <<session, settings, stored, timeout, timerVars, blur, saveVars>>

\* Every other command that calls bump_activity; it counts even if the
\* session turns out to be locked.  Those on entries and notes may go on to
\* change the vault.
Use(c) ==
    /\ pc[c] = "idle"
    /\ idle' = 0
    /\ \E next \in {"edit", "idle"} : pc' = [pc EXCEPT ![c] = next]
    /\ UNCHANGED <<session, settings, stored, timeout, timerVars, blur, saveVars>>

\* change_master_password: not an activity.
ChangePassword(c) ==
    /\ pc[c] = "idle"
    /\ pc' = [pc EXCEPT ![c] = "edit"]
    /\ UNCHANGED <<session, settings, stored, timeout, idle, timerVars, blur, saveVars>>

\* with_session_mut stores the whole vault, and so the settings in memory,
\* unless persisting it fails.
Edit(c) ==
    /\ pc[c] = "edit" /\ session = "Unlocked"
    /\ \/ /\ stored' = settings
          /\ carried' = (carried \/ settings.secs # stored.secs)
       \/ UNCHANGED <<stored, carried>>
    /\ pc' = [pc EXCEPT ![c] = "idle"]
    /\ UNCHANGED <<session, settings, timeout, idle, timerVars, blur, held, saved, raced>>

SaveBump(c) ==
    /\ pc[c] = "idle"
    /\ idle' = 0
    /\ pc' = [pc EXCEPT ![c] = "save"]
    /\ UNCHANGED <<session, settings, stored, timeout, timerVars, blur, saveVars>>

\* Mutation: the timeout is put in force even if the save fails.
SaveApplyAlways(c, s) ==
    /\ pc[c] = "save" /\ session = "Unlocked"
    /\ settings' = s
    /\ held' = [held EXCEPT ![c] = s]
    /\ \/ /\ stored' = s
          /\ raced' = (\E d \in Calls : pc[d] = "set") /\ carried' = FALSE
       \/ UNCHANGED <<stored, raced, carried>>
    /\ pc' = [pc EXCEPT ![c] = "set"]
    /\ UNCHANGED <<session, timeout, idle, timerVars, blur, saved>>

\* with_session_mut of save_settings: the settings change in memory, and in
\* the file unless persisting it fails, which ends the command.
SaveApply(c, s) ==
    /\ pc[c] = "save" /\ session = "Unlocked"
    /\ settings' = s
    /\ \/ /\ stored' = s /\ held' = [held EXCEPT ![c] = s]
          /\ raced' = (\E d \in Calls : pc[d] = "set") /\ carried' = FALSE
          /\ pc' = [pc EXCEPT ![c] = "set"]
       \/ /\ pc' = [pc EXCEPT ![c] = "idle"]
          /\ UNCHANGED <<stored, held, raced, carried>>
    /\ UNCHANGED <<session, timeout, idle, timerVars, blur, saved>>

Refused(c) ==
    /\ pc[c] \in {"save", "edit"} /\ session = "Locked"
    /\ pc' = [pc EXCEPT ![c] = "idle"]
    /\ UNCHANGED <<session, settings, stored, timeout, idle, timerVars, blur, saveVars>>

\* Mutation: milliseconds are handed to set_timeout.
SaveSetMillis(c) ==
    /\ pc[c] = "set"
    /\ timeout' = 1000 * held[c].secs /\ held' = [held EXCEPT ![c] = Nothing]
    /\ saved' = TRUE
    /\ pc' = [pc EXCEPT ![c] = "idle"]
    /\ UNCHANGED <<session, settings, stored, idle, timerVars, blur, raced, carried>>

\* set_timeout, after the session was released.
SaveSet(c) ==
    /\ pc[c] = "set"
    /\ timeout' = held[c].secs /\ held' = [held EXCEPT ![c] = Nothing]
    /\ saved' = TRUE
    /\ pc' = [pc EXCEPT ![c] = "idle"]
    /\ UNCHANGED <<session, settings, stored, idle, timerVars, blur, raced, carried>>

\* lock_vault: not an activity.
LockVault ==
    /\ session' = "Locked"
    /\ UNCHANGED <<settings, stored, timeout, idle, timerVars, blur, calls>>
-----------------------------------------------------------------------------
(***************************************************************************)
(* One round of the polling loop: the timeout, the last activity and the   *)
(* session are read in turn, then the session is locked.  The event sent   *)
(* to the window is left out.                                              *)
(***************************************************************************)
\* Mutation: the loop ends, instead of going round, when locking is off.
TimerLoadOnce ==
    /\ timer = "sleep"
    /\ armed' = timeout
    /\ timer' = IF timeout = 0 THEN "ended" ELSE "loaded"
    /\ UNCHANGED <<session, settings, stored, timeout, idle, blur, calls>>

TimerLoad ==
    /\ timer = "sleep"
    /\ armed' = timeout
    /\ timer' = IF timeout = 0 THEN "sleep" ELSE "loaded"
    /\ UNCHANGED <<session, settings, stored, timeout, idle, blur, calls>>

TimerCompare ==
    /\ timer = "loaded"
    /\ timer' = IF idle >= armed THEN "due" ELSE "sleep"
    /\ UNCHANGED <<session, settings, stored, timeout, idle, armed, blur, calls>>

TimerLook ==
    /\ timer = "due"
    /\ timer' = IF session = "Unlocked" THEN "lock" ELSE "sleep"
    /\ UNCHANGED <<session, settings, stored, timeout, idle, armed, blur, calls>>

TimerLock ==
    /\ timer = "lock"
    /\ session' = "Locked"
    /\ timer' = "sleep"
    /\ UNCHANGED <<settings, stored, timeout, idle, armed, blur, calls>>

\* The window loses the focus; the task reads the setting under the read
\* lock and locks the session afterwards, whichever session that is.  (Bound: one
\* focus loss is handled at a time.)
FocusLost ==
    /\ blur = "none"
    /\ blur' = "read"
    /\ UNCHANGED <<session, settings, stored, timeout, idle, timerVars, calls>>

\* Mutation: the setting is looked up in the vault file, not in the session.
BlurReadFile ==
    /\ blur = "read"
    /\ blur' = IF session = "Unlocked" /\ stored.blur THEN "lock" ELSE "none"
    /\ UNCHANGED <<session, settings, stored, timeout, idle, timerVars, calls>>

BlurRead ==
    /\ blur = "read"
    /\ blur' = IF session = "Unlocked" /\ settings.blur THEN "lock" ELSE "none"
    /\ UNCHANGED <<session, settings, stored, timeout, idle, timerVars, calls>>

BlurLock ==
    /\ blur = "lock"
    /\ session' = "Locked"
    /\ blur' = "none"
    /\ UNCHANGED <<settings, stored, timeout, idle, timerVars, calls>>

\* What a count of seconds is a second later, up to the bound.
After(n) == IF n < MaxSecs THEN n + 1 ELSE n

Tick ==
    /\ idle' = After(idle)
    /\ UNCHANGED <<session, settings, stored, timeout, timerVars, blur, calls>>
-----------------------------------------------------------------------------
CallStep(c) == \/ UnlockInstall(c) \/ UnlockBump(c)
               \/ Edit(c)
               \/ \E s \in Settings : SaveApply(c, s)
               \/ Refused(c)
               \/ SaveSet(c)
TimerStep == TimerLoad \/ TimerCompare \/ TimerLook \/ TimerLock
BlurStep == BlurRead \/ BlurLock

Next == \/ \E c \in Calls : UnlockRead(c) \/ Use(c) \/ ChangePassword(c) \/ SaveBump(c)
        \/ \E c \in Calls : CallStep(c)
        \/ LockVault
        \/ FocusLost
        \/ TimerStep
        \/ BlurStep
        \/ Tick

Spec == Init /\ [][Next]_vars

\* Time passes, the runtime wakes the loop and runs what was spawned.
FairSpec == /\ Spec
            /\ WF_vars(Tick) /\ WF_vars(TimerStep) /\ WF_vars(BlurStep)
            /\ \A c \in Calls : WF_vars(CallStep(c))
-----------------------------------------------------------------------------
\* The type invariant of the session, the settings, the timer and the calls.
TypeOK ==
    /\ session \in {"Locked", "Unlocked"}
    /\ settings \in Settings /\ stored \in Settings
    /\ timeout \in Timeouts /\ armed \in Timeouts
    /\ idle \in 0..MaxSecs
    /\ timer \in {"sleep", "loaded", "due", "lock"}
    /\ blur \in {"none", "read", "lock"}
    /\ pc \in [Calls -> {"idle", "read", "bump", "edit", "save", "set"}]
    /\ held \in [Calls -> Settings \cup {Nothing}]
    /\ \A c \in Calls : pc[c] \in {"read", "set"} <=> held[c] # Nothing
    /\ saved \in BOOLEAN /\ raced \in BOOLEAN /\ carried \in BOOLEAN

\* The timeout in force is the one in the vault file once a save of the
\* settings was reported Ok, whatever failed, locked or reopened since:
\* set_timeout is called for exactly the saves that reached the file.  There
\* are two exceptions.  Two saves of settings that overlap may call it in the
\* other order (it runs outside the lock).  And another command stores the
\* settings the session has, which need not be those of the file: a save of
\* them failed, or the session was opened from a file read before the save
\* (manager.rs line 288).
SavedInForce ==
    saved /\ ~raced /\ ~carried /\ (\A c \in Calls : pc[c] # "set")
        => timeout = stored.secs

\* A vault that is left alone does not stay unlocked while a timeout is in
\* force: unless commands go on to set idle to 0, time, the loop and the lock
\* do the rest, also when the timeout was off for a while.
IdleLocks == []<>(session = "Locked" \/ timeout = 0 \/ idle = 0)

\* Losing the focus with lock_on_blur set in the session leads to a lock,
\* unless the setting is taken back first.
BlurLocks ==
    (blur = "read" /\ session = "Unlocked" /\ settings.blur)
        ~> (session = "Locked" \/ ~settings.blur)

\* The inactivity timer locks the vault in this step.
TimerLocks == session = "Unlocked" /\ session' = "Locked" /\ timer = "lock" /\ timer' = "sleep"

\* session/autolock.rs line 5: "When inactivity exceeds the configured
\* timeout, the vault is locked": not when the user has configured 0, never.
LocksAsConfigured == [][TimerLocks => settings.secs # 0]_vars
=============================================================================
