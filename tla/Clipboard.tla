------------------------------ MODULE Clipboard ------------------------------
(***************************************************************************)
(* commands/clipboard.rs: putting a secret on the system clipboard and     *)
(* taking it off again.  A copy command writes the secret, cancels the     *)
(* auto-clear task whose JoinHandle is in the slot of ClipboardTimer, and  *)
(* spawns a task of its own; clear_clipboard cancels the task and          *)
(* overwrites the clipboard itself.  Commands and tasks run on a           *)
(* multi-threaded runtime and interleave at every await; the code under    *)
(* the mutex of the slot holds no await, so each such section is one step. *)
(*                                                                         *)
(* A secret is named by the command that wrote it, and so is the task that *)
(* the command spawns.  Time is abstract: a sleeping task may wake at any  *)
(* moment.  A write to the clipboard may fail.                             *)
(***************************************************************************)
EXTENDS Naturals

CONSTANTS Copies,   \* copy_entry_password_to_clipboard, copy_text_to_clipboard
          Clears,   \* clear_clipboard
          Rounds,   \* noise writes of one overwrite (3 in the code)
          NoTask,   \* the empty slot
          Other     \* clipboard contents that are no secret of the vault

ASSUME ClipboardAssumption ==
    /\ Copies \cap Clears = {}
    /\ NoTask \notin Copies
    /\ Other \notin Copies
    /\ Rounds \in Nat \ {0}

VARIABLES clip,     \* what is on the clipboard: the secret of a copy, or Other
          slot,     \* the task whose handle ClipboardTimer holds, or NoTask
          pc,       \* where each command is
          task,     \* where the task spawned by each copy is
          aborted,  \* tasks that were aborted in the middle of a poll
          left,     \* per command and task: noise writes still to come
          leaked    \* history: secrets on the clipboard when a last write failed

vars == <<clip, slot, pc, task, aborted, left, leaked>>

Commands == Copies \cup Clears

\* A task at an await: abort() ends it there.  Elsewhere it runs on to the
\* next await that has to wait.
Parked == {"sleep", "pause"}
Polled == {"noise", "final", "unset"}
-----------------------------------------------------------------------------
Init ==
    /\ clip = Other
    /\ slot = NoTask
    /\ pc = [c \in Commands |-> "idle"]
    /\ task = [c \in Copies |-> "none"]
    /\ aborted = {}
    /\ left = [c \in Commands |-> Rounds]
    /\ leaked = {}

\* The user, or another program, puts something else on the clipboard.
CopyElsewhere ==
    /\ clip' = Other
    /\ UNCHANGED <<slot, pc, task, aborted, left, leaked>>

(***************************************************************************)
(* The copy commands.                                                      *)
(***************************************************************************)
\* with_session yields the secret and the timeout; the vault may be locked
\* from here on.
CopyRead(c) ==
    /\ pc[c] = "idle"
    /\ pc' = [pc EXCEPT ![c] = "write"]
    /\ UNCHANGED <<clip, slot, task, aborted, left, leaked>>

\* The session is locked, the id unknown, or the clipboard unavailable.
CopyRefused(c) ==
    /\ pc[c] \in {"idle", "write"}
    /\ pc' = [pc EXCEPT ![c] = "done"]
    /\ UNCHANGED <<clip, slot, task, aborted, left, leaked>>

CopyWrite(c) ==
    /\ pc[c] = "write"
    /\ clip' = c
    /\ pc' = [pc EXCEPT ![c] = "take"]
    /\ UNCHANGED <<slot, task, aborted, left, leaked>>

\* The state of the tasks after t was aborted.
TasksWithout(t) == [task EXCEPT ![t] = IF @ \in Parked THEN "dead" ELSE @]
AbortedWith(t) == IF task[t] \in Polled THEN aborted \cup {t} ELSE aborted

\* Mutation: the command goes back to the caller without a new task when it
\* finds a task to cancel.
CopyTakeOnly(c) ==
    /\ pc[c] = "take"
    /\ IF slot = NoTask
       THEN /\ task' = [task EXCEPT ![c] = "sleep"]
            /\ slot' = c
            /\ pc' = [pc EXCEPT ![c] = "done"]
            /\ UNCHANGED aborted
       ELSE /\ task' = TasksWithout(slot)
            /\ aborted' = AbortedWith(slot)
            /\ slot' = NoTask
            /\ pc' = [pc EXCEPT ![c] = "done"]
    /\ UNCHANGED <<clip, left, leaked>>

\* The slot is taken.  A task found in it is aborted, the guard dropped and
\* the command yields; an empty slot gets the new task at once.
CopyTake(c) ==
    /\ pc[c] = "take"
    /\ IF slot = NoTask
       THEN /\ task' = [task EXCEPT ![c] = "sleep"]
            /\ slot' = c
            /\ pc' = [pc EXCEPT ![c] = "done"]
            /\ UNCHANGED aborted
       ELSE /\ task' = TasksWithout(slot)
            /\ aborted' = AbortedWith(slot)
            /\ slot' = NoTask
            /\ pc' = [pc EXCEPT ![c] = "spawn"]
    /\ UNCHANGED <<clip, left, leaked>>

\* The slot is locked again and overwritten, whatever it holds by now.
CopySpawn(c) ==
    /\ pc[c] = "spawn"
    /\ task' = [task EXCEPT ![c] = "sleep"]
    /\ slot' = c
    /\ pc' = [pc EXCEPT ![c] = "done"]
    /\ UNCHANGED <<clip, aborted, left, leaked>>

(***************************************************************************)
(* overwrite_and_clear_clipboard: Rounds noise writes, each followed by a  *)
(* sleep, then an empty write.  Errors of the clipboard are ignored.       *)
(***************************************************************************)
WriteOther == clip' \in {clip, Other}

\* The last write: if it fails, what is there is left there.
FinalWrite ==
    /\ WriteOther
    /\ leaked' = leaked \cup ({clip'} \cap Copies)

\* Mutation: clear_clipboard only cancels the task.
ClearCancelOnly(c) ==
    /\ pc[c] = "idle"
    /\ IF slot = NoTask
       THEN UNCHANGED <<task, aborted>>
       ELSE /\ task' = TasksWithout(slot)
            /\ aborted' = AbortedWith(slot)
    /\ slot' = NoTask
    /\ pc' = [pc EXCEPT ![c] = "done"]
    /\ UNCHANGED <<clip, left, leaked>>

ClearTake(c) ==
    /\ pc[c] = "idle"
    /\ IF slot = NoTask
       THEN UNCHANGED <<task, aborted>>
       ELSE /\ task' = TasksWithout(slot)
            /\ aborted' = AbortedWith(slot)
    /\ slot' = NoTask
    /\ pc' = [pc EXCEPT ![c] = "noise"]
    /\ UNCHANGED <<clip, left, leaked>>

\* Mutation: one noise write too many.
ClearNoiseOnceMore(c) ==
    /\ pc[c] = "noise"
    /\ WriteOther
    /\ left' = [left EXCEPT ![c] = @ - 1]
    /\ pc' = [pc EXCEPT ![c] = IF left[c] = 0 THEN "final" ELSE "noise"]
    /\ UNCHANGED <<slot, task, aborted, leaked>>

ClearNoise(c) ==
    /\ pc[c] = "noise"
    /\ WriteOther
    /\ left' = [left EXCEPT ![c] = @ - 1]
    /\ pc' = [pc EXCEPT ![c] = IF left[c] = 1 THEN "final" ELSE "noise"]
    /\ UNCHANGED <<slot, task, aborted, leaked>>

ClearFinal(c) ==
    /\ pc[c] = "final"
    /\ FinalWrite
    /\ pc' = [pc EXCEPT ![c] = "done"]
    /\ UNCHANGED <<slot, task, aborted, left>>

(***************************************************************************)
(* The auto-clear task of copy c.                                          *)
(***************************************************************************)
\* The delay is over: sleep(secs) before the first write, 40 ms later on.
TaskWake(c) ==
    /\ task[c] \in Parked
    /\ task' = [task EXCEPT ![c] = IF left[c] = 0 THEN "final" ELSE "noise"]
    /\ UNCHANGED <<clip, slot, pc, aborted, left, leaked>>

TaskNoise(c) ==
    /\ task[c] = "noise"
    /\ WriteOther
    /\ left' = [left EXCEPT ![c] = @ - 1]
    /\ task' = [task EXCEPT ![c] = IF c \in aborted THEN "dead" ELSE "pause"]
    /\ UNCHANGED <<slot, pc, aborted, leaked>>

TaskFinal(c) ==
    /\ task[c] = "final"
    /\ FinalWrite
    /\ task' = [task EXCEPT ![c] = "unset"]
    /\ UNCHANGED <<slot, pc, aborted, left>>

\* The task locks the slot and empties it, whichever handle it holds.  An
\* aborted task still gets there unless it has to wait for the mutex.
TaskUnset(c) ==
    /\ task[c] = "unset"
    /\ \/ /\ slot' = NoTask
          /\ task' = [task EXCEPT ![c] = "ended"]
       \/ /\ c \in aborted
          /\ task' = [task EXCEPT ![c] = "dead"]
          /\ UNCHANGED slot
    /\ UNCHANGED <<clip, pc, aborted, left, leaked>>
-----------------------------------------------------------------------------
CopyStep(c) == CopyWrite(c) \/ CopyTake(c) \/ CopySpawn(c)
ClearStep(c) == ClearNoise(c) \/ ClearFinal(c)
TaskStep(c) == TaskWake(c) \/ TaskNoise(c) \/ TaskFinal(c) \/ TaskUnset(c)

Next == \/ \E c \in Copies : CopyRead(c) \/ CopyRefused(c) \/ CopyStep(c) \/ TaskStep(c)
        \/ \E c \in Clears : ClearTake(c) \/ ClearStep(c)
        \/ CopyElsewhere

Spec == Init /\ [][Next]_vars

\* The runtime polls what was spawned and wakes what sleeps; nobody has to
\* call a command.
FairSpec == /\ Spec
            /\ \A c \in Copies : WF_vars(CopyStep(c)) /\ WF_vars(TaskStep(c))
            /\ \A c \in Clears : WF_vars(ClearStep(c))
-----------------------------------------------------------------------------
\* The type invariant of the clipboard, the slot, the commands and the tasks.
TypeOK ==
    /\ clip \in Copies \cup {Other}
    /\ slot \in Copies \cup {NoTask}
    /\ pc \in [Commands -> {"idle", "write", "take", "spawn", "noise", "final", "done"}]
    /\ task \in [Copies -> {"none", "dead", "ended"} \cup Parked \cup Polled]
    /\ aborted \in SUBSET Copies
    /\ left \in [Commands -> 0..Rounds]
    /\ leaked \in SUBSET Copies

\* A task that will still write to the clipboard, whatever happens to it ...
Writing(c) == task[c] \in {"noise", "final"}
\* ... or that will unless it is aborted.
WillWrite(c) == task[c] \in Parked \cup {"noise", "final"} /\ c \notin aborted

\* Somebody is going to overwrite the clipboard: a task that is not aborted,
\* or a command between its write or its abort and what it owes for it.
Covered ==
    \/ \E c \in Copies : WillWrite(c)
    \/ \E c \in Copies : pc[c] \in {"take", "spawn"}
    \/ \E c \in Clears : pc[c] \in {"noise", "final"}

\* However copies, clears and expiring tasks interleave, a secret on the
\* clipboard has an overwrite coming, unless the last write of one failed.
SecretCovered == clip \in Copies \ leaked => Covered

\* A secret does not stay on the clipboard: it is overwritten in the end,
\* by whichever task or command is left to do it.
SecretCleared == \A c \in Copies : clip = c ~> (clip # c \/ c \in leaked)
=============================================================================
