-------------------------- MODULE ClipboardProofs --------------------------
(***************************************************************************)
(* Proofs about Clipboard, for any number of copies and clears and any     *)
(* number of noise writes.                                                 *)
(***************************************************************************)
EXTENDS Clipboard, TLAPS

\* A copy has no task before it spawns one, and a task that does not exist
\* yet cannot have been aborted.
SpawnInv ==
    \A c \in Copies : /\ pc[c] \in {"idle", "write", "take", "spawn"} => task[c] = "none"
                      /\ task[c] = "none" => c \notin aborted

\* Whoever is about to do a noise write has one left to do; a clear that has
\* not started has all of them.
NoiseInv ==
    /\ \A c \in Copies : task[c] = "noise" => left[c] > 0
    /\ \A c \in Clears : pc[c] = "noise" => left[c] > 0
    /\ \A c \in Clears : pc[c] = "idle" => left[c] = Rounds
    /\ \A c \in Copies : pc[c] \notin {"noise", "final"}

Inv == TypeOK /\ SpawnInv /\ NoiseInv /\ SecretCovered

LEMMA InvInit == Init => Inv
BY ClipboardAssumption
   DEF Init, Inv, TypeOK, SpawnInv, NoiseInv, SecretCovered, Commands, Parked, Polled

\* Taking the slot, which both kinds of command begin with, ends or marks
\* a task that had been spawned.
LEMMA TakeSlot ==
    ASSUME Inv, slot # NoTask
    PROVE  /\ slot \in Copies
           /\ TasksWithout(slot) \in [Copies -> {"none", "dead", "ended"} \cup Parked \cup Polled]
           /\ AbortedWith(slot) \in SUBSET Copies
           /\ \A c \in Copies : (TasksWithout(slot)[c] = "none") = (task[c] = "none")
           /\ \A c \in Copies : TasksWithout(slot)[c] = "noise" => task[c] = "noise"
           /\ \A c \in Copies : task[c] = "none" => c \notin AbortedWith(slot)
BY DEF Inv, TypeOK, SpawnInv, TasksWithout, AbortedWith, Parked, Polled

LEMMA InvNext == Inv /\ [Next]_vars => Inv'
<1> SUFFICES ASSUME Inv, [Next]_vars PROVE Inv'
  OBVIOUS
<1> USE ClipboardAssumption DEF Inv, SpawnInv, NoiseInv, Commands
<1>1. CASE CopyElsewhere
  BY <1>1 DEF CopyElsewhere, TypeOK, SecretCovered
<1>2. ASSUME NEW c \in Copies, CopyRead(c) \/ CopyRefused(c)
      PROVE  Inv'
  <2>1. TypeOK' /\ SpawnInv' /\ NoiseInv'
    BY <1>2 DEF CopyRead, CopyRefused, TypeOK
  <2>2. Covered => Covered'
    BY <1>2 DEF CopyRead, CopyRefused, Covered, WillWrite, TypeOK
  <2> QED
    BY <1>2, <2>1, <2>2 DEF CopyRead, CopyRefused, SecretCovered
<1>3. ASSUME NEW c \in Copies, CopyWrite(c)
      PROVE  Inv'
  <2>1. TypeOK' /\ SpawnInv' /\ NoiseInv'
    BY <1>3 DEF CopyWrite, TypeOK
  <2>2. pc'[c] = "take"
    BY <1>3 DEF CopyWrite, TypeOK
  <2> QED
    BY <2>1, <2>2 DEF SecretCovered, Covered
<1>4. ASSUME NEW c \in Copies, CopyTake(c)
      PROVE  Inv'
  <2>1. CASE slot = NoTask
    <3>1. TypeOK' /\ SpawnInv' /\ NoiseInv'
      BY <1>4, <2>1 DEF CopyTake, TypeOK, Parked
    <3>2. WillWrite(c)'
      BY <1>4, <2>1 DEF CopyTake, TypeOK, WillWrite, Parked
    <3> QED
      BY <3>1, <3>2 DEF SecretCovered, Covered
  <2>2. CASE slot # NoTask
    <3>1. TypeOK' /\ SpawnInv' /\ NoiseInv'
      BY <1>4, <2>2, TakeSlot DEF CopyTake, TypeOK
    <3>2. pc'[c] = "spawn"
      BY <1>4, <2>2 DEF CopyTake, TypeOK
    <3> QED
      BY <3>1, <3>2 DEF SecretCovered, Covered
  <2> QED
    BY <2>1, <2>2
<1>5. ASSUME NEW c \in Copies, CopySpawn(c)
      PROVE  Inv'
  <2>1. TypeOK' /\ SpawnInv' /\ NoiseInv'
    BY <1>5 DEF CopySpawn, TypeOK, Parked
  <2>2. WillWrite(c)'
    BY <1>5 DEF CopySpawn, TypeOK, WillWrite, Parked
  <2> QED
    BY <2>1, <2>2 DEF SecretCovered, Covered
<1>6. ASSUME NEW c \in Copies, TaskWake(c)
      PROVE  Inv'
  <2>1. TypeOK' /\ SpawnInv' /\ NoiseInv'
    BY <1>6 DEF TaskWake, TypeOK, Parked, Polled
  <2>2. \A k \in Copies : WillWrite(k) => WillWrite(k)'
    BY <1>6 DEF TaskWake, WillWrite, TypeOK
  <2> QED
    BY <1>6, <2>1, <2>2 DEF TaskWake, SecretCovered, Covered
<1>7. ASSUME NEW c \in Copies, TaskNoise(c)
      PROVE  Inv'
  <2>1. TypeOK' /\ SpawnInv' /\ NoiseInv'
    BY <1>7 DEF TaskNoise, WriteOther, TypeOK, Parked
  <2>2. \A k \in Copies : WillWrite(k) => WillWrite(k)'
    BY <1>7 DEF TaskNoise, WillWrite, TypeOK, Parked
  <2> QED
    BY <1>7, <2>1, <2>2 DEF TaskNoise, WriteOther, SecretCovered, Covered
<1>8. ASSUME NEW c \in Copies, TaskFinal(c)
      PROVE  Inv'
  <2>1. TypeOK' /\ SpawnInv' /\ NoiseInv'
    BY <1>8 DEF TaskFinal, FinalWrite, WriteOther, TypeOK, Polled
  <2> QED
    BY <1>8, <2>1 DEF TaskFinal, FinalWrite, SecretCovered
<1>9. ASSUME NEW c \in Copies, TaskUnset(c)
      PROVE  Inv'
  <2>1. TypeOK' /\ SpawnInv' /\ NoiseInv'
    BY <1>9 DEF TaskUnset, TypeOK
  <2>2. \A k \in Copies : WillWrite(k) => WillWrite(k)'
    BY <1>9 DEF TaskUnset, WillWrite, TypeOK, Parked
  <2> QED
    BY <1>9, <2>1, <2>2 DEF TaskUnset, SecretCovered, Covered
<1>10. ASSUME NEW c \in Clears, ClearTake(c)
       PROVE  Inv'
  <2>1. TypeOK' /\ SpawnInv' /\ NoiseInv'
    <3>1. left[c] > 0
      BY <1>10 DEF ClearTake
    <3>2. CASE slot = NoTask
      BY <1>10, <3>1, <3>2 DEF ClearTake, TypeOK
    <3>3. CASE slot # NoTask
      BY <1>10, <3>1, <3>3, TakeSlot DEF ClearTake, TypeOK
    <3> QED
      BY <3>2, <3>3
  <2>2. pc'[c] = "noise"
    BY <1>10 DEF ClearTake, TypeOK
  <2> QED
    BY <2>1, <2>2 DEF SecretCovered, Covered
<1>11. ASSUME NEW c \in Clears, ClearNoise(c)
       PROVE  Inv'
  <2>1. TypeOK' /\ SpawnInv' /\ NoiseInv'
    BY <1>11 DEF ClearNoise, WriteOther, TypeOK
  <2>2. pc'[c] \in {"noise", "final"}
    BY <1>11 DEF ClearNoise, TypeOK
  <2> QED
    BY <2>1, <2>2 DEF SecretCovered, Covered
<1>12. ASSUME NEW c \in Clears, ClearFinal(c)
       PROVE  Inv'
  <2>1. TypeOK' /\ SpawnInv' /\ NoiseInv'
    BY <1>12 DEF ClearFinal, FinalWrite, WriteOther, TypeOK
  <2> QED
    BY <1>12, <2>1 DEF ClearFinal, FinalWrite, SecretCovered
<1>13. CASE UNCHANGED vars
  BY <1>13 DEF vars, TypeOK, SecretCovered, Covered, WillWrite
<1> QED
  BY <1>1, <1>2, <1>3, <1>4, <1>5, <1>6, <1>7, <1>8, <1>9, <1>10, <1>11, <1>12, <1>13
     DEF Next, CopyStep, ClearStep, TaskStep

LEMMA InvAlways == Spec => []Inv
BY InvInit, InvNext, PTL DEF Spec

\* The clipboard, the slot, the commands and the tasks always have values of
\* their type; in particular no overwrite does more noise writes than Rounds.
THEOREM ClipboardTypeCorrect == Spec => []TypeOK
<1>1. Inv => TypeOK
  BY DEF Inv
<1> QED
  BY <1>1, InvAlways, PTL

\* A secret on the clipboard always has somebody who is going to overwrite
\* it, however copies, clears and expiring tasks interleave, unless a last
\* write failed over it.
THEOREM SecretAlwaysCovered == Spec => []SecretCovered
<1>1. Inv => SecretCovered
  BY DEF Inv
<1> QED
  BY <1>1, InvAlways, PTL
=============================================================================
