------------------------------ MODULE VaultMap ------------------------------
(***************************************************************************)
(* What the commands on entries, notes and settings promise, without keys  *)
(* and ciphertexts: an unlocked vault is a map of what was put into it,    *)
(* each command changes one item of it, and what is saved is the whole     *)
(* map or, when the save fails, nothing.  VaultContents is shown to        *)
(* implement this specification.                                           *)
(***************************************************************************)
CONSTANTS EntryIds, NoteIds, Texts, Passwords, Empty, Settings,
          Absent,    \* an item the vault does not have
          Locked

VARIABLES now,       \* the map the session shows, or Locked
          saved      \* the map the vault file holds

vars == <<now, saved>>

New(v) == [entries |-> [i \in EntryIds |-> Absent],
              notes |-> [i \in NoteIds |-> Absent],
              settings |-> v]

Init == now = Locked /\ \E v \in Settings : saved = New(v)

\* A change is shown, and saved unless the save fails.
Commit(v) == now' = v /\ saved' \in {v, saved}

AddEntry(i, text, password, fav) ==
    /\ now.entries[i] = Absent
    /\ Commit([now EXCEPT !.entries[i] = [text |-> text, password |-> password, fav |-> fav]])

\* An edit replaces the text; the password stays unless a new one is given.
EditEntry(i, text, password, fav) ==
    /\ now.entries[i] # Absent
    /\ Commit([now EXCEPT !.entries[i] =
          [text |-> text, fav |-> fav,
           password |-> IF password = Empty THEN now.entries[i].password ELSE password]])

Toggle(i) ==
    /\ now.entries[i] # Absent
    /\ Commit([now EXCEPT !.entries[i].fav = ~now.entries[i].fav])

DeleteEntry(i) ==
    /\ now.entries[i] # Absent
    /\ Commit([now EXCEPT !.entries[i] = Absent])

PutNote(i, text) == Commit([now EXCEPT !.notes[i] = text])

DeleteNote(i) ==
    /\ now.notes[i] # Absent
    /\ Commit([now EXCEPT !.notes[i] = Absent])

PutSettings(v) == Commit([now EXCEPT !.settings = v])

\* A change of the master password saves the map and changes nothing in it.
Resave == Commit(now)

Change ==
    \/ \E i \in EntryIds, text \in Texts, password \in Passwords, fav \in BOOLEAN :
          AddEntry(i, text, password, fav) \/ EditEntry(i, text, password, fav)
    \/ \E i \in EntryIds : Toggle(i) \/ DeleteEntry(i)
    \/ \E i \in NoteIds : DeleteNote(i) \/ \E text \in Texts : PutNote(i, text)
    \/ \E v \in Settings : PutSettings(v)
    \/ Resave

Lock == now' = Locked /\ UNCHANGED saved

\* An unlock shows what was saved, all of it.
Unlock == now' = saved /\ UNCHANGED saved

Next == (now # Locked /\ Change) \/ Lock \/ Unlock

Spec == Init /\ [][Next]_vars
=============================================================================
