------------------------ MODULE VaultContentsProofs ------------------------
(***************************************************************************)
(* Proofs about VaultContents, for any sets of entries, notes, keys and    *)
(* texts: what is sealed opens, no key is used twice, and the vault is the *)
(* map VaultMap promises.                                                  *)
(***************************************************************************)
EXTENDS VaultContents, TLAPS

EntryOf(key, text, password, fav) ==
    [fav |-> fav, item |-> SealItem(key, [text |-> text, password |-> password])]

\* What a command makes of a vault: one entry, one note, or the settings.
WithEntry(v, i, e) == [v EXCEPT !.entries[i] = e]
WithNote(v, i, n) == [v EXCEPT !.notes[i] = n]

\* A vault all of whose blobs open with the vault key.
Intact(item) == item.wrapped = Seal(VaultKey, item.payload.under)
Sound(v) ==
    /\ v \in Vault
    /\ \A i \in EntryIds : v.entries[i] # Absent => Intact(v.entries[i].item)
    /\ \A i \in NoteIds : v.notes[i] # Absent => Intact(v.notes[i])
    /\ v.settings.under = SettingsKey

\* The pairs of vaults in which no key seals two plaintexts.
Apart(v, w) == \A a \in Items(v), b \in Items(w) : a.payload.under = b.payload.under => a = b

Inv == /\ Sound(stored) /\ Apart(stored, stored)
       /\ session # Locked => /\ Sound(session) /\ Apart(session, session)
                              /\ Apart(session, stored)

\* After a command the vault is still open, and the invariant holds.
Stays == Inv' /\ session' # Locked

LEMMA NewEntry ==
    ASSUME NEW key \in Keys, NEW text \in Texts, NEW password \in Passwords, NEW fav \in BOOLEAN
    PROVE  /\ EntryOf(key, text, password, fav) \in Entries
           /\ EntryOf(key, text, password, fav) # Absent
           /\ Intact(EntryOf(key, text, password, fav).item)
BY ContentsAssumption
   DEF EntryOf, SealItem, Seal, Entries, Sealed, EntryTexts, AllKeys, Intact

LEMMA NewNote ==
    ASSUME NEW key \in Keys, NEW text \in Texts
    PROVE  /\ SealItem(key, text) \in Sealed(Texts)
           /\ SealItem(key, text) # Absent
           /\ Intact(SealItem(key, text))
BY ContentsAssumption DEF SealItem, Seal, Sealed, AllKeys, Intact

\* Replacing one item by an intact one, or by none, leaves a sound vault.
LEMMA EntrySound ==
    ASSUME NEW v, Sound(v), NEW i \in EntryIds, NEW e \in Entries \cup {Absent},
           e # Absent => Intact(e.item)
    PROVE  Sound(WithEntry(v, i, e))
BY DEF Sound, Vault, WithEntry

LEMMA NoteSound ==
    ASSUME NEW v, Sound(v), NEW i \in NoteIds, NEW n \in Sealed(Texts) \cup {Absent},
           n # Absent => Intact(n)
    PROVE  Sound(WithNote(v, i, n))
BY DEF Sound, Vault, WithNote

\* The items after such a change are old ones and the new one.
LEMMA EntryItems ==
    ASSUME NEW v, Sound(v), NEW i \in EntryIds, NEW e
    PROVE  /\ \A a \in Items(WithEntry(v, i, e)) :
                 a \in Items(v) \/ (e # Absent /\ a = [id |-> i, payload |-> e.item.payload])
           /\ e = Absent => Items(WithEntry(v, i, e)) \subseteq Items(v)
<1> DEFINE u == WithEntry(v, i, e)
<1>1. /\ u.notes = v.notes
      /\ \A j \in EntryIds : u.entries[j] = IF j = i THEN e ELSE v.entries[j]
  BY DEF Sound, Vault, WithEntry
<1> HIDE DEF u
<1>2. ASSUME NEW a \in Items(u)
      PROVE  a \in Items(v) \/ (e # Absent /\ a = [id |-> i, payload |-> e.item.payload])
  BY <1>1, <1>2 DEF Items
<1>3. \A a \in Items(u) :
         a \in Items(v) \/ (e # Absent /\ a = [id |-> i, payload |-> e.item.payload])
  BY <1>2
<1>4. e = Absent => Items(u) \subseteq Items(v)
  BY <1>2
<1> QED
  BY <1>3, <1>4 DEF u

LEMMA NoteItems ==
    ASSUME NEW v, Sound(v), NEW i \in NoteIds, NEW n
    PROVE  /\ \A a \in Items(WithNote(v, i, n)) :
                 a \in Items(v) \/ (n # Absent /\ a = [id |-> i, payload |-> n.payload])
           /\ n = Absent => Items(WithNote(v, i, n)) \subseteq Items(v)
<1> DEFINE u == WithNote(v, i, n)
<1>1. /\ u.entries = v.entries
      /\ \A j \in NoteIds : u.notes[j] = IF j = i THEN n ELSE v.notes[j]
  BY DEF Sound, Vault, WithNote
<1> HIDE DEF u
<1>2. ASSUME NEW a \in Items(u)
      PROVE  a \in Items(v) \/ (n # Absent /\ a = [id |-> i, payload |-> n.payload])
  BY <1>1, <1>2 DEF Items
<1>3. \A a \in Items(u) :
         a \in Items(v) \/ (n # Absent /\ a = [id |-> i, payload |-> n.payload])
  BY <1>2
<1>4. n = Absent => Items(u) \subseteq Items(v)
  BY <1>2
<1> QED
  BY <1>3, <1>4 DEF u

\* One new item under a key that neither vault uses keeps them apart.
LEMMA StaysApart ==
    ASSUME NEW v, NEW w, NEW u, NEW x, Apart(v, v), Apart(v, w),
           \A a \in Items(u) : a \in Items(v) \/ a = x,
           x.payload.under \notin ItemKeys(v) \cup ItemKeys(w)
    PROVE  Apart(u, u) /\ Apart(u, w)
BY DEF Apart, ItemKeys

LEMMA FewerApart ==
    ASSUME NEW v, NEW w, NEW u, Apart(v, v), Apart(v, w), Items(u) \subseteq Items(v)
    PROVE  Apart(u, u) /\ Apart(u, w)
BY DEF Apart

\* A change that is saved or not: what is left to show of it.
LEMMA CommitInv ==
    ASSUME Inv, session # Locked, NEW v, Commit(v),
           Sound(v), Apart(v, v), Apart(v, stored)
    PROVE  Stays
<1>1. session' = v /\ (stored' = v \/ stored' = stored)
  BY DEF Commit
<1>2. v # Locked
  BY ContentsAssumption DEF Sound
<1> QED
  BY <1>1, <1>2 DEF Inv, Stays

LEMMA InvInit == Init => Inv
<1> SUFFICES ASSUME Init PROVE Inv
  OBVIOUS
<1>1. stored = Created
  BY DEF Init
<1>2. Sound(Created)
  BY ContentsAssumption DEF Created, Sound, Vault, Seal, AllKeys, SettingsKey
<1>3. Items(Created) = {}
  BY DEF Created, Items
<1> QED
  BY <1>1, <1>2, <1>3 DEF Init, Inv, Apart

\* A rewrite of an entry, or a new one: an intact item under a fresh key.
LEMMA EntryStep ==
    ASSUME Inv, session # Locked, NEW i \in EntryIds, NEW text \in Texts,
           NEW password \in Passwords, NEW fav \in BOOLEAN, NEW key \in Fresh,
           Commit(WithEntry(session, i, EntryOf(key, text, password, fav)))
    PROVE  Stays
<1> DEFINE e == EntryOf(key, text, password, fav)
<1>1. key \in Keys /\ key \notin ItemKeys(session) \cup ItemKeys(stored)
  BY DEF Fresh
<1>2. e \in Entries /\ e # Absent /\ Intact(e.item) /\ e.item.payload.under = key
  BY <1>1, NewEntry DEF EntryOf, SealItem, Seal
<1> HIDE DEF e
<1>3. Sound(WithEntry(session, i, e))
  BY <1>2, EntrySound DEF Inv
<1>4. /\ Apart(WithEntry(session, i, e), WithEntry(session, i, e))
      /\ Apart(WithEntry(session, i, e), stored)
  <2> DEFINE x == [id |-> i, payload |-> e.item.payload]
  <2>1. \A a \in Items(WithEntry(session, i, e)) : a \in Items(session) \/ a = x
    BY EntryItems DEF Inv
  <2>2. x.payload.under \notin ItemKeys(session) \cup ItemKeys(stored)
    BY <1>1, <1>2
  <2> QED
    BY <2>1, <2>2, StaysApart DEF Inv
<1> QED
  BY <1>3, <1>4, CommitInv DEF e

LEMMA NoteStep ==
    ASSUME Inv, session # Locked, NEW i \in NoteIds, NEW text \in Texts, NEW key \in Fresh,
           Commit(WithNote(session, i, SealItem(key, text)))
    PROVE  Stays
<1> DEFINE n == SealItem(key, text)
<1>1. key \in Keys /\ key \notin ItemKeys(session) \cup ItemKeys(stored)
  BY DEF Fresh
<1>2. n \in Sealed(Texts) /\ n # Absent /\ Intact(n) /\ n.payload.under = key
  BY <1>1, NewNote DEF SealItem, Seal
<1> HIDE DEF n
<1>3. Sound(WithNote(session, i, n))
  BY <1>2, NoteSound DEF Inv
<1>4. /\ Apart(WithNote(session, i, n), WithNote(session, i, n))
      /\ Apart(WithNote(session, i, n), stored)
  <2> DEFINE x == [id |-> i, payload |-> n.payload]
  <2>1. \A a \in Items(WithNote(session, i, n)) : a \in Items(session) \/ a = x
    BY NoteItems DEF Inv
  <2>2. x.payload.under \notin ItemKeys(session) \cup ItemKeys(stored)
    BY <1>1, <1>2
  <2> QED
    BY <2>1, <2>2, StaysApart DEF Inv
<1> QED
  BY <1>3, <1>4, CommitInv DEF n

\* A sound vault opens, entry by entry and note by note.
LEMMA EntryOpens ==
    ASSUME NEW v, Sound(v), NEW i \in EntryIds, v.entries[i] # Absent
    PROVE  /\ v.entries[i] \in Entries
           /\ OpenItem(v.entries[i].item) = v.entries[i].item.payload.text
           /\ v.entries[i].item.payload.text \in EntryTexts
           /\ OpenItem(v.entries[i].item) # Corrupt
<1>1. v.entries[i] \in Entries /\ Intact(v.entries[i].item)
  BY DEF Sound, Vault
<1>2. /\ v.entries[i].item.payload.under \in Keys
      /\ v.entries[i].item.payload.text \in EntryTexts
  BY <1>1 DEF Entries, Sealed
<1>3. OpenItem(v.entries[i].item) = v.entries[i].item.payload.text
  BY <1>1, <1>2, ContentsAssumption DEF OpenItem, Unseal, Intact, Seal
<1> QED
  BY <1>1, <1>2, <1>3, ContentsAssumption

LEMMA NoteOpens ==
    ASSUME NEW v, Sound(v), NEW i \in NoteIds, v.notes[i] # Absent
    PROVE  /\ OpenItem(v.notes[i]) = v.notes[i].payload.text
           /\ OpenItem(v.notes[i]) \in Texts
<1>1. v.notes[i] \in Sealed(Texts) /\ Intact(v.notes[i])
  BY DEF Sound, Vault
<1>2. v.notes[i].payload.under \in Keys /\ v.notes[i].payload.text \in Texts
  BY <1>1 DEF Sealed
<1> QED
  BY <1>1, <1>2, ContentsAssumption DEF OpenItem, Unseal, Intact, Seal

\* The other commands: a flag, one item less, settings, a master key.
LEMMA ToggleStep ==
    ASSUME Inv, session # Locked, NEW i \in EntryIds, ToggleFavorite(i)
    PROVE  Stays
<1> DEFINE e == [session.entries[i] EXCEPT !.fav = ~session.entries[i].fav]
           u == [session EXCEPT !.entries[i].fav = ~session.entries[i].fav]
<1>1. session.entries[i] \in Entries /\ Intact(session.entries[i].item)
  BY DEF Inv, Sound, Vault, ToggleFavorite
<1>2. e \in Entries /\ e.item = session.entries[i].item
  BY <1>1 DEF Entries
<1>3. u = WithEntry(session, i, e)
  BY DEF WithEntry
<1> HIDE DEF e, u
<1>4. Sound(u)
  BY <1>1, <1>2, <1>3, EntrySound DEF Inv
<1>5. Items(u) \subseteq Items(session)
  <2>1. [id |-> i, payload |-> session.entries[i].item.payload] \in Items(session)
    BY DEF Items, ToggleFavorite
  <2> QED
    BY <2>1, <1>2, <1>3, EntryItems DEF Inv
<1>6. Apart(u, u) /\ Apart(u, stored)
  BY <1>5, FewerApart DEF Inv
<1>7. Commit(u)
  BY DEF ToggleFavorite, u
<1> QED
  BY <1>4, <1>6, <1>7, CommitInv

LEMMA DeleteEntryStep ==
    ASSUME Inv, session # Locked, NEW i \in EntryIds, DeleteEntry(i)
    PROVE  Stays
<1> DEFINE u == WithEntry(session, i, Absent)
<1>1. Sound(u)
  BY EntrySound DEF Inv
<1>2. Apart(u, u) /\ Apart(u, stored)
  BY EntryItems, FewerApart DEF Inv
<1>3. Commit(u)
  BY DEF DeleteEntry, WithEntry
<1> QED
  BY <1>1, <1>2, <1>3, CommitInv

LEMMA DeleteNoteStep ==
    ASSUME Inv, session # Locked, NEW i \in NoteIds, DeleteNote(i)
    PROVE  Stays
<1> DEFINE u == WithNote(session, i, Absent)
<1>1. Sound(u)
  BY NoteSound DEF Inv
<1>2. Apart(u, u) /\ Apart(u, stored)
  BY NoteItems, FewerApart DEF Inv
<1>3. Commit(u)
  BY DEF DeleteNote, WithNote
<1> QED
  BY <1>1, <1>2, <1>3, CommitInv

LEMMA OtherStep ==
    ASSUME Inv, session # Locked, NEW u, Commit(u), Sound(u),
           u.entries = session.entries, u.notes = session.notes
    PROVE  Stays
<1>1. Items(u) = Items(session)
  BY DEF Items
<1> QED
  BY <1>1, FewerApart, CommitInv DEF Inv

LEMMA SettingsStep ==
    ASSUME Inv, session # Locked, NEW v \in Settings, SaveSettings(v)
    PROVE  Stays
<1> DEFINE u == [session EXCEPT !.settings = Seal(SettingsKey, v)]
<1>1. Sound(u) /\ u.entries = session.entries /\ u.notes = session.notes
  BY DEF Inv, Sound, Vault, Seal, SettingsKey, AllKeys
<1>2. Commit(u)
  BY DEF SaveSettings
<1> QED
  BY <1>1, <1>2, OtherStep

LEMMA PasswordStep ==
    ASSUME Inv, session # Locked, ChangeMasterPassword
    PROVE  Stays
<1>1. Sound(session)
  BY DEF Inv
<1>2. Commit(session)
  BY DEF ChangeMasterPassword
<1> QED
  BY <1>1, <1>2, OtherStep

\* The password a rewrite seals: a new one, or the one the entry has.
LEMMA RewriteStep ==
    ASSUME Inv, session # Locked, NEW i \in EntryIds, NEW text \in Texts,
           NEW password \in Passwords, NEW fav \in BOOLEAN, Rewrite(i, text, password, fav)
    PROVE  Stays
BY EntryStep DEF Rewrite, WithEntry, EntryOf

LEMMA OldPassword ==
    ASSUME NEW v, Sound(v), NEW i \in EntryIds, v.entries[i] # Absent
    PROVE  /\ EntryPassword(v, i) = v.entries[i].item.payload.text.password
           /\ EntryPassword(v, i) \in Passwords
BY EntryOpens DEF EntryPassword, EntryTexts

\* Every command keeps the invariant.
LEMMA AddStays ==
    ASSUME Inv, session # Locked, NEW i \in EntryIds, NEW text \in Inputs,
           NEW password \in Passwords, NEW fav \in BOOLEAN, AddEntry(i, text, password, fav)
    PROVE  Stays
BY EntryStep DEF AddEntry, Valid, WithEntry, EntryOf

LEMMA UpdateStays ==
    ASSUME Inv, session # Locked, NEW i \in EntryIds, NEW text \in Inputs,
           NEW password \in Passwords, NEW fav \in BOOLEAN, UpdateEntry(i, text, password, fav)
    PROVE  Stays
BY RewriteStep DEF UpdateEntry, Valid

LEMMA KeepStays ==
    ASSUME Inv, session # Locked, NEW i \in EntryIds, NEW text \in Inputs,
           NEW password \in Passwords, NEW fav \in BOOLEAN,
           UpdateEntryKeepPassword(i, text, password, fav)
    PROVE  Stays
<1>1. EntryPassword(session, i) \in Passwords
  BY OldPassword DEF Inv, UpdateEntryKeepPassword
<1> QED
  BY <1>1, RewriteStep DEF UpdateEntryKeepPassword, Valid

LEMMA NoteStays ==
    ASSUME Inv, session # Locked, NoteCommand
    PROVE  Stays
BY NoteStep, DeleteNoteStep
DEF NoteCommand, AddNote, UpdateNote, WriteNote, WithNote, Valid

LEMMA InvNext == Inv /\ [Next]_vars => Inv'
<1> SUFFICES ASSUME Inv, [Next]_vars PROVE Inv'
  OBVIOUS
<1>1. ASSUME session # Locked, EntryCommand
      PROVE  Stays
  BY <1>1, AddStays, UpdateStays, KeepStays, ToggleStep, DeleteEntryStep DEF EntryCommand
<1>2. CASE Lock
  BY <1>2 DEF Lock, Inv
<1>3. CASE Unlock
  BY <1>3 DEF Unlock, Inv
<1>4. CASE UNCHANGED vars
  BY <1>4 DEF vars, Inv
<1> QED
  BY <1>1, NoteStays, SettingsStep, PasswordStep, <1>2, <1>3, <1>4 DEF Next, Stays

LEMMA Invariance == Spec => []Inv
BY InvInit, InvNext, PTL DEF Spec
-----------------------------------------------------------------------------
\* The session and the file hold sealed, valid items.
THEOREM ContentsTypeCorrect == Spec => []TypeOK
<1>1. Inv => TypeOK
  BY DEF Inv, Sound, TypeOK
<1> QED
  BY <1>1, Invariance, PTL

\* After any sequence of edits, failed saves and password changes, every
\* entry and note in memory and in the file opens with the vault key.
THEOREM EverythingAlwaysOpens == Spec => []EverythingOpens
<1>1. ASSUME NEW v, Sound(v)
      PROVE  Listable(v)
  <2>1. ASSUME NEW i \in EntryIds
        PROVE  EntryView(v, i) # Corrupt
    <3>1. CASE v.entries[i] = Absent
      BY <3>1, ContentsAssumption DEF EntryView
    <3>2. CASE v.entries[i] # Absent
      <4>1. EntryView(v, i) = [text |-> v.entries[i].item.payload.text.text,
                               fav |-> v.entries[i].fav]
        BY <1>1, <3>2, EntryOpens DEF EntryView
      <4>2. EntryView(v, i) \in EntryViews
        BY <1>1, <3>2, <4>1, EntryOpens DEF EntryViews, EntryTexts, Entries
      <4> QED
        BY <4>2, ContentsAssumption
    <3> QED
      BY <3>1, <3>2
  <2>2. ASSUME NEW i \in NoteIds
        PROVE  NoteShown(v, i) # Corrupt
    BY <1>1, NoteOpens, ContentsAssumption DEF NoteShown
  <2> QED
    BY <2>1, <2>2 DEF Listable
<1>2. Inv => EverythingOpens
  BY <1>1 DEF Inv, EverythingOpens, Vaults
<1> QED
  BY <1>2, Invariance, PTL

\* No item key ever seals two plaintexts, in the session or in the file.
THEOREM KeysNeverShared == Spec => []OneKeyOnePlaintext
<1>1. Inv => OneKeyOnePlaintext
  BY DEF Inv, Apart, OneKeyOnePlaintext, Vaults
<1> QED
  BY <1>1, Invariance, PTL
-----------------------------------------------------------------------------
(* VaultContents implements VaultMap: when every blob opens, what is shown *)
(* of a vault is what was put there, and each command changes one item.    *)

\* What was sealed, in clear.
PlainEntry(e) ==
    IF e = Absent THEN Absent
    ELSE [text |-> e.item.payload.text.text, password |-> e.item.payload.text.password,
          fav |-> e.fav]
PlainNote(n) == IF n = Absent THEN Absent ELSE n.payload.text
Plain(v) == [entries |-> [i \in EntryIds |-> PlainEntry(v.entries[i])],
             notes |-> [i \in NoteIds |-> PlainNote(v.notes[i])],
             settings |-> v.settings.text]

\* A sound vault shows what was sealed in it.
LEMMA ShowsPlain ==
    ASSUME NEW v, Sound(v)
    PROVE  Shown(v) = Plain(v) /\ Plain(v) \in ShownVaults
<1>1. ASSUME NEW i \in EntryIds
      PROVE  /\ EntryShown(v, i) = Plain(v).entries[i]
             /\ Plain(v).entries[i] \in ShownEntries \cup {Absent}
  <2>1. CASE v.entries[i] = Absent
    BY <2>1 DEF EntryShown, EntryView, Plain, PlainEntry
  <2>2. CASE v.entries[i] # Absent
    <3> DEFINE view == [text |-> v.entries[i].item.payload.text.text,
                        fav |-> v.entries[i].fav]
    <3>1. EntryView(v, i) = view
      BY <2>2, EntryOpens DEF EntryView
    <3>2. view \in EntryViews
      BY <2>2, EntryOpens DEF EntryViews, EntryTexts, Entries
    <3>3. view \notin {Absent, Corrupt}
      BY <3>2, ContentsAssumption
    <3>4. Plain(v).entries[i] = PlainEntry(v.entries[i])
      BY <2>2 DEF Plain
    <3>5. EntryShown(v, i) = PlainEntry(v.entries[i])
      BY <3>1, <3>3, <2>2, OldPassword DEF EntryShown, PlainEntry
    <3>6. PlainEntry(v.entries[i]) \in ShownEntries
      BY <2>2, EntryOpens DEF PlainEntry, ShownEntries, EntryTexts, Entries
    <3> QED
      BY <3>4, <3>5, <3>6
  <2> QED
    BY <2>1, <2>2
<1>2. ASSUME NEW i \in NoteIds
      PROVE  /\ NoteShown(v, i) = Plain(v).notes[i]
             /\ Plain(v).notes[i] \in Texts \cup {Absent}
  BY NoteOpens DEF NoteShown, Plain, PlainNote
<1>3. ReadSettings(v) = v.settings.text /\ v.settings.text \in Settings
  BY ContentsAssumption DEF Sound, Vault, ReadSettings, Unseal
<1>4. Shown(v) = Plain(v)
  BY <1>1, <1>2, <1>3 DEF Shown, Plain
<1>5. Plain(v) \in ShownVaults
  BY <1>1, <1>2, <1>3 DEF Plain, ShownVaults
<1> QED
  BY <1>4, <1>5

LEMMA MapNow ==
    ASSUME Inv
    PROVE  /\ session # Locked => (IF session = Locked THEN Locked ELSE Shown(session)) = Plain(session)
           /\ Shown(stored) = Plain(stored)
BY ShowsPlain DEF Inv

\* A command that makes the map p of the vault commits p.
LEMMA Commits ==
    ASSUME Inv, session # Locked, Stays, NEW u, Commit(u), NEW p, Plain(u) = p
    PROVE  Map!Commit(p)
<1>1. /\ session' = u /\ (stored' = u \/ stored' = stored)
      /\ u # Locked /\ Sound(u)
  BY DEF Commit, Stays, Inv
<1>2. Shown(u) = p
  BY <1>1, ShowsPlain
<1>3. Shown(stored') = p \/ Shown(stored') = Shown(stored)
  BY <1>1, <1>2
<1>4. session' # Locked /\ Shown(session') = p
  BY <1>1, <1>2
<1> QED
  BY <1>3, <1>4 DEF Map!Commit

\* The maps a command makes.
LEMMA PlainWithEntry ==
    ASSUME NEW v, NEW i \in EntryIds, Sound(v), NEW e
    PROVE  Plain(WithEntry(v, i, e)) =
              [Plain(v) EXCEPT !.entries[i] = PlainEntry(e)]
<1> DEFINE u == WithEntry(v, i, e)
<1>1. /\ u.notes = v.notes /\ u.settings = v.settings
      /\ \A j \in EntryIds : u.entries[j] = IF j = i THEN e ELSE v.entries[j]
  BY DEF Sound, Vault, WithEntry
<1> HIDE DEF u
<1>2. [j \in EntryIds |-> PlainEntry(u.entries[j])]
         = [[j \in EntryIds |-> PlainEntry(v.entries[j])] EXCEPT ![i] = PlainEntry(e)]
  BY <1>1
<1>3. Plain(u) = [entries |-> [Plain(v).entries EXCEPT ![i] = PlainEntry(e)],
                 notes |-> Plain(v).notes, settings |-> Plain(v).settings]
  BY <1>1, <1>2 DEF Plain
<1>4. Plain(v) = [entries |-> Plain(v).entries,
                 notes |-> Plain(v).notes, settings |-> Plain(v).settings]
  BY DEF Plain
<1> QED
  BY <1>3, <1>4 DEF u

LEMMA PlainWithNote ==
    ASSUME NEW v, NEW i \in NoteIds, Sound(v), NEW n
    PROVE  Plain(WithNote(v, i, n)) =
              [Plain(v) EXCEPT !.notes[i] = PlainNote(n)]
<1> DEFINE u == WithNote(v, i, n)
<1>1. /\ u.entries = v.entries /\ u.settings = v.settings
      /\ \A j \in NoteIds : u.notes[j] = IF j = i THEN n ELSE v.notes[j]
  BY DEF Sound, Vault, WithNote
<1> HIDE DEF u
<1>2. [j \in NoteIds |-> PlainNote(u.notes[j])]
         = [[j \in NoteIds |-> PlainNote(v.notes[j])] EXCEPT ![i] = PlainNote(n)]
  BY <1>1
<1>3. Plain(u) = [entries |-> Plain(v).entries,
                 notes |-> [Plain(v).notes EXCEPT ![i] = PlainNote(n)], settings |-> Plain(v).settings]
  BY <1>1, <1>2 DEF Plain
<1>4. Plain(v) = [entries |-> Plain(v).entries,
                 notes |-> Plain(v).notes, settings |-> Plain(v).settings]
  BY DEF Plain
<1> QED
  BY <1>3, <1>4 DEF u

\* A command on an entry maps to the change of that entry.
LEMMA AddMaps ==
    ASSUME Inv, session # Locked, NEW i \in EntryIds, NEW text \in Inputs,
           NEW password \in Passwords, NEW fav \in BOOLEAN, AddEntry(i, text, password, fav)
    PROVE  text \in Texts /\ Map!AddEntry(i, text, password, fav)
<1>1. PICK key \in Fresh : Commit(WithEntry(session, i, EntryOf(key, text, password, fav)))
  BY DEF AddEntry, WithEntry, EntryOf
<1>2. text \in Texts /\ key \in Keys
  BY DEF AddEntry, Valid, Fresh
<1>3. PlainEntry(EntryOf(key, text, password, fav))
         = [text |-> text, password |-> password, fav |-> fav]
  BY <1>2, NewEntry DEF PlainEntry, EntryOf, SealItem, Seal
<1>4. Map!Commit([Plain(session) EXCEPT !.entries[i] =
         [text |-> text, password |-> password, fav |-> fav]])
  BY <1>1, <1>3, AddStays, PlainWithEntry, Commits DEF Inv
<1>5. Plain(session).entries[i] = Absent
  BY DEF AddEntry, Plain, PlainEntry
<1> QED
  BY <1>2, <1>4, <1>5, ShowsPlain DEF Inv, Map!AddEntry

\* Both updates end in a rewrite, with the new password or the old one.
LEMMA RewriteMaps ==
    ASSUME Inv, session # Locked, NEW i \in EntryIds, session.entries[i] # Absent,
           NEW text \in Texts, NEW password \in Passwords, NEW fav \in BOOLEAN,
           Rewrite(i, text, password, fav)
    PROVE  /\ Map!Commit([Plain(session) EXCEPT !.entries[i] =
                  [text |-> text, password |-> password, fav |-> fav]])
           /\ Plain(session).entries[i] # Absent
           /\ EntryPassword(session, i) = Plain(session).entries[i].password
<1>1. PICK key \in Fresh : Commit(WithEntry(session, i, EntryOf(key, text, password, fav)))
  BY DEF Rewrite, WithEntry, EntryOf
<1>2. key \in Keys
  BY DEF Fresh
<1>3. PlainEntry(EntryOf(key, text, password, fav))
         = [text |-> text, password |-> password, fav |-> fav]
  BY <1>2, NewEntry DEF PlainEntry, EntryOf, SealItem, Seal
<1>4. Map!Commit([Plain(session) EXCEPT !.entries[i] =
         [text |-> text, password |-> password, fav |-> fav]])
  <2>1. Stays
    BY RewriteStep
  <2>2. Plain(WithEntry(session, i, EntryOf(key, text, password, fav)))
           = [Plain(session) EXCEPT !.entries[i] =
                 [text |-> text, password |-> password, fav |-> fav]]
    BY <1>3, PlainWithEntry DEF Inv
  <2> QED
    BY <1>1, <2>1, <2>2, Commits
<1>5. Plain(session).entries[i] = PlainEntry(session.entries[i])
  BY DEF Plain
<1>6. PlainEntry(session.entries[i]) \in ShownEntries
  BY EntryOpens DEF Inv, PlainEntry, ShownEntries, EntryTexts, Entries
<1>7. EntryPassword(session, i) = PlainEntry(session.entries[i]).password
  BY OldPassword DEF Inv, PlainEntry
<1> QED
  BY <1>4, <1>5, <1>6, <1>7, ContentsAssumption

LEMMA UpdateMaps ==
    ASSUME Inv, session # Locked, NEW i \in EntryIds, NEW text \in Inputs,
           NEW password \in Passwords, NEW fav \in BOOLEAN, UpdateEntry(i, text, password, fav)
    PROVE  text \in Texts /\ Map!EditEntry(i, text, password, fav)
<1>1. /\ text \in Texts /\ password # Empty
      /\ session.entries[i] # Absent /\ Rewrite(i, text, password, fav)
  BY DEF UpdateEntry, Valid
<1> QED
  BY <1>1, RewriteMaps, ShowsPlain DEF Inv, Map!EditEntry

LEMMA KeepMaps ==
    ASSUME Inv, session # Locked, NEW i \in EntryIds, NEW text \in Inputs,
           NEW password \in Passwords, NEW fav \in BOOLEAN,
           UpdateEntryKeepPassword(i, text, password, fav)
    PROVE  text \in Texts /\ Map!EditEntry(i, text, password, fav)
<1>1. text \in Texts /\ session.entries[i] # Absent
  BY DEF UpdateEntryKeepPassword, Valid
<1>2. EntryPassword(session, i) \in Passwords
  BY <1>1, OldPassword DEF Inv
<1>3. CASE password # Empty
  <2>1. Rewrite(i, text, password, fav)
    BY <1>3 DEF UpdateEntryKeepPassword
  <2> QED
    BY <1>1, <1>3, <2>1, RewriteMaps, ShowsPlain DEF Inv, Map!EditEntry
<1>4. CASE password = Empty
  <2>1. Rewrite(i, text, EntryPassword(session, i), fav)
    BY <1>4 DEF UpdateEntryKeepPassword
  <2> DEFINE old == EntryPassword(session, i)
  <2> HIDE DEF old
  <2>2. /\ Map!Commit([Plain(session) EXCEPT !.entries[i] =
                 [text |-> text, password |-> old, fav |-> fav]])
        /\ Plain(session).entries[i] # Absent
        /\ old = Plain(session).entries[i].password
    <3>1. old \in Passwords /\ Rewrite(i, text, old, fav)
      BY <1>2, <2>1 DEF old
    <3>2. /\ Map!Commit([Plain(session) EXCEPT !.entries[i] =
                   [text |-> text, password |-> old, fav |-> fav]])
          /\ Plain(session).entries[i] # Absent
          /\ EntryPassword(session, i) = Plain(session).entries[i].password
      BY <1>1, <3>1, RewriteMaps
    <3> QED
      BY <3>2 DEF old
  <2>3. Map!Commit([Plain(session) EXCEPT !.entries[i] =
           [text |-> text, password |-> Plain(session).entries[i].password, fav |-> fav]])
    BY <2>2
  <2>4. [text |-> text, password |-> Plain(session).entries[i].password, fav |-> fav]
           = [text |-> text, fav |-> fav,
              password |-> IF password = Empty THEN Plain(session).entries[i].password
                           ELSE password]
    BY <1>4
  <2>5. Shown(session) = Plain(session)
    BY ShowsPlain DEF Inv
  <2> QED
    BY <1>1, <2>2, <2>3, <2>4, <2>5 DEF Map!EditEntry
<1> QED
  BY <1>3, <1>4

LEMMA ToggleMaps ==
    ASSUME Inv, session # Locked, NEW i \in EntryIds, ToggleFavorite(i)
    PROVE  Map!Toggle(i)
<1> DEFINE e == [session.entries[i] EXCEPT !.fav = ~session.entries[i].fav]
<1>1. session.entries[i] \in Entries /\ session.entries[i] # Absent
  BY EntryOpens DEF Inv, ToggleFavorite
<1>2. Commit(WithEntry(session, i, e))
  BY DEF ToggleFavorite, WithEntry
<1>3. e \in Entries /\ e.item = session.entries[i].item /\ e.fav = ~session.entries[i].fav
  BY <1>1 DEF Entries
<1>4. e # Absent
  BY <1>3, ContentsAssumption
<1> HIDE DEF e
<1>5. Plain(session).entries[i] = PlainEntry(session.entries[i])
  BY DEF Plain
<1>6. /\ PlainEntry(e) = [PlainEntry(session.entries[i]) EXCEPT
                            !.fav = ~PlainEntry(session.entries[i]).fav]
      /\ PlainEntry(session.entries[i]) \in ShownEntries
  BY <1>1, <1>3, <1>4, EntryOpens DEF Inv, PlainEntry, ShownEntries, EntryTexts, Entries
<1>7. Plain(WithEntry(session, i, e))
         = [Plain(session) EXCEPT !.entries[i] = PlainEntry(e)]
  BY PlainWithEntry DEF Inv
<1>8. [Plain(session) EXCEPT !.entries[i].fav = ~Plain(session).entries[i].fav]
         = [Plain(session) EXCEPT !.entries[i] = PlainEntry(e)]
  BY <1>5, <1>6
<1> QED
  BY <1>2, <1>5, <1>6, <1>7, <1>8, ToggleStep, ShowsPlain, Commits, ContentsAssumption
  DEF Inv, Map!Toggle

LEMMA DeleteEntryMaps ==
    ASSUME Inv, session # Locked, NEW i \in EntryIds, DeleteEntry(i)
    PROVE  Map!DeleteEntry(i)
<1>1. Commit(WithEntry(session, i, Absent)) /\ session.entries[i] # Absent
  BY DEF DeleteEntry, WithEntry
<1>2. Plain(session).entries[i] = PlainEntry(session.entries[i])
  BY DEF Plain
<1>3. PlainEntry(session.entries[i]) \in ShownEntries
  BY <1>1, EntryOpens DEF Inv, PlainEntry, ShownEntries, EntryTexts, Entries
<1>4. Map!Commit([Plain(session) EXCEPT !.entries[i] = Absent])
  BY <1>1, DeleteEntryStep, PlainWithEntry, Commits DEF Inv, PlainEntry
<1> QED
  BY <1>2, <1>3, <1>4, ShowsPlain, ContentsAssumption DEF Inv, Map!DeleteEntry

LEMMA NoteMaps ==
    ASSUME Inv, session # Locked, NEW i \in NoteIds, NEW text \in Inputs,
           AddNote(i, text) \/ UpdateNote(i, text)
    PROVE  text \in Texts /\ Map!PutNote(i, text)
<1>1. PICK key \in Fresh : Commit(WithNote(session, i, SealItem(key, text)))
  BY DEF AddNote, UpdateNote, WriteNote, WithNote
<1>2. text \in Texts /\ key \in Keys
  BY DEF AddNote, UpdateNote, Valid, Fresh
<1>3. PlainNote(SealItem(key, text)) = text
  BY <1>2, NewNote DEF PlainNote, SealItem, Seal
<1>4. Stays
  BY <1>1, <1>2, NoteStep
<1>5. Plain(WithNote(session, i, SealItem(key, text)))
         = [Plain(session) EXCEPT !.notes[i] = text]
  BY <1>3, PlainWithNote DEF Inv
<1>6. Map!Commit([Plain(session) EXCEPT !.notes[i] = text])
  BY <1>1, <1>4, <1>5, Commits
<1> QED
  BY <1>2, <1>6, ShowsPlain DEF Inv, Map!PutNote

LEMMA DeleteNoteMaps ==
    ASSUME Inv, session # Locked, NEW i \in NoteIds, DeleteNote(i)
    PROVE  Map!DeleteNote(i)
<1>1. Commit(WithNote(session, i, Absent)) /\ session.notes[i] # Absent
  BY DEF DeleteNote, WithNote
<1>2. Plain(session).notes[i] # Absent
  BY <1>1, NoteOpens, ContentsAssumption DEF Inv, Plain, PlainNote
<1>3. Plain(WithNote(session, i, Absent)) = [Plain(session) EXCEPT !.notes[i] = Absent]
  BY PlainWithNote DEF Inv, PlainNote
<1>4. Map!Commit([Plain(session) EXCEPT !.notes[i] = Absent])
  BY <1>1, <1>3, DeleteNoteStep, Commits
<1> QED
  BY <1>2, <1>4, ShowsPlain DEF Inv, Map!DeleteNote

LEMMA SettingsMaps ==
    ASSUME Inv, session # Locked, NEW v \in Settings, SaveSettings(v)
    PROVE  Map!PutSettings(v)
<1> DEFINE u == [session EXCEPT !.settings = Seal(SettingsKey, v)]
<1>1. Commit(u)
  BY DEF SaveSettings
<1>2. u.entries = session.entries /\ u.notes = session.notes /\ u.settings.text = v
  BY DEF Inv, Sound, Vault, Seal
<1> HIDE DEF u
<1>3. Plain(u) = [Plain(session) EXCEPT !.settings = v]
  <2>1. Plain(u) = [entries |-> Plain(session).entries, notes |-> Plain(session).notes,
                    settings |-> v]
    BY <1>2 DEF Plain
  <2>2. Plain(session) = [entries |-> Plain(session).entries,
                          notes |-> Plain(session).notes,
                          settings |-> Plain(session).settings]
    BY DEF Plain
  <2> QED
    BY <2>1, <2>2
<1>4. Map!Commit([Plain(session) EXCEPT !.settings = v])
  BY <1>1, <1>3, SettingsStep, Commits
<1> QED
  BY <1>4, ShowsPlain DEF Inv, Map!PutSettings

LEMMA PasswordMaps ==
    ASSUME Inv, session # Locked, ChangeMasterPassword
    PROVE  Map!Resave
<1>1. Map!Commit(Plain(session))
  BY PasswordStep, Commits DEF ChangeMasterPassword
<1> QED
  BY <1>1, ShowsPlain DEF Inv, Map!Resave

LEMMA MapInit == Init => Map!Init
<1> SUFFICES ASSUME Init PROVE Map!Init
  OBVIOUS
<1>1. stored = Created
  BY DEF Init
<1>2. Shown(stored) = Plain(stored)
  BY InvInit, ShowsPlain DEF Inv
<1>3. Plain(Created) = Map!New(DefaultSettings)
  BY DEF Plain, PlainEntry, PlainNote, Created, Seal, Map!New
<1> QED
  BY <1>1, <1>2, <1>3, ContentsAssumption DEF Init, Map!Init

LEMMA MapNext == Inv /\ [Next]_vars => [Map!Next]_(Map!vars)
<1> SUFFICES ASSUME Inv, [Next]_vars PROVE Map!Next \/ UNCHANGED Map!vars
  OBVIOUS
<1>1. ASSUME session # Locked
      PROVE  (IF session = Locked THEN Locked ELSE Shown(session)) # Locked
  BY <1>1, ShowsPlain, ContentsAssumption DEF Inv
<1>2. ASSUME session # Locked, EntryCommand
      PROVE  Map!Change
  BY <1>2, AddMaps, UpdateMaps, KeepMaps, ToggleMaps, DeleteEntryMaps
  DEF EntryCommand, Map!Change
<1>3. ASSUME session # Locked, NoteCommand
      PROVE  Map!Change
  BY <1>3, NoteMaps, DeleteNoteMaps DEF NoteCommand, Map!Change
<1>4. ASSUME session # Locked, NEW v \in Settings, SaveSettings(v)
      PROVE  Map!Change
  BY <1>4, SettingsMaps DEF Map!Change
<1>5. ASSUME session # Locked, ChangeMasterPassword
      PROVE  Map!Change
  BY <1>5, PasswordMaps DEF Map!Change
<1>6. CASE Lock
  BY <1>6 DEF Lock, Map!Next, Map!Lock
<1>7. CASE Unlock
  BY <1>7, ContentsAssumption DEF Unlock, Inv, Sound, Map!Next, Map!Unlock
<1>8. CASE UNCHANGED vars
  BY <1>8 DEF vars, Map!vars
<1> QED
  BY <1>1, <1>2, <1>3, <1>4, <1>5, <1>6, <1>7, <1>8 DEF Next, Map!Next

\* The vault is the map of what was put into it, through every key drawn,
\* every re-encryption, failed save, password change and lock.
THEOREM ContentsKeepMap == Spec => MapKept
BY MapInit, MapNext, Invariance, PTL DEF Spec, MapKept, Map!Spec
=============================================================================
