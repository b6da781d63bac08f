--------------------------- MODULE VaultContents ---------------------------
(***************************************************************************)
(* What an open vault holds and what its commands do to it: entries        *)
(* (vault/entry.rs, commands/entries.rs), notes (vault/notes.rs,           *)
(* commands/notes.rs) and settings (commands/settings.rs), each item       *)
(* sealed under a random key of its own, which is sealed under the vault   *)
(* key.  A command runs under the write lock from its lookup to the end of *)
(* the save (with_session_mut), so here it is one step; VaultSession has   *)
(* the steps, and the contents as opaque changes.                          *)
(*                                                                         *)
(* An AES-GCM blob is what it opens with and what it opens to.  The vector *)
(* of items is a function of their ids, which are unique; its order is     *)
(* never looked at.  `text' stands for the other fields of a payload, and  *)
(* `fav' for all optional plain metadata.  A refused input changes         *)
(* nothing and is a stutter.                                               *)
(***************************************************************************)
EXTENDS Naturals, FiniteSets

CONSTANTS EntryIds, NoteIds,   \* the UUIDs that may be drawn (bounds)
          Keys,                \* the item keys that may be drawn (a bound)
          VaultKey,            \* the vault key
          Texts, Invalid,      \* valid texts, and one validation refuses
          Passwords, Empty,    \* entry passwords; the empty one
          Settings, DefaultSettings,
          Absent, Locked, Corrupt

VARIABLES session,   \* key store and vault data, or Locked
          stored     \* the same, as the vault file has it

vars == <<session, stored>>
-----------------------------------------------------------------------------
(* Encryption, by what it does (crypto/aes.rs).                            *)

AllKeys == Keys \cup {VaultKey}

\* encrypt, wrap_key; and decrypt, unwrap_key: CryptoError is Corrupt.
Seal(key, text) == [under |-> key, text |-> text]
Unseal(key, blob) == IF blob.under = key THEN blob.text ELSE Corrupt

\* The payloads of entries (EntryPayload) and notes (NotePayload).
EntryTexts == [text: Texts, password: Passwords]
Sealed(T) == [wrapped: [under: AllKeys, text: Keys], payload: [under: Keys, text: T]]

\* EncryptedEntry, EncryptedNote; what is drawn for one is `key'.
SealItem(key, text) == [wrapped |-> Seal(VaultKey, key), payload |-> Seal(key, text)]
OpenItem(item) == LET key == Unseal(VaultKey, item.wrapped)
               IN IF key = Corrupt THEN Corrupt ELSE Unseal(key, item.payload)

Entries == [fav: BOOLEAN, item: Sealed(EntryTexts)]
Vault == [entries: [EntryIds -> Entries \cup {Absent}],
          notes: [NoteIds -> Sealed(Texts) \cup {Absent}],
          settings: [under: AllKeys, text: Settings]]

\* What is shown of an entry in a list, of an entry, and of a vault.
EntryViews == [text: Texts, fav: BOOLEAN]
ShownEntries == [text: Texts, password: Passwords, fav: BOOLEAN]
ShownVaults == [entries: [EntryIds -> ShownEntries \cup {Absent}],
                notes: [NoteIds -> Texts \cup {Absent}], settings: Settings]

ASSUME ContentsAssumption ==
    /\ EntryIds \cap NoteIds = {}
    /\ Empty \in Passwords /\ DefaultSettings \in Settings
    /\ VaultKey \notin Keys
    /\ Invalid \notin Texts
    /\ Absent \notin Entries \cup Sealed(Texts) \cup Texts \cup EntryViews \cup ShownEntries
    /\ Locked \notin Vault \cup ShownVaults
    /\ Corrupt \notin Keys \cup EntryTexts \cup Texts \cup Settings \cup EntryViews \cup {Absent}

\* The key settings are sealed under: a subkey of the vault key (and not of
\* the master key, as the comment in format.rs line 129 has it).
SettingsKey == VaultKey

\* The sealed items of a vault, and their keys: a key drawn at random is
\* none of those in use.
Items(v) ==
    {[id |-> i, payload |-> v.entries[i].item.payload] : i \in {j \in EntryIds : v.entries[j] # Absent}}
    \cup {[id |-> i, payload |-> v.notes[i].payload] : i \in {j \in NoteIds : v.notes[j] # Absent}}
ItemKeys(v) == {a.payload.under : a \in Items(v)}
Fresh == Keys \ ((IF session = Locked THEN {} ELSE ItemKeys(session)) \cup ItemKeys(stored))
-----------------------------------------------------------------------------
(* The reads.                                                              *)

\* decrypt_entry: everything but the password.
EntryView(v, i) ==
    IF v.entries[i] = Absent THEN Absent
    ELSE LET p == OpenItem(v.entries[i].item)
         IN IF p = Corrupt THEN Corrupt ELSE [text |-> p.text, fav |-> v.entries[i].fav]

\* get_entry_password: the password and nothing else.
EntryPassword(v, i) ==
    IF v.entries[i] = Absent THEN Absent
    ELSE LET p == OpenItem(v.entries[i].item)
         IN IF p = Corrupt THEN Corrupt ELSE p.password

\* An entry as its owner gets to see it, in two calls.
EntryShown(v, i) ==
    LET view == EntryView(v, i)
    IN IF view \in {Absent, Corrupt} THEN view
       ELSE [text |-> view.text, password |-> EntryPassword(v, i), fav |-> view.fav]

\* decrypt_note and get_note_content.
NoteShown(v, i) == IF v.notes[i] = Absent THEN Absent ELSE OpenItem(v.notes[i])

\* read_settings: what does not open reads as the default, silently.
ReadSettings(v) == LET s == Unseal(SettingsKey, v.settings)
                   IN IF s = Corrupt THEN DefaultSettings ELSE s

\* get_all_entries and get_all_notes: one item that fails fails the list.
Listable(v) == /\ \A i \in EntryIds : EntryView(v, i) # Corrupt
               /\ \A i \in NoteIds : NoteShown(v, i) # Corrupt

\* The map a user sees.
Shown(v) == [entries |-> [i \in EntryIds |-> EntryShown(v, i)],
             notes |-> [i \in NoteIds |-> NoteShown(v, i)],
             settings |-> ReadSettings(v)]
-----------------------------------------------------------------------------
\* create_vault: no items, the default settings.
Created == [entries |-> [i \in EntryIds |-> Absent],
            notes |-> [i \in NoteIds |-> Absent],
            settings |-> Seal(SettingsKey, DefaultSettings)]

Init == session = Locked /\ stored = Created

\* The end of with_session_mut: saved, or PersistFailed with the change kept
\* in the session.
Commit(v) == session' = v /\ stored' \in {v, stored}

\* Mutation: nothing is validated.
ValidNot(text) == TRUE

\* validate_entry_input, validate_note_input.
Valid(text) == text \in Texts
Inputs == Texts \cup {Invalid}

\* add_entry: the password may be empty, the UUID is a new one.
AddEntry(i, text, password, fav) ==
    /\ Valid(text)
    /\ session.entries[i] = Absent
    /\ \E key \in Fresh :
          Commit([session EXCEPT !.entries[i] =
              [fav |-> fav, item |-> SealItem(key, [text |-> text, password |-> password])]])

\* Mutation: the item keeps its key.
RewriteSameKey(i, text, password, fav) ==
    Commit([session EXCEPT !.entries[i] =
        [fav |-> fav, item |-> [wrapped |-> session.entries[i].item.wrapped,
                                payload |-> Seal(session.entries[i].item.payload.under,
                                                 [text |-> text, password |-> password])]]])

\* Mutation: the new key is not wrapped.
RewriteOldWrap(i, text, password, fav) ==
    \E key \in Fresh :
        Commit([session EXCEPT !.entries[i] =
            [fav |-> fav, item |-> [wrapped |-> session.entries[i].item.wrapped,
                                    payload |-> Seal(key, [text |-> text, password |-> password])]]])

\* entry::update_entry after its checks: a new key on every call.
Rewrite(i, text, password, fav) ==
    \E key \in Fresh :
        Commit([session EXCEPT !.entries[i] =
            [fav |-> fav, item |-> SealItem(key, [text |-> text, password |-> password])]])

\* The command update_entry: an empty password is refused.
UpdateEntry(i, text, password, fav) ==
    /\ password # Empty
    /\ Valid(text)
    /\ session.entries[i] # Absent
    /\ Rewrite(i, text, password, fav)

\* Mutation: an empty new password is taken for a password.
UpdateKeepEmpty(i, text, password, fav) ==
    /\ session.entries[i] # Absent
    /\ Valid(text)
    /\ Rewrite(i, text, password, fav)

\* update_entry_keep_password: without a new one (None, or empty) the old
\* one is decrypted and sealed again.
UpdateEntryKeepPassword(i, text, password, fav) ==
    /\ session.entries[i] # Absent
    /\ Valid(text)
    /\ LET old == EntryPassword(session, i)
       IN \/ password # Empty /\ Rewrite(i, text, password, fav)
          \/ password = Empty /\ old # Corrupt /\ Rewrite(i, text, old, fav)

ToggleFavorite(i) ==
    /\ session.entries[i] # Absent
    /\ Commit([session EXCEPT !.entries[i].fav = ~session.entries[i].fav])

DeleteEntry(i) ==
    /\ session.entries[i] # Absent
    /\ Commit([session EXCEPT !.entries[i] = Absent])

\* The end of add_note and of update_note: a new key on every call.
WriteNote(i, text) ==
    \E key \in Fresh : Commit([session EXCEPT !.notes[i] = SealItem(key, text)])

\* save_note without an id: the UUID is a new one.
AddNote(i, text) == Valid(text) /\ session.notes[i] = Absent /\ WriteNote(i, text)

\* save_note with an id.
UpdateNote(i, text) == Valid(text) /\ session.notes[i] # Absent /\ WriteNote(i, text)

DeleteNote(i) ==
    /\ session.notes[i] # Absent
    /\ Commit([session EXCEPT !.notes[i] = Absent])

SaveSettings(v) == Commit([session EXCEPT !.settings = Seal(SettingsKey, v)])

\* change_master_password: the vault key is wrapped anew (VaultSession has the
\* header); the vault data are saved as they are, with what an earlier save
\* failed to store.
ChangeMasterPassword == Commit(session)

\* lock(), and the end of the process.
Lock == session' = Locked /\ UNCHANGED stored

\* load_and_unlock.
Unlock == session' = stored /\ UNCHANGED stored

EntryCommand ==
    \/ \E i \in EntryIds, text \in Inputs, password \in Passwords, fav \in BOOLEAN :
          \/ AddEntry(i, text, password, fav)
          \/ UpdateEntry(i, text, password, fav)
          \/ UpdateEntryKeepPassword(i, text, password, fav)
    \/ \E i \in EntryIds : ToggleFavorite(i) \/ DeleteEntry(i)

NoteCommand ==
    \E i \in NoteIds :
       \/ DeleteNote(i)
       \/ \E text \in Inputs : AddNote(i, text) \/ UpdateNote(i, text)

Next == \/ session # Locked /\ EntryCommand
        \/ session # Locked /\ NoteCommand
        \/ session # Locked /\ \E v \in Settings : SaveSettings(v)
        \/ session # Locked /\ ChangeMasterPassword
        \/ Lock
        \/ Unlock

Spec == Init /\ [][Next]_vars
-----------------------------------------------------------------------------
Vaults == {stored} \cup ({session} \ {Locked})

\* The type invariant: the session and the file hold sealed, valid items.
TypeOK == session \in Vault \cup {Locked} /\ stored \in Vault

\* Every entry and note in memory or in the file opens with the vault key,
\* after any sequence of edits, failed saves and password changes: no list
\* command fails on one bad item (collect::<Result<Vec<_>, _>>,
\* commands/entries.rs line 28).
EverythingOpens == \A v \in Vaults : Listable(v)

\* "KEY ROTATION: Every update generates a fresh Entry Key" (entry.rs line
\* 152): one item key never seals two plaintexts, be it in the session and
\* in the file it could not be saved to.
OneKeyOnePlaintext ==
    \A v, w \in Vaults : \A a \in Items(v), b \in Items(w) :
       a.payload.under = b.payload.under => a = b

Map == INSTANCE VaultMap WITH
          now <- IF session = Locked THEN Locked ELSE Shown(session),
          saved <- Shown(stored)

\* Through all keys and re-encryptions, what the user sees and what the file
\* opens to is what was put there (VaultMap): an edit without a password
\* keeps the password, settings survive a change of the master password,
\* a lock discards exactly what could not be saved.
MapKept == Map!Spec
=============================================================================
