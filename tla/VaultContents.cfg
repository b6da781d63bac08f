\* Two entries and a note, edited through failing saves and re-locks.
SPECIFICATION Spec
CONSTANTS
    EntryIds = {i1, i2}
    NoteIds = {n1}
    Keys = {k1, k2, k3, k4}
    VaultKey = VaultKey
    Texts = {text}
    Invalid = Invalid
    Passwords = {Empty, pw1}
    Empty = Empty
    Settings = {dark, light}
    DefaultSettings = dark
    Absent = Absent
    Locked = Locked
    Corrupt = Corrupt
INVARIANTS TypeOK EverythingOpens OneKeyOnePlaintext
PROPERTY MapKept
SYMMETRY Interchangeable
