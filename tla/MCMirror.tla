------------------------------ MODULE MCMirror ------------------------------
(* Instances of Mirror for TLC.                                            *)
EXTENDS Mirror

CONSTANTS k1, k2

K1 == {k1}
K2 == {k1, k2}

C(code, arg) == Entry(code, arg)

\* Changes of contacts, by every command that makes them.
ContactCommands == {C(UpdateContact, k1), C(RemoveContact, k1), C(ImportContact, k1)}

\* Setters, and queries for what they drop from the cache.
SetterCommands == {C(SetName, NoArg), C(SetChannel, 0), C(AppStart, NoArg),
                   C(GetChannel, 0), C(GetBattery, NoArg)}

AllCommands == ContactCommands \cup SetterCommands

\* Lists, whole and since a time; a removal makes the cache empty again.
ListCommands == {C(GetContacts, NoArg), C(GetContacts, 1), C(RemoveContact, k1)}
=============================================================================
