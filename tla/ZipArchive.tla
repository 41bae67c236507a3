----------------------------- MODULE ZipArchive -----------------------------
(* Archives and their handles (src/storage/ZipArchive.cpp).  A path is the   *)
(* name of an archive with a number of ".tmp" appended, an archive the set   *)
(* of its entries.  The zip library is modelled from how it is used: what is *)
(* being written is no archive before its handle is closed, and closing may  *)
(* fail without anybody being told.                                          *)
EXTENDS Integers, FiniteSets, Functions

CONSTANTS Object,       \* the ZipArchive objects of the application
          Entry,        \* the files that are put into archives
          Handle,       \* the handles of the library
          Null,         \* no handle, no path
          MaxTmp        \* bound on the number of ".tmp"

ZipConstants == Null \notin Handle /\ Null \notin Nat /\ MaxTmp \in Nat

VARIABLES path, zip,    \* the members of each object
          opened,       \* the handles in use: mode, path, entries
          disk          \* what is at each path

vars == <<path, zip, opened, disk>>

Paths == 0 .. MaxTmp
File  == [is : {"missing", "broken", "archive"}, has : SUBSET Entry]

Missing    == [is |-> "missing", has |-> {}]
Broken     == [is |-> "broken", has |-> {}]
Archive(s) == [is |-> "archive", has |-> s]

TypeOK == /\ path \in [Object -> Paths \cup {Null}]
          /\ zip \in [Object -> Handle \cup {Null}]
          /\ DOMAIN opened \subseteq Handle
          /\ \A h \in DOMAIN opened :
                opened[h] \in [mode : {"r", "w", "a"}, at : Paths, has : SUBSET Entry]
          /\ disk \in [Paths -> File]

\* There is an archive, and no object yet.
Init == /\ path = [o \in Object |-> Null]
        /\ zip = [o \in Object |-> Null]
        /\ opened = << >>
        /\ disk = [p \in Paths |-> IF p = 0 THEN Archive({}) ELSE Missing]

---------------------------------------------------------------------------
(* The zip library                                                           *)

Users(p)   == {h \in DOMAIN opened : opened[h].at = p}
Writers(p) == {h \in Users(p) : opened[h].mode # "r"}

\* What may be at each path after the handle h was closed, Null meaning none.
Closed(h) == IF h \notin DOMAIN opened \/ opened[h].mode = "r"
             THEN {disk}
             ELSE {[disk EXCEPT ![opened[h].at] = f] : f \in {Broken, Archive(opened[h].has)}}

\* The handles when h has been closed; some handles, and another one.
Without(h)     == Restrict(opened, DOMAIN opened \ {h})
With(hs, h, x) == [k \in DOMAIN hs \cup {h} |-> IF k = h THEN x ELSE hs[k]]

Unused == Handle \ DOMAIN opened

---------------------------------------------------------------------------
(* Objects.  A constructor that throws makes no object and changes nothing.  *)

construct(o, p, access) ==
    /\ zip[o] = Null /\ path[o] = Null
    /\ IF access = "r" THEN Writers(p) = {} ELSE Users(p) = {}
    /\ access \in {"r", "a"} => disk[p].is = "archive"
    /\ \E h \in Unused :
          /\ zip' = [zip EXCEPT ![o] = h]
          /\ opened' = With(opened, h,
                            [mode |-> access, at |-> p,
                             has |-> IF access = "w" THEN {} ELSE disk[p].has])
    /\ path' = [path EXCEPT ![o] = p]
    /\ disk' = IF access = "w" THEN [disk EXCEPT ![p] = Broken] ELSE disk

close(o) == /\ zip' = [zip EXCEPT ![o] = Null]
            /\ opened' = Without(zip[o])
            /\ disk' \in Closed(zip[o])
            /\ UNCHANGED path

destroy(o) == /\ zip' = [zip EXCEPT ![o] = Null]
              /\ path' = [path EXCEPT ![o] = Null]
              /\ opened' = Without(zip[o])
              /\ disk' \in Closed(zip[o])

\* Mutant of move: the object moved from keeps its handle.
moveAndKeep(o, other) ==
    /\ o # other
    /\ path' = [path EXCEPT ![o] = path[other], ![other] = Null]
    /\ zip' = [zip EXCEPT ![o] = zip[other]]
    /\ opened' = Without(zip[o])
    /\ disk' \in Closed(zip[o])

\* operator= moves by way of a temporary object, which is left with what the
\* target had and closes it.
move(o, other) == IF o = other
                  THEN UNCHANGED vars
                  ELSE /\ path' = [path EXCEPT ![o] = path[other], ![other] = Null]
                       /\ zip' = [zip EXCEPT ![o] = zip[other], ![other] = Null]
                       /\ opened' = Without(zip[o])
                       /\ disk' \in Closed(zip[o])

swap(o, other) == /\ path' = [path EXCEPT ![o] = path[other], ![other] = path[o]]
                  /\ zip' = [zip EXCEPT ![o] = zip[other], ![other] = zip[o]]
                  /\ UNCHANGED <<opened, disk>>

\* Files are added one by one; the first that fails ends the call.
write(o, fs) == /\ zip[o] # Null
                /\ opened[zip[o]].mode # "r"
                /\ \E part \in SUBSET fs :
                      opened' = [opened EXCEPT ![zip[o]].has = @ \cup part]
                /\ disk' = [disk EXCEPT ![opened[zip[o]].at] = Broken]
                /\ UNCHANGED <<path, zip>>

---------------------------------------------------------------------------
(* replace(files, root).  The archive that is written is `tmp`, a path that  *)
(* path.concat() has made the object's own.                                  *)

\* Mutant of tmp: nothing is appended.
tmpSame(o) == path[o]

tmp(o) == path[o] + 1

MayReplace(o) == path[o] # Null /\ tmp(o) \in Paths /\ Writers(tmp(o)) = {}

Renamed(o) == path' = [path EXCEPT ![o] = tmp(o)]

\* The new archive cannot be opened, or cannot be filled.
replaceFailsEarly(o, fs) ==
    /\ MayReplace(o)
    /\ Renamed(o)
    /\ \/ disk' = disk
       \/ disk' = [disk EXCEPT ![tmp(o)] = Broken]
       \/ \E part \in SUBSET fs : disk' = [disk EXCEPT ![tmp(o)] = Archive(part)]
    /\ UNCHANGED <<zip, opened>>

\* Both handles are closed; the new archive may be incomplete.
Written(o, files) == \E d \in Closed(zip[o]) : disk' = [d EXCEPT ![tmp(o)] = files]

\* The file is not renamed or not opened again.
replaceFailsLate(o, fs) ==
    /\ MayReplace(o)
    /\ Renamed(o)
    /\ zip' = [zip EXCEPT ![o] = Null]
    /\ opened' = Without(zip[o])
    /\ Written(o, Broken) \/ Written(o, Archive(fs))

\* rename(temporary.path, path) has the same path twice and does nothing.
replaceOk(o, fs) ==
    /\ MayReplace(o)
    /\ Renamed(o)
    /\ Written(o, Archive(fs))
    /\ \E h \in Handle \ DOMAIN Without(zip[o]) :
          /\ zip' = [zip EXCEPT ![o] = h]
          /\ opened' = With(Without(zip[o]), h, [mode |-> "r", at |-> tmp(o), has |-> fs])

replace(o, fs) == replaceFailsEarly(o, fs) \/ replaceFailsLate(o, fs) \/ replaceOk(o, fs)

---------------------------------------------------------------------------
Next == \E o \in Object :
           \/ \E p \in Paths, access \in {"r", "w", "a"} : construct(o, p, access)
           \/ close(o) \/ destroy(o)
           \/ \E other \in Object : move(o, other) \/ swap(o, other)
           \/ \E fs \in SUBSET Entry : write(o, fs) \/ replace(o, fs)

Spec == Init /\ [][Next]_vars

---------------------------------------------------------------------------
(* Properties                                                                *)

\* Through moves, swaps and calls that throw half-way, each open handle
\* belongs to exactly one object, which will close it, and no object holds one
\* that is closed.
HandlesAccounted ==
    /\ \A o \in Object : zip[o] # Null => zip[o] \in DOMAIN opened
    /\ \A h \in DOMAIN opened : \E o \in Object : {u \in Object : zip[u] = h} = {o}

\* "Create a new archive" next to the old one: wherever replace() fails, the
\* archive it was to replace is still there.
OldArchiveKept ==
    [][\A o \in Object, fs \in SUBSET Entry :
          replace(o, fs) /\ disk[path[o]].is = "archive" /\ Writers(path[o]) = {}
              => disk'[path[o]].is = "archive"]_vars

\* "Replaced the archive with the provided files": when replace() has returned,
\* the archive has these files.
ReplacedOnDisk ==
    [][\A o \in Object, fs \in SUBSET Entry :
          replaceOk(o, fs) => disk'[path[o]] = Archive(fs)]_vars
============================================================================
