------------------------------ MODULE TempFile ------------------------------
(* Files that delete themselves (include/utl/io/TempFile.h).  A constructor  *)
(* picks a name, tests whether there is such a file, and creates it, in      *)
(* separate steps; other processes use the same directory meanwhile.         *)
EXTENDS Integers, FiniteSets

CONSTANTS Object,
          Builder,      \* the threads that construct objects
          Name,         \* the names the generator comes up with
          None,         \* an empty path
          Attempts      \* 64 in the code

TempFileConstants == None \notin Name /\ Attempts \in Nat

VARIABLES file,         \* the path of each object
          dir,          \* what the directory has under each name
          trying,       \* the name each constructor has picked
          attempt,      \* how many names it has found taken
          theirs,       \* the names other processes have used and will remove
          orphans,      \* files whose removal has failed (history)
          shared        \* names that were theirs when we used them (history)

vars == <<file, dir, trying, attempt, theirs, orphans, shared>>

TypeOK == /\ file \in [Object -> Name \cup {None}]
          /\ dir \in [Name -> {"nothing", "ours", "foreign"}]
          /\ trying \in [Builder -> Name \cup {None}]
          /\ attempt \in [Builder -> 0 .. Attempts]
          /\ theirs \subseteq Name
          /\ orphans \subseteq Name
          /\ shared \subseteq Name

Init == /\ file = [o \in Object |-> None]
        /\ dir \in [Name -> {"nothing", "foreign"}]
        /\ trying = [b \in Builder |-> None]
        /\ attempt = [b \in Builder |-> 0]
        /\ theirs = {n \in Name : dir[n] = "foreign"}
        /\ orphans = {}
        /\ shared = {}

Held == {file[o] : o \in Object} \ {None}

exists(n) == dir[n] # "nothing"

\* Mutant of probe: a name is used without looking.
probeBlindly(b, n) == /\ trying[b] = None
                      /\ attempt[b] < Attempts
                      /\ trying' = [trying EXCEPT ![b] = n]
                      /\ UNCHANGED <<file, dir, attempt, theirs, orphans, shared>>

\* A random name, which is taken or may be used ...
probe(b, n) == /\ trying[b] = None
               /\ attempt[b] < Attempts
               /\ IF exists(n)
                  THEN attempt' = [attempt EXCEPT ![b] = @ + 1] /\ UNCHANGED trying
                  ELSE trying' = [trying EXCEPT ![b] = n] /\ UNCHANGED attempt
               /\ UNCHANGED <<file, dir, theirs, orphans, shared>>

\* ... after which the file is created, or emptied if it is there by now, and
\* belongs to an object that had none.
create(b, o) == /\ trying[b] # None
                /\ file[o] = None
                /\ file' = [file EXCEPT ![o] = trying[b]]
                /\ dir' = [dir EXCEPT ![trying[b]] = "ours"]
                /\ trying' = [trying EXCEPT ![b] = None]
                /\ attempt' = [attempt EXCEPT ![b] = 0]
                /\ shared' = IF trying[b] \in theirs THEN shared \cup {trying[b]}
                             ELSE IF trying[b] \in Held THEN shared ELSE shared \ {trying[b]}
                /\ UNCHANGED <<theirs, orphans>>

\* The file cannot be created, or no name was free: there is no object.
throw(b) == /\ trying[b] # None \/ attempt[b] = Attempts
            /\ trying' = [trying EXCEPT ![b] = None]
            /\ attempt' = [attempt EXCEPT ![b] = 0]
            /\ UNCHANGED <<file, dir, theirs, orphans, shared>>

---------------------------------------------------------------------------
\* reset(): the file is removed, which may fail, and forgotten.
Removed(o) == IF file[o] = None
              THEN UNCHANGED <<dir, orphans>>
              ELSE \/ dir' = [dir EXCEPT ![file[o]] = "nothing"] /\ UNCHANGED orphans
                   \/ orphans' = orphans \cup {file[o]} /\ UNCHANGED dir

reset(o) == /\ Removed(o)
            /\ file' = [file EXCEPT ![o] = None]
            /\ UNCHANGED <<trying, attempt, theirs, shared>>

move(o, other) == IF o = other
                  THEN UNCHANGED vars
                  ELSE /\ Removed(o)
                       /\ file' = [file EXCEPT ![o] = file[other], ![other] = None]
                       /\ UNCHANGED <<trying, attempt, theirs, shared>>

\* Other processes create files under names that are free, and remove them,
\* whoever has taken them over meanwhile.
foreign(n) == /\ \/ /\ dir[n] = "nothing"
                    /\ dir' = [dir EXCEPT ![n] = "foreign"]
                    /\ theirs' = theirs \cup {n}
                 \/ /\ n \in theirs
                    /\ dir' = [dir EXCEPT ![n] = "nothing"]
                    /\ theirs' = theirs \ {n}
              /\ UNCHANGED <<file, trying, attempt, orphans, shared>>

Next == \/ \E b \in Builder : \/ \E n \in Name : probe(b, n)
                              \/ \E o \in Object : create(b, o)
                              \/ throw(b)
        \/ \E o \in Object : reset(o) \/ \E other \in Object : move(o, other)
        \/ \E n \in Name : foreign(n)

Spec == Init /\ [][Next]_vars

---------------------------------------------------------------------------
(* Properties                                                                *)

\* "Moving hands the file over": a file of ours is there and has one object that
\* will remove it, however files are moved, dropped, and their names picked
\* again, unless its name was somebody else's when it was picked; and only a
\* removal that fails leaves a file behind.
OneOwner == /\ \A o, u \in Object : file[o] = file[u] /\ file[o] \in Held \ shared => o = u
            /\ \A n \in Held \ shared : dir[n] = "ours"
            /\ \A n \in Name : dir[n] = "ours" => n \in Held \cup orphans
============================================================================
