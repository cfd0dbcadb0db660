------------------------------ MODULE DirListing ------------------------------
(***************************************************************************)
(* ls (src/commands/cmd_ls.cpp): readdir() and lstat() over a directory in  *)
(* which others create, remove and replace entries meanwhile.               *)
(***************************************************************************)
EXTENDS Naturals, SequencesExt

CONSTANT DirNames   \* the names entries may have, in the order of their bytes

Places == 1 .. Len(DirNames)
Kinds  == {"-", "d", "l"}   \* the first letter of mode_string()
None   == "no entry"

VARIABLES
    content,    \* what is in the directory under each name
    listing,    \* "start", "loop", "listed", or "failed" when it cannot be opened
    unread,     \* names that readdir() has still to return
    reading,    \* the name it returned last, 0 after its lstat()
    entries,    \* the entries listed, "?" for the kind of one without attributes
    was,        \* what has been under each name since the directory was opened
    errors      \* the names whose lstat() failed, 0 if readdir() did

listVars == <<content, listing, unread, reading, entries, was, errors>>

ListInit ==
    /\ content \in [Places -> Kinds \cup {None}] /\ errors = {}
    /\ listing = "start" /\ unread = {} /\ reading = 0 /\ entries = <<>>
    /\ was = [n \in Places |-> {}]

OpenDir ==
    /\ listing = "start"
    /\ listing' = "loop"
    /\ unread' = {n \in Places : content[n] # None}
    /\ was' = [n \in Places |-> {content[n]}]
    /\ UNCHANGED <<content, reading, entries, errors>>

\* No such directory, or none the user may read: exit code 1.
OpenDirFails ==
    /\ listing = "start"
    /\ listing' = "failed"
    /\ UNCHANGED <<content, unread, reading, entries, was, errors>>

Readdir(n) ==
    /\ listing = "loop" /\ reading = 0 /\ n \in unread
    /\ reading' = n
    /\ unread' = unread \ {n}
    /\ UNCHANGED <<content, listing, entries, was, errors>>

\* Mutant of Lstat: an entry without attributes ends the loop.
LstatOrStop ==
    /\ listing = "loop" /\ reading # 0
    /\ IF content[reading] # None
       THEN /\ entries' = Append(entries, [name |-> reading, kind |-> content[reading]])
            /\ UNCHANGED unread
       ELSE unread' = {} /\ UNCHANGED entries
    /\ reading' = 0
    /\ UNCHANGED <<content, listing, was, errors>>

\* lstat() fails on an entry that is gone, and may on one that is there: the
\* directory cannot be searched, a policy forbids it, the path is too long.
Lstat ==
    /\ listing = "loop" /\ reading # 0
    /\ \E has_stat \in BOOLEAN :
          /\ has_stat => content[reading] # None
          /\ entries' = Append(entries, [name |-> reading,
                                         kind |-> IF has_stat THEN content[reading] ELSE "?"])
          /\ errors' = IF ~has_stat /\ content[reading] # None
                       THEN errors \cup {reading} ELSE errors
    /\ reading' = 0
    /\ UNCHANGED <<content, listing, unread, was>>

\* readdir() returns nothing more, or fails, which looks the same; closedir()
\* and std::sort() by name, which leaves entries of the same name in any order.
SortEntries ==
    /\ listing = "loop" /\ reading = 0
    /\ \/ unread = {} /\ UNCHANGED errors
       \/ errors' = errors \cup {0}
    /\ listing' = "listed"
    /\ \E order \in Bijection(DOMAIN entries, DOMAIN entries) :
          /\ entries' = [k \in DOMAIN entries |-> entries[order[k]]]
          /\ \A k, l \in DOMAIN entries : k < l => entries'[k].name <= entries'[l].name
    /\ UNCHANGED <<content, unread, reading, was>>

\* Another process creates, removes or replaces an entry.  POSIX leaves open
\* whether readdir() returns a name created or removed since opendir(), even
\* one it has returned before; one that is replaced stays a name.
Alter(n, k) ==
    /\ listing = "loop" /\ k # content[n]
    /\ content' = [content EXCEPT ![n] = k]
    /\ was' = [was EXCEPT ![n] = @ \cup {k}]
    /\ \/ UNCHANGED unread
       \/ k = None /\ unread' = unread \ {n}
       \/ content[n] = None /\ unread' = unread \cup {n}
    /\ UNCHANGED <<listing, reading, entries, errors>>

ListNext ==
    \/ OpenDir \/ OpenDirFails \/ Lstat \/ SortEntries
    \/ \E n \in Places : Readdir(n)

\* The listing in a directory that others alter as often as they like.
ListSpec == ListInit /\ [][ListNext \/ \E n \in Places, k \in Kinds \cup {None} : Alter(n, k)]_listVars

-----------------------------------------------------------------------------
(* Properties *)

ListTypeOK ==
    /\ content \in [Places -> Kinds \cup {None}] /\ errors \subseteq Places \cup {0}
    /\ listing \in {"start", "loop", "listed", "failed"}
    /\ unread \subseteq Places /\ reading \in Places \cup {0}
    /\ entries \in Seq([name : Places, kind : Kinds \cup {"?"}])
    /\ was \in [Places -> SUBSET (Kinds \cup {None})]

\* Whatever others do to the directory meanwhile: an entry that is there all
\* the time, replaced or not, is listed once, at most once if readdir() fails;
\* what is listed of an entry was true of it at some time; only one that was
\* gone at some time, or on which lstat() fails, is without attributes; and the
\* names are in order.
ListedTruly ==
    listing = "listed" =>
        /\ \A n \in Places : None \notin was[n] =>
               LET At == {k \in DOMAIN entries : entries[k].name = n}
               IN  (0 \notin errors => At # {}) /\ \A k, l \in At : k = l
        /\ \A k \in DOMAIN entries :
               LET e == entries[k] IN
               IF e.kind = "?" THEN None \in was[e.name] \/ e.name \in errors
                               ELSE e.kind \in was[e.name]
        /\ \A k, l \in DOMAIN entries : k < l => entries[k].name <= entries[l].name
=============================================================================
