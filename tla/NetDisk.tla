------------------------------ MODULE NetDisk -------------------------------
(***************************************************************************)
(* The listing of the bucket at Qiniu: a client walks through a directory, *)
(* or through the results of a search, by the marker each reply carries,   *)
(* while others put and delete objects.  A bucket is flat; directories are *)
(* what the keys have before a delimiter, and a key that ends with it is   *)
(* an empty directory.                                                     *)
(***************************************************************************)
EXTENDS Naturals, Sequences, FiniteSets, SequencesExt

CONSTANTS
    Keys,     \* the keys there may be, in their order: sequences of names, the last
              \* of which is EmptyName when the key ends with the delimiter
    EmptyName,
    Limit,    \* NETDISK_LIMIT
    Searches, \* for each search key, the set of names that include it
    MaxWrite, \* bound: objects put or deleted after the start
    None      \* an empty marker

KeyIds == DOMAIN Keys
KeyNames == UNION {{Keys[k][n] : n \in DOMAIN Keys[k]} : k \in KeyIds}
Directories == UNION {{SubSeq(Keys[k], 1, n) : n \in 0..Len(Keys[k]) - 1} : k \in KeyIds}

Under(k, prefix) == IsStrictPrefix(prefix, Keys[k])

\* No key is empty or the delimiter alone, and in the order of strings those that
\* begin alike are together.
NetDiskAssumption ==
    /\ Limit \in Nat \ {0} /\ MaxWrite \in Nat /\ None \notin Nat
    /\ Keys \in Seq(Seq(KeyNames) \ {<<>>, <<EmptyName>>}) \ {<<>>}
    /\ \A j, k \in KeyIds : Keys[j] = Keys[k] => j = k
    /\ \A p \in Directories, i, k \in KeyIds : Under(i, p) /\ Under(k, p) => \A j \in i..k : Under(j, p)

VARIABLES
    bucket, \* the keys of the objects at Qiniu
    writes, \* how often it was written
    walk    \* the client

vars == <<bucket, writes, walk>>

-----------------------------------------------------------------------------
\* listPrefix of the Qiniu SDK

\* An object, or with a delimiter the directory below the prefix it is in.
Item(k) == [type |-> "item", key |-> Keys[k]]
Common(k, prefix) == [type |-> "prefix", key |-> SubSeq(Keys[k], 1, Len(prefix) + 1)]
Listed(k, prefix, delimiter) ==
    IF delimiter /\ Len(Keys[k]) > Len(prefix) + 1 THEN Common(k, prefix) ELSE Item(k)

\* The last key an entry may stand for.
LastKey(e) ==
    Max({k \in KeyIds : IF e.type = "item" THEN Keys[k] = e.key
                        ELSE IsStrictPrefix(e.key, Keys[k])})

\* Up to limit entries after the marker, and the marker of what is left.
ListPrefix(prefix, delimiter, limit, marker) ==
    LET from == IF marker = None THEN 0 ELSE marker
        rest == {Listed(k, prefix, delimiter) : k \in {j \in bucket : j > from /\ Under(j, prefix)}}
        page == {e \in rest : Cardinality({f \in rest : LastKey(f) <= LastKey(e)}) <= limit}
    IN  [entries |-> page,
         marker |-> IF page = rest THEN None ELSE Max({LastKey(e) : e \in page})]

-----------------------------------------------------------------------------
\* ManageService.getFileList

Base(key) == Last(key)
Parent(key) == Front(key)
Entry(type, name, belongTo) == [type |-> type, name |-> name, belongTo |-> belongTo]

\* A directory's own object has no name in its listing.
Shown(e, prefix) ==
    IF e.type = "prefix" THEN {Entry("dir", Base(e.key), prefix)}
    ELSE IF Base(e.key) = EmptyName THEN {}
    ELSE {Entry("file", Base(e.key), prefix)}

\* The name of a directory is the last but one part of its object's key.
Found(e, skey) ==
    IF Base(e.key) = EmptyName /\ Base(Parent(e.key)) \in skey
    THEN {Entry("dir", Base(Parent(e.key)), Parent(Parent(e.key)))}
    ELSE IF Base(e.key) \in skey THEN {Entry("file", Base(e.key), Parent(e.key))}
    ELSE {}

Searching(skey) == skey # None

GetFileList_InPath(prefix, marker, skey) ==
    LET body == ListPrefix(prefix, ~Searching(skey), Limit, marker)
    IN  [list |-> UNION {IF Searching(skey) THEN Found(e, skey) ELSE Shown(e, prefix)
                         : e \in body.entries},
         marker |-> body.marker]

GetFileList(prefix, marker, skey) ==
    LET body == ListPrefix(IF Searching(skey) THEN <<>> ELSE prefix, ~Searching(skey), Limit, marker)
    IN  [list |-> UNION {IF Searching(skey) THEN Found(e, skey) ELSE Shown(e, prefix)
                         : e \in body.entries},
         marker |-> body.marker]

-----------------------------------------------------------------------------
\* All that a directory has, or that a search is to find, of some keys.
Content(S, prefix, skey) ==
    IF Searching(skey) THEN UNION {Found(Item(k), skey) : k \in S}
    ELSE UNION {Shown(Listed(k, prefix, TRUE), prefix) : k \in {j \in S : Under(j, prefix)}}

\* Remembered of a walk: what it was shown, whether anything twice, the keys that
\* were there all the time and those that were there at all.
Idle == [at |-> "idle", path |-> <<>>, skey |-> None, marker |-> None,
         shown |-> {}, twice |-> FALSE, stayed |-> {}, ever |-> {}]

Init ==
    /\ bucket \in SUBSET KeyIds
    /\ writes = 0
    /\ walk = Idle

Open(path, skey) ==
    /\ walk.at = "idle"
    /\ walk' = [Idle EXCEPT !.at = "walking", !.path = path, !.skey = skey,
                            !.stayed = bucket, !.ever = bucket]
    /\ UNCHANGED <<bucket, writes>>

\* A reply; the client goes on from its marker until there is none.  The id of
\* an entry is random: what a client sees is its name and directory.
List ==
    /\ walk.at = "walking"
    /\ LET reply == GetFileList(walk.path, walk.marker, walk.skey)
       IN  walk' = [walk EXCEPT !.shown = @ \cup reply.list,
                                !.twice = @ \/ reply.list \cap walk.shown # {},
                                !.marker = reply.marker,
                                !.at = IF reply.marker = None THEN "done" ELSE "walking"]
    /\ UNCHANGED <<bucket, writes>>

\* An error of the SDK or a status other than 200 is an error to the client,
\* which asks again or gives up.
Close ==
    /\ walk.at # "idle"
    /\ walk' = Idle
    /\ UNCHANGED <<bucket, writes>>

\* Nothing in the program writes the bucket; its other clients do.
PutKey(k) ==
    /\ writes < MaxWrite /\ k \notin bucket
    /\ bucket' = bucket \cup {k}
    /\ writes' = writes + 1
    /\ walk' = IF walk.at = "walking" THEN [walk EXCEPT !.ever = @ \cup {k}] ELSE walk

DeleteKey(k) ==
    /\ writes < MaxWrite /\ k \in bucket
    /\ bucket' = bucket \ {k}
    /\ writes' = writes + 1
    /\ walk' = IF walk.at = "walking" THEN [walk EXCEPT !.stayed = @ \ {k}] ELSE walk

Next ==
    \/ \E p \in Directories, s \in Searches \cup {None} : Open(p, s)
    \/ List \/ Close
    \/ \E k \in KeyIds : PutKey(k) \/ DeleteKey(k)

Spec == Init /\ [][Next]_vars

-----------------------------------------------------------------------------
\* Properties

\* TypeOK: every variable stays in its type.
TypeOK ==
    /\ bucket \in SUBSET KeyIds
    /\ writes \in 0..MaxWrite
    /\ walk.at \in {"idle", "walking", "done"} /\ walk.path \in Directories
    /\ walk.skey \in Searches \cup {None} /\ walk.marker \in KeyIds \cup {None}
    /\ walk.stayed \subseteq walk.ever /\ walk.ever \subseteq KeyIds

\* WalkIsComplete: a client that follows the markers to the end has been shown
\* everything of the directory, or everything the search key is in anywhere in
\* the bucket, that was there all the time, nothing that never was there, and
\* nothing twice, whatever was put and deleted between its pages (getFileList).
WalkIsComplete ==
    walk.at = "done" =>
        /\ Content(walk.stayed, walk.path, walk.skey) \subseteq walk.shown
        /\ walk.shown \subseteq Content(walk.ever, walk.path, walk.skey)
        /\ ~walk.twice
=============================================================================
