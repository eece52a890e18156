---------------------------- MODULE WatcherTree ----------------------------
(***************************************************************************)
(* The tree of watchers (src/common/debugging/gecowatchert.{h,cc}): a      *)
(* watcher is added under a path such as "logger/level", and read with a   *)
(* query for a path, which calls back once for each answer.                *)
(*                                                                         *)
(* A director (geco_watcher_director_t) is created by add_watcher() at one *)
(* place of the tree and never moved, so its path identifies it: dirs maps *)
(* the path of every director of the tree to its container_, in order.  A  *)
(* path is the sequence of its labels, a label a number (its place in the  *)
(* order of strings); a path ends in Empty when the string ends in a       *)
(* slash, and has no other empty label.  The label "__doc__", the offsets  *)
(* (base) and what is written to the result stream are left out.           *)
(***************************************************************************)
EXTENDS Integers, Sequences, FiniteSets, SequencesExt

CONSTANTS
    Values,     \* the value_watcher_t objects
    Functions,  \* the func_watcher_t and method_watcher_t objects, with a getter
    Writable,   \* those of them that are not read-only
    Type,       \* the type of what each of them watches
    Byte,       \* what a byte can be
    Width,      \* the number of bytes of each type
    Uint16,     \* the type WVT_UINT16
    Streams,    \* what a query may carry to be set: a type, a mode and a value
    Paths,      \* the paths watchers are added at, removed from and read at
    Director,   \* what an entry holds when it holds a director
    Absent,     \* the result of find_child() when it returns NULL
    Failed,     \* notify(-1)
    NoValue     \* what a query that sets nothing carries

Empty == 0
Root == << >>

(* What is watched, as its bytes, the most significant first: integral types *)
(* are written to a stream in that order, whatever the machine's.           *)
Contents(w) == [1 .. Width[Type[w]] -> Byte]

ASSUME WatchersAssumption ==
    /\ Writable \subseteq Values \cup Functions
    /\ Type \in [Values \cup Functions -> DOMAIN Width]
    /\ 0 \in Byte

(* A query carries a value of the type that it names. *)
ASSUME StreamsAssumption ==
    /\ Width \in [DOMAIN Width -> Nat]
    /\ \A s \in Streams : /\ s.type \in DOMAIN Width /\ s.readWrite \in BOOLEAN
                          /\ s.bytes \in [1 .. Width[s.type] -> Byte]
    /\ NoValue \notin Streams

ASSUME KindsAssumption ==
    /\ Director \notin Values \cup Functions
    /\ Absent \notin Values \cup Functions \cup {Director}
    /\ Failed # << >>

ASSUME PathsAssumption ==
    \A p \in Paths : /\ p \in Seq(Nat) /\ p # Root
                     /\ \A i \in 1 .. Len(p) - 1 : p[i] # Empty

VARIABLES
    dirs,   \* the container_ of every director in the tree, by its path
    value,  \* what each watcher watches, its bytes
    reply   \* the last query and what it was notified of, until something changes

vars == <<dirs, value, reply>>

NoReply == [path |-> Root, dir |-> FALSE, asked |-> NoValue, notified |-> << >>]

Init ==
    /\ dirs = [d \in {Root} |-> << >>]
    /\ value = [w \in Values \cup Functions |-> [i \in 1 .. Width[Type[w]] |-> 0]]
    /\ reply = NoReply
-----------------------------------------------------------------------------
Matches(t, d, l) == {i \in DOMAIN t[d] : t[d][i].label = l}

(* What the director at d holds under the label l in the tree t. *)
FindChild(t, d, l) ==
    IF l = Empty \/ Matches(t, d, l) = {} THEN Absent
    ELSE t[d][Min(Matches(t, d, l))].watcher

(* The definitions named ...Without... are faults seeded in the            *)
(* definitions they precede: the model does not use them, and the          *)
(* properties reject them.                                                 *)
InsertWithoutOrder(s, e) == Append(s, e)

(* A new entry goes before the first one that is not less. *)
Insert(s, e) ==
    InsertAt(s, Min({Len(s) + 1} \cup {i \in DOMAIN s : s[i].label >= e.label}), e)

(* What the labels of p lead to from the root: Director, a watcher, or      *)
(* Absent, also if one before the last leads to no director.                *)
At(t, p) ==
    IF p = Root THEN Director
    ELSE IF \A i \in 1 .. Len(p) - 1 :
              SubSeq(p, 1, i - 1) \in DOMAIN t /\ FindChild(t, SubSeq(p, 1, i - 1), p[i]) = Director
    THEN FindChild(t, Front(p), Last(p))
    ELSE Absent

(* The directors that are missing on the way to the parent of p, up to the  *)
(* first entry that holds a watcher.                                        *)
Missing(t, p) ==
    {SubSeq(p, 1, i) : i \in
        {i \in 1 .. Len(p) - 1 : \A j \in 1 .. i : At(t, SubSeq(p, 1, j)) \in {Director, Absent}}}
    \ DOMAIN t

MakeDirsWithoutInsert(t, p) ==
    [d \in DOMAIN t \cup Missing(t, p) |-> IF d \in DOMAIN t THEN t[d] ELSE << >>]

(* add_watcher() makes them, each with an entry in the one above.           *)
MakeDirs(t, p) ==
    LET made == Missing(t, p)
        Children(d) == IF d \in DOMAIN t THEN t[d] ELSE << >>
    IN  [d \in DOMAIN t \cup made |->
            IF \E c \in made : Front(c) = d
            THEN Insert(Children(d), [label |-> p[Len(d) + 1], watcher |-> Director])
            ELSE Children(d)]

(* The labels of p, without the empty one that a trailing slash leaves. *)
Labels(p) == IF Last(p) = Empty THEN Front(p) ELSE p

(* The watchers that a visit of the children s comes to: add_watcher_path() *)
(* takes WatcherSucceeds, which is 0, for a failure, and the visit ends.    *)
Visited(s) ==
    SubSeq(s, 1, Min({Len(s)} \cup {i \in DOMAIN s : s[i].watcher \in Functions}))

AnswersWithoutSelf(t) ==
    LET A[d \in DOMAIN t] ==
        FlattenSeq([i \in DOMAIN Visited(t[d]) |->
            LET l == t[d][i].label IN
            IF t[d][i].watcher = Director
            THEN [j \in DOMAIN A[Append(d, l)] |-> <<l>> \o A[Append(d, l)][j]]
            ELSE << <<l>> >>])
    IN  A

(* The notifications from the visit of a director's children, by the path   *)
(* from that director of who notifies: a director below comes after its own *)
(* children.  (request_path_, which the requester reads, is then its        *)
(* parent's again.)                                                         *)
Answers(t) ==
    LET A[d \in DOMAIN t] ==
        FlattenSeq([i \in DOMAIN Visited(t[d]) |->
            LET l == t[d][i].label IN
            IF t[d][i].watcher = Director
            THEN [j \in DOMAIN A[Append(d, l)] |-> <<l>> \o A[Append(d, l)][j]] \o << <<l>> >>
            ELSE << <<l>> >>])
    IN  A

(* A watcher, not a director, is reached before the labels of p end. *)
EndsEarly(p, kinds) == \E i \in 1 .. Len(p) - 1 : At(dirs, SubSeq(p, 1, i)) \in kinds
-----------------------------------------------------------------------------
AddWatcherWithoutFind(p, w) ==
    LET made == MakeDirs(dirs, p)
        d    == Front(p)
    IN  /\ dirs' = IF At(made, d) = Director /\ Last(p) # Empty
                    THEN [made EXCEPT ![d] = Insert(@, [label |-> Last(p), watcher |-> w])]
                    ELSE made
        /\ reply' = NoReply
        /\ UNCHANGED value

AddWatcherWithoutName(p, w) ==
    LET made == MakeDirs(dirs, p)
        d    == Front(p)
    IN  /\ dirs' = IF At(made, d) = Director /\ FindChild(made, d, Last(p)) = Absent
                    THEN [made EXCEPT ![d] = Insert(@, [label |-> Last(p), watcher |-> w])]
                    ELSE made
        /\ reply' = NoReply
        /\ UNCHANGED value

(* add_watcher(): nothing is added under an empty or a taken label, or     *)
(* below a watcher, but the directors made on the way stay.                *)
AddWatcher(p, w) ==
    LET made == MakeDirs(dirs, p)
        d    == Front(p)
    IN  /\ dirs' = IF At(made, d) = Director /\ Last(p) # Empty
                       /\ FindChild(made, d, Last(p)) = Absent
                    THEN [made EXCEPT ![d] = Insert(@, [label |-> Last(p), watcher |-> w])]
                    ELSE made
        /\ reply' = NoReply
        /\ UNCHANGED value

(* remove_watcher(): an entry is erased, with everything below it; the     *)
(* directors on the way to it stay, empty or not.                          *)
RemoveWatcher(p) ==
    LET d == Front(p) IN
    /\ dirs' = IF At(dirs, d) = Director /\ FindChild(dirs, d, Last(p)) # Absent
                THEN [q \in {q \in DOMAIN dirs : ~ IsPrefix(p, q)} |->
                         IF q = d THEN RemoveAt(dirs[d], Min(Matches(dirs, d, Last(p))))
                         ELSE dirs[q]]
                ELSE dirs
    /\ reply' = NoReply
    /\ UNCHANGED value

(* get_watcher_value() of a query for a watcher. *)
GetWatcherValue(p) ==
    LET q == Labels(p) IN
    /\ reply' = [path |-> q, dir |-> FALSE, asked |-> NoValue, notified |->
           CASE At(dirs, q) = Director     -> Append(Answers(dirs)[q], Root)
             [] At(dirs, q) \in Values     -> <<Root>>
             [] At(dirs, q) \in Functions  -> <<Root, Failed>>
             [] EndsEarly(q, Functions)    -> << >>
             [] OTHER                      -> <<Failed>>]
    /\ UNCHANGED <<dirs, value>>

(* get_watcher_value() of a query for a directory. *)
VisitChildren(p) ==
    LET q == Labels(p) IN
    /\ reply' = [path |-> q, dir |-> TRUE, asked |-> NoValue, notified |->
           CASE At(dirs, q) = Director                                  -> Answers(dirs)[q]
             [] At(dirs, q) \in Values \cup Functions                   -> << >>
             [] EndsEarly(q, Values \cup Functions)                     -> << >>
             [] OTHER                                                   -> <<Failed>>]
    /\ UNCHANGED <<dirs, value>>

(* What a set for the path p comes to: each director passes it on. *)
SetTarget(p) == At(dirs, Labels(p))

(* set_from_stream() looks at the type that came with a value only to refuse *)
(* WT_DIRECTORY, which is WVT_UINT16, and at the mode.                      *)
Acceptable(s) == s.type # Uint16 /\ s.readWrite

(* That of a value_watcher_t reads the stream into what is watched before   *)
(* that, that of a function or a method watcher calls its set function      *)
(* afterwards.                                                              *)
StoresValue(w, s) == w \in Writable /\ (w \in Values \/ Acceptable(s))

NotifiesWithoutMode(w, s) == w \in Values \cup Functions /\ Acceptable(s)

Notifies(w, s) == w \in Writable /\ Acceptable(s)

(* What set_from_stream() of w reads from s: as many bytes as the watcher's *)
(* own type has, whatever the type of s.  Bytes that s does not have are    *)
(* what the memory behind it holds (a build with assertions stops instead). *)
Read(w, s) ==
    {v \in Contents(w) : \A i \in DOMAIN v \cap DOMAIN s.bytes : v[i] = s.bytes[i]}

(* set_watcher_value() of a query for a watcher: WatcherSucceeds is 0, so   *)
(* the query is notified of the failure too; the other codes are not.       *)
SetWatcherValue(p, s) ==
    LET q == Labels(p)
        w == SetTarget(p)
    IN  /\ \/ ~ StoresValue(w, s) /\ UNCHANGED value
           \/ StoresValue(w, s) /\ \E v \in Read(w, s) : value' = [value EXCEPT ![w] = v]
        /\ reply' = [path |-> q, dir |-> FALSE, asked |-> s, notified |->
               CASE Notifies(w, s)                -> <<Root, Failed>>
                 [] ~ Notifies(w, s)
                    /\ (w \in Values \cup Functions
                        \/ EndsEarly(q, Values \cup Functions)) -> << >>
                 [] OTHER                         -> <<Failed>>]
        /\ UNCHANGED dirs

(* What watcher_string_to_value() makes of a text for w: any value of its   *)
(* type.  A text that is none gives 0 or what was there, one that starts    *)
(* with a number that number, a number too large the largest, and a letter  *)
(* its code for an int8.                                                    *)
Converted(w) == Contents(w)

StoresText(w) == w \in Writable

(* set_from_string() of the root, with some text.                           *)
SetFromString(p) ==
    LET w == SetTarget(p) IN
    /\ StoresText(w)
    /\ \E y \in Converted(w) : value' = [value EXCEPT ![w] = y]
    /\ reply' = NoReply
    /\ UNCHANGED dirs

Next ==
    \E p \in Paths :
        \/ \E w \in Values \cup Functions : AddWatcher(p, w)
        \/ RemoveWatcher(p)
        \/ GetWatcherValue(p)
        \/ VisitChildren(p)
        \/ \E s \in Streams : SetWatcherValue(p, s)
        \/ SetFromString(p)

Spec == Init /\ [][Next]_vars
-----------------------------------------------------------------------------
Entry == [label : Nat \ {Empty}, watcher : Values \cup Functions \cup {Director}]

Containers(t) == DOMAIN t \in SUBSET Seq(Nat) /\ \A d \in DOMAIN t : t[d] \in Seq(Entry)

(* The type invariant.                                                     *)
TypeOK ==
    /\ Containers(dirs)
    /\ DOMAIN value = Values \cup Functions
    /\ \A w \in Values \cup Functions : value[w] \in Contents(w)
    /\ reply.dir \in BOOLEAN /\ reply.asked \in Streams \cup {NoValue}

(* The labels in a director are in order and no two are the same: the loop *)
(* that finds the place of a new entry relies on the order, find_child()   *)
(* on there being one match.                                               *)
Ordered(s) == \A i, j \in DOMAIN s : i < j => s[i].label < s[j].label
LabelsInOrder(t) == \A d \in DOMAIN t : Ordered(t[d])

(* Every director but the root has an entry in the one above it. *)
DirsAreEntries(t) ==
    \A d \in DOMAIN t \ {Root} :
        /\ Front(d) \in DOMAIN t
        /\ [label |-> Last(d), watcher |-> Director] \in ToSet(t[Front(d)])

(* Every entry that holds a director leads to one. *)
EntriesAreDirs(t) ==
    \A d \in DOMAIN t : \A e \in ToSet(t[d]) :
        e.watcher = Director => Append(d, e.label) \in DOMAIN t

(* A walk passes directors only. *)
WaysAreDirs(t) == \A d \in DOMAIN t : \A i \in 0 .. Len(d) : SubSeq(d, 1, i) \in DOMAIN t

IsTree(t) ==
    /\ Root \in DOMAIN t
    /\ LabelsInOrder(t) /\ DirsAreEntries(t) /\ EntriesAreDirs(t) /\ WaysAreDirs(t)

(* The directors form a tree, and their labels are in order, whatever was  *)
(* added, with or without success, and removed.                            *)
TreeInv == IsTree(dirs)

(* The paths of everything below the director at d, from d. *)
Below(d) ==
    LET all == (DOMAIN dirs \ {Root}) \cup
               UNION {{Append(q, dirs[q][i].label) : i \in DOMAIN dirs[q]} : q \in DOMAIN dirs}
    IN  {SubSeq(q, Len(d) + 1, Len(q)) : q \in {q \in all : IsStrictPrefix(d, q)}}

(* A query that finds a director is notified of every watcher and every    *)
(* director below it, at any depth, once each (and, a query for a value,   *)
(* of the director itself): "This method visits each child of a directory  *)
(* watcher" (gecowatchert.h, visit_children()).                            *)
VisitsAll ==
    /\ reply # NoReply /\ reply.asked = NoValue
    /\ At(dirs, reply.path) = Director
    =>
        /\ ToSet(reply.notified) =
               Below(reply.path) \cup (IF reply.dir THEN {} ELSE {Root})
        /\ IsInjective(reply.notified)

(* The answer that a value was set is true, whatever else was notified:    *)
(* there is a watcher at the path, it is not read-only, and it has the     *)
(* bytes that were sent, as many as both have; that is the value asked for *)
(* if the types agree.  If not, it may be another, and is answered as done *)
(* all the same.                                                           *)
DoneIsDone ==
    reply.asked # NoValue /\ Root \in ToSet(reply.notified) =>
        LET w == At(dirs, reply.path)
            s == reply.asked
        IN  /\ w \in Writable
            /\ \A i \in DOMAIN value[w] \cap DOMAIN s.bytes : value[w][i] = s.bytes[i]
            /\ s.type = Type[w] => value[w] = s.bytes

(* The tree implements a table of paths: what was added is found under its *)
(* path, and only there, until it or something above it is removed; only a *)
(* watcher that is there and not read-only has its value set.              *)
Entries == UNION {{<<Append(d, dirs[d][i].label), dirs[d][i].watcher>> :
                      i \in DOMAIN dirs[d]} : d \in DOMAIN dirs}
Table == INSTANCE WatcherTable WITH
    Watchers <- Values \cup Functions,
    Data <- [w \in Values \cup Functions |-> Contents(w)],
    folders <- DOMAIN dirs,
    table <- {e \in Entries : e[2] # Director}
ImplementsTable == Table!Spec
=============================================================================
