---------------------------- MODULE WatcherTable ----------------------------
(***************************************************************************)
(* What the tree of watchers (src/common/debugging/gecowatchert.{h,cc})    *)
(* promises: a table of paths and the watchers added at them, and the      *)
(* folders that were needed on the way.                                    *)
(***************************************************************************)
EXTENDS Integers, Sequences, FiniteSets, SequencesExt

CONSTANTS
    Watchers, Writable,
    Data,     \* what each watcher can watch
    Paths, Empty

VARIABLES
    folders,  \* the paths of folders, that of the root << >> among them
    table,    \* the pairs of a path and the watcher there
    value     \* what each watcher watches

tvars == <<folders, table, value>>

Init ==
    /\ folders = {<< >>} /\ table = {}
    /\ DOMAIN value = Watchers /\ \A w \in Watchers : value[w] \in Data[w]

Taken(p) == p \in folders \/ \E e \in table : e[1] = p

(* A watcher is on the way to p. *)
Blocked(p) == \E e \in table : IsStrictPrefix(e[1], p)

(* The folders above p, as far as no watcher is in the way. *)
Above(p) == {q \in {SubSeq(p, 1, i) : i \in 0 .. Len(p) - 1} :
                ~ \E e \in table : IsPrefix(e[1], q)}

AddEntry(p, w) ==
    /\ folders' = folders \cup Above(p)
    /\ table' = IF Taken(p) \/ Blocked(p) \/ Last(p) = Empty
                THEN table ELSE table \cup {<<p, w>>}
    /\ UNCHANGED value

RemoveEntries(p) ==
    /\ folders' = {q \in folders : ~ IsPrefix(p, q)}
    /\ table' = {e \in table : ~ IsPrefix(p, e[1])}
    /\ UNCHANGED value

SetValue(w, x) ==
    /\ w \in Writable /\ \E e \in table : e[2] = w
    /\ value' = [value EXCEPT ![w] = x]
    /\ UNCHANGED <<folders, table>>

Next ==
    \/ \E p \in Paths : RemoveEntries(p) \/ \E w \in Watchers : AddEntry(p, w)
    \/ \E w \in Watchers : \E x \in Data[w] : SetValue(w, x)

Spec == Init /\ [][Next]_tvars
=============================================================================
