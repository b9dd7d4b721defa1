----------------------------- MODULE Iterators -----------------------------
(***************************************************************************)
(* pkg/db: the iterator of FileDB, and the helpers of utils.go built on    *)
(* it: ForEach, DeletePrefix, Backup and Restore.                          *)
(*                                                                         *)
(* NewIterator copies the sorted keys under the lock and releases it; each *)
(* Value reads the store again.  Another goroutine writes in between.      *)
(* Keys are numbers in their byte order, positions count from 0 as in Go.  *)
(***************************************************************************)
EXTENDS Sorting

CONSTANTS
    IterKeys,     \* the keys, in byte order
    Prefix,       \* those with the prefix iterated over
    SourceValues, \* the values of the source
    Missing,      \* a key the source does not have
    Empty         \* the nil value an iterator returns for a key that is gone

\* Get answers with a copy, which is never nil.
ASSUME IteratorAssumption ==
    /\ IterKeys \subseteq Int /\ IsFiniteSet(IterKeys) /\ Prefix \subseteq IterKeys
    /\ Missing \notin SourceValues /\ Empty \notin SourceValues

VARIABLES
    source,     \* the store
    iter,       \* the iterator of the running helper
    helper,     \* "none", "browse", "backup", "delete", "saved", "deleted"
    collected,  \* the entries of the helper's batch
    answer,     \* the last answer of Next, Prev or Seek
    touched,    \* history: the keys the other goroutine wrote meanwhile
    strayed     \* history: a caller went beyond an end, Prev of a new iterator included

iterVars == <<source, iter, helper, collected, answer, touched, strayed>>

Present == {k \in IterKeys : source[k] # Missing}

\* Mutant: the first Next skips a key.
NewIteratorAtFirst(keys) == [keys |-> Ascending(keys), index |-> 0]

NewIterator(keys) == [keys |-> Ascending(keys), index |-> -1]

Moved(it, step) == [it EXCEPT !.index = @ + step]

\* The answers of Next and Prev look at one end each.
NextAnswers(it) == it.index + 1 < Len(it.keys)
PrevAnswers(it) == it.index - 1 >= 0

Valid(it) == it.index \in 0 .. Len(it.keys) - 1
Key(it) == it.keys[it.index + 1]

\* The range left to search, from low to high.
Ranges(keys) == (0 .. Len(keys)) \X (0 .. Len(keys))
Middle(r) == (r[1] + r[2]) \div 2

\* Mutant: an equal key is skipped.
lowerBoundPast(keys, k) ==
    LET search[r \in Ranges(keys)] ==
            IF r[1] < r[2] THEN IF keys[Middle(r) + 1] <= k
                                THEN search[<<Middle(r) + 1, r[2]>>] ELSE search[<<r[1], Middle(r)>>]
                           ELSE r[1]
    IN  search[<<0, Len(keys)>>]

\* The binary search of Seek.
lowerBound(keys, k) ==
    LET search[r \in Ranges(keys)] ==
            IF r[1] < r[2] THEN IF keys[Middle(r) + 1] < k
                                THEN search[<<Middle(r) + 1, r[2]>>] ELSE search[<<r[1], Middle(r)>>]
                           ELSE r[1]
    IN  search[<<0, Len(keys)>>]

SeekTo(it, k) == Moved([it EXCEPT !.index = lowerBound(it.keys, k) - 1], 1)

IterInit ==
    /\ source \in [IterKeys -> SourceValues \cup {Missing}]
    /\ iter = NewIterator({})
    /\ helper = "none"
    /\ collected = <<>>
    /\ answer = FALSE
    /\ touched = {}
    /\ strayed = FALSE

\* The other goroutine puts or deletes a key.
WriteSource(k, v) ==
    /\ helper \notin {"saved", "deleted"}
    /\ source[k] # v
    /\ source' = [source EXCEPT ![k] = v]
    /\ touched' = IF helper = "none" THEN touched ELSE touched \cup {k}
    /\ UNCHANGED <<iter, helper, collected, answer, strayed>>

\* A helper takes its iterator.
Begin(h) ==
    /\ helper = "none"
    /\ helper' = h
    /\ iter' = NewIterator(Present \cap Prefix)
    /\ UNCHANGED <<source, collected, answer, touched, strayed>>

\* A caller moves an iterator as it likes, at most one step too far.
Browse ==
    /\ helper = "browse"
    /\ \/ /\ iter.index <= Len(iter.keys)
          /\ iter' = Moved(iter, 1) /\ answer' = NextAnswers(iter)
          /\ strayed' = (strayed \/ iter.index = Len(iter.keys))
       \/ /\ iter.index >= -1
          /\ iter' = Moved(iter, -1) /\ answer' = PrevAnswers(iter)
          /\ strayed' = (strayed \/ iter.index = -1)
       \/ \E k \in IterKeys :
            /\ iter' = SeekTo(iter, k)
            /\ answer' = NextAnswers([iter EXCEPT !.index = lowerBound(iter.keys, k) - 1])
            /\ strayed' = FALSE
    /\ UNCHANGED <<source, helper, collected, touched>>

ValueAt(k) == IF source[k] = Missing THEN Empty ELSE source[k]

\* One turn of the loops of AddPrefix and DeletePrefix.
Visit ==
    /\ helper \in {"backup", "delete"}
    /\ NextAnswers(iter)
    /\ iter' = Moved(iter, 1)
    /\ LET k == Key(iter')
       IN  collected' = [x \in DOMAIN collected \cup {k} |->
                CASE x # k                     -> collected[x]
                  [] x = k /\ helper = "backup" -> ValueAt(k)
                  [] x = k /\ helper = "delete" -> Missing]
    /\ UNCHANGED <<source, helper, answer, touched, strayed>>

\* The loop ends: the batch of a backup is saved, that of DeletePrefix
\* written to the store itself.
EndLoop ==
    /\ helper \in {"backup", "delete"}
    /\ ~ NextAnswers(iter)
    /\ iter' = Moved(iter, 1)
    /\ helper' = IF helper = "backup" THEN "saved" ELSE "deleted"
    /\ source' = IF helper = "backup" THEN source
                 ELSE [k \in IterKeys |-> IF k \in DOMAIN collected THEN Missing ELSE source[k]]
    /\ UNCHANGED <<collected, answer, touched, strayed>>

IterNext ==
    \/ \E k \in IterKeys, v \in SourceValues \cup {Missing} : WriteSource(k, v)
    \/ \E h \in {"browse", "backup", "delete"} : Begin(h)
    \/ Browse \/ Visit \/ EndLoop

IterSpec == IterInit /\ [][IterNext]_iterVars

-----------------------------------------------------------------------------

IterTypeOK ==
    /\ source \in [IterKeys -> SourceValues \cup {Missing}]
    /\ iter.keys \in Seq(IterKeys) /\ iter.index \in -2 .. Len(iter.keys) + 1
    /\ helper \in {"none", "browse", "backup", "delete", "saved", "deleted"}
    /\ DOMAIN collected \subseteq IterKeys /\ touched \subseteq IterKeys
    /\ answer \in BOOLEAN /\ strayed \in BOOLEAN

\* From every position Seek lands on the first key that is not smaller than
\* the one sought, or behind the last one (filedb.go:445-464): the binary search
\* and the Next it ends with agree.
SeekFinds ==
    \A k \in IterKeys :
        SeekTo(iter, k).index = Cardinality({i \in DOMAIN iter.keys : iter.keys[i] < k})

\* TRUE means there is a key to read (filedb.go:429-443), for a caller who
\* goes no further than the places before the first and after the last key.
\* One who goes on in the direction that answered FALSE, or who begins with a
\* Prev, which fails and leaves the index at -2, then gets TRUE where Key is
\* nil, since each of Next and Prev tests one end alone.
TrueHasKey == helper = "browse" /\ answer /\ ~ strayed => Valid(iter)

\* What a helper does to the keys nobody wrote while it ran is what it would
\* do alone: a backup holds exactly those that are there with their values,
\* DeletePrefix leaves none (utils.go:140-160, 212-223).  A key deleted after
\* the iterator was made is saved as an empty value, never with an older one.
HelpersUndisturbed ==
    /\ helper = "saved" =>
        /\ \A k \in Prefix \ touched :
                /\ k \in Present <=> k \in DOMAIN collected
                /\ k \in Present => collected[k] = source[k]
        /\ \A k \in DOMAIN collected : collected[k] = Empty => k \in touched
    /\ helper = "deleted" => \A k \in Prefix \ touched : source[k] = Missing

=============================================================================
