------------------------------ MODULE HashTable ------------------------------
(***************************************************************************)
(* The hash tables of the server (list.c, list.h): buckets of linked       *)
(* elements, a lookup that moves what it finds to the front, an iterator   *)
(* over a range of buckets, and the two ways of removal under it: marking  *)
(* the element returned last, which goes when the iterator leaves its      *)
(* bucket (multi_reap_range, multi_delete_dup), and hash_remove of it from *)
(* within the loop (a client killed by name or address).                   *)
(*                                                                         *)
(* A loop runs to its end before the table is used otherwise, and every    *)
(* loop removes in one way.  An element is known by its key; which bucket  *)
(* a key belongs to is a constant.  The mutexes are empty: one thread.     *)
(***************************************************************************)
EXTENDS Integers, Sequences, SequencesExt, FiniteSetsExt

CONSTANTS
    HashKeys,     \* keys
    HashValues,   \* values
    HashOf,       \* the bucket of a key
    NHashBuckets, \* n_buckets
    NoElem        \* a null pointer

ASSUME HashAssumption ==
    /\ NHashBuckets \in Nat \ {0} /\ HashOf \in [HashKeys -> 0 .. NHashBuckets - 1]
    /\ NoElem \notin HashKeys \cup HashValues

VARIABLES
    ht,      \* struct hash: list of each bucket, value and key (null if marked), n_elements
    hi,      \* struct hash_iterator, and the way the loop removes; off between loops
    visited, \* history: the elements the loop got, in order
    expected,\* history: the elements in the range when the loop began
    content  \* history: what the callers have put in and not taken out

hashVars == <<ht, hi, visited, expected, content>>

HashBuckets == 0 .. NHashBuckets - 1
NoIterator == [on |-> FALSE, how |-> "mark", bucket_index |-> -1, bucket_index_end |-> 0,
               bucket |-> -1, elem |-> NoElem, last |-> NoElem, bucket_marked |-> FALSE]

-----------------------------------------------------------------------------
(* list.c, from table to table.                                            *)

InBucket(h, k) == \E n \in DOMAIN h.list[HashOf[k]] : h.list[HashOf[k]][n] = k /\ ~h.marked[k]

\* mutant: the element found is put in front and left in its place.
hash_lookup_fast_Twice(h, k) ==
    IF InBucket(h, k) /\ Head(h.list[HashOf[k]]) # k THEN [h EXCEPT !.list[HashOf[k]] = <<k>> \o @] ELSE h

\* "move to head of list"
hash_lookup_fast(h, k) ==
    IF InBucket(h, k) THEN [h EXCEPT !.list[HashOf[k]] = <<k>> \o SelectSeq(@, LAMBDA e : e # k)] ELSE h

hash_add_fast(h, k, v) ==
    [h EXCEPT !.list[HashOf[k]] = <<k>> \o @, !.value[k] = v, !.marked[k] = FALSE, !.n_elements = @ + 1]

\* hash_add, after its lookup
hash_add(h, k, v, replace) ==
    LET found == hash_lookup_fast(h, k) IN
        IF ~InBucket(h, k) THEN hash_add_fast(found, k, v)
        ELSE IF replace THEN [found EXCEPT !.value[k] = v] ELSE found

\* free: the elements of S are no more
Freed(h, S) ==
    [h EXCEPT !.value = [k \in HashKeys |-> IF k \in S THEN NoElem ELSE @[k]],
              !.marked = [k \in HashKeys |-> @[k] /\ k \notin S],
              !.n_elements = @ - Cardinality(S)]

hash_remove_fast(h, k) ==
    IF InBucket(h, k)
    THEN Freed([h EXCEPT !.list[HashOf[k]] = SelectSeq(@, LAMBDA e : e # k)], {k}) ELSE h

\* mutant: the element after a removed one is not looked at.
hash_remove_marked_Skip(h, b) ==
    LET q == h.list[b]
        out == {n \in DOMAIN q : h.marked[q[n]] /\ (n = 1 \/ ~h.marked[q[n - 1]])}
        left == SetToSortSeq(DOMAIN q \ out, <)
    IN  Freed([h EXCEPT !.list[b] = [n \in DOMAIN left |-> q[left[n]]]], {q[n] : n \in out})

hash_remove_marked(h, b) ==
    Freed([h EXCEPT !.list[b] = SelectSeq(@, LAMBDA e : ~h.marked[e])],
          {e \in ToSet(h.list[b]) : h.marked[e]})

\* hash_iterator_unlock: the table, then the iterator
Unlocked(h, i) == IF i.bucket # -1 /\ i.bucket_marked THEN hash_remove_marked(h, i.bucket) ELSE h
hash_iterator_unlock(i) == [i EXCEPT !.bucket = -1, !.last = NoElem, !.bucket_marked = FALSE]

\* elem->next; an element that was freed has none to speak of
NextElem(h, e) ==
    LET q == h.list[HashOf[e]]
        at == {n \in DOMAIN q : q[n] = e}
    IN  IF at = {} \/ Max(at) = Len(q) THEN NoElem ELSE q[Max(at) + 1]

\* mutant: the element is left behind only when the next one is asked for.
hash_iterator_advance_Late(h, i) ==
    LET e == IF i.last = i.elem THEN NextElem(h, i.elem) ELSE i.elem
    IN  [i EXCEPT !.last = e, !.elem = e]

\* the iterator is past an element before the loop sees it
hash_iterator_advance(h, i) == [i EXCEPT !.last = i.elem, !.elem = NextElem(h, i.elem)]

-----------------------------------------------------------------------------
(* The callers.                                                            *)

HashInit ==
    /\ ht = [list |-> [b \in HashBuckets |-> <<>>], value |-> [k \in HashKeys |-> NoElem],
             marked |-> [k \in HashKeys |-> FALSE], n_elements |-> 0]
    /\ hi = NoIterator /\ visited = <<>> /\ expected = {}
    /\ content = [k \in HashKeys |-> NoElem]

HashAdd(k, v, replace) ==
    /\ ~hi.on
    /\ ht' = hash_add(ht, k, v, replace)
    /\ content' = IF content[k] = NoElem \/ replace THEN [content EXCEPT ![k] = v] ELSE content
    /\ visited' = <<>> /\ expected' = {} /\ UNCHANGED hi

HashLookup(k) ==
    /\ ~hi.on
    /\ ht' = hash_lookup_fast(ht, k)
    /\ visited' = <<>> /\ expected' = {} /\ UNCHANGED <<hi, content>>

HashRemove(k) ==
    /\ ~hi.on
    /\ ht' = hash_remove_fast(ht, k)
    /\ content' = [content EXCEPT ![k] = NoElem]
    /\ visited' = <<>> /\ expected' = {} /\ UNCHANGED hi

\* hash_iterator_init_range, at the top of a loop
IteratorInit(start, end, how) ==
    /\ ~hi.on
    /\ hi' = [NoIterator EXCEPT !.on = TRUE, !.how = how, !.bucket_index = start - 1,
                                !.bucket_index_end = IF end > NHashBuckets THEN NHashBuckets ELSE end]
    /\ visited' = <<>>
    /\ expected' = {k \in HashKeys : content[k] # NoElem /\ HashOf[k] \in start .. end - 1}
    /\ UNCHANGED <<ht, content>>

\* hash_iterator_next with elements left in the bucket
NextInBucket ==
    /\ hi.on /\ hi.elem # NoElem
    /\ hi' = hash_iterator_advance(ht, hi)
    /\ visited' = Append(visited, hi'.last)
    /\ UNCHANGED <<ht, expected, content>>

\* hash_iterator_next goes to the next bucket that is not empty, and leaves the old one
NextBucket ==
    LET h == IF hi.bucket_index + 1 < hi.bucket_index_end THEN Unlocked(ht, hi) ELSE ht
        rest == {b \in hi.bucket_index + 1 .. hi.bucket_index_end - 1 : h.list[b] # <<>>}
        b == Min(rest)
    IN  /\ hi.on /\ hi.elem = NoElem /\ rest # {}
        /\ ht' = h
        /\ hi' = hash_iterator_advance(h, [hash_iterator_unlock(hi) EXCEPT
                     !.bucket_index = b, !.bucket = b, !.elem = Head(h.list[b])])
        /\ visited' = Append(visited, hi'.last)
        /\ UNCHANGED <<expected, content>>

\* mutant: the last bucket of the range is never left.
NextNone_Free ==
    /\ hi.on /\ hi.elem = NoElem
    /\ \A b \in hi.bucket_index + 1 .. hi.bucket_index_end - 1 : ht.list[b] = <<>>
    /\ ht' = IF hi.bucket_index + 1 < hi.bucket_index_end THEN Unlocked(ht, hi) ELSE ht
    /\ hi' = NoIterator
    /\ UNCHANGED <<visited, expected, content>>

\* hash_iterator_next finds no bucket any more; the loop ends with hash_iterator_free
NextNone ==
    /\ hi.on /\ hi.elem = NoElem
    /\ \A b \in hi.bucket_index + 1 .. hi.bucket_index_end - 1 : ht.list[b] = <<>>
    /\ ht' = Unlocked(ht, hi)
    /\ hi' = NoIterator
    /\ UNCHANGED <<visited, expected, content>>

\* hash_iterator_delete_element
DeleteElement ==
    /\ hi.on /\ hi.how = "mark" /\ hi.last # NoElem /\ content[hi.last] # NoElem
    /\ ht' = [ht EXCEPT !.marked[hi.last] = TRUE]
    /\ hi' = [hi EXCEPT !.bucket_marked = TRUE]
    /\ content' = [content EXCEPT ![hi.last] = NoElem]
    /\ UNCHANGED <<visited, expected>>

\* the loop closes the client it is at, which removes it from the table
RemoveUnderLoop ==
    /\ hi.on /\ hi.how = "remove" /\ hi.last # NoElem /\ content[hi.last] # NoElem
    /\ ht' = hash_remove_fast(ht, hi.last)
    /\ content' = [content EXCEPT ![hi.last] = NoElem]
    /\ UNCHANGED <<hi, visited, expected>>

HashNext ==
    \/ \E k \in HashKeys : HashLookup(k) \/ HashRemove(k) \/ \E v \in HashValues, r \in BOOLEAN : HashAdd(k, v, r)
    \/ \E start \in HashBuckets, end \in 1 .. NHashBuckets, how \in {"mark", "remove"} :
         start <= end /\ IteratorInit(start, end, how)
    \/ NextInBucket \/ NextBucket \/ NextNone \/ DeleteElement \/ RemoveUnderLoop

HashSpec == HashInit /\ [][HashNext]_hashVars

-----------------------------------------------------------------------------
(* Properties.                                                             *)

\* The lists hold what the callers put in and did not take out, each key once and in its
\* bucket, with its last value, besides marked elements of the bucket the iterator is in;
\* n_elements, which --max-clients is held against, counts them.
Holds ==
    /\ \A k \in HashKeys : (content[k] # NoElem) = InBucket(ht, k)
    /\ \A k \in HashKeys : content[k] # NoElem => ht.value[k] = content[k]
    /\ \A b \in HashBuckets :
         /\ IsInjective(ht.list[b]) /\ \A k \in ToSet(ht.list[b]) : HashOf[k] = b
         /\ \A k \in ToSet(ht.list[b]) : ht.marked[k] => hi.on /\ hi.bucket = b /\ hi.bucket_marked
    /\ ht.n_elements = MapThenSumSet(LAMBDA b : Len(ht.list[b]), HashBuckets)

\* The iterator never holds an element that was freed when it comes to use it.
NoFreedElem == hi.on /\ hi.elem # NoElem => InBucket(ht, hi.elem)

\* A loop gets no element twice and, when it is over, had every element of its range,
\* whichever of them it removed on the way.
VisitsAll ==
    /\ IsInjective(visited)
    /\ ToSet(visited) \subseteq expected
    /\ ~hi.on => ToSet(visited) = expected

\* The table is a map from keys to values, under loops that remove too.
HashInv == Holds /\ NoFreedElem /\ VisitsAll
=============================================================================
