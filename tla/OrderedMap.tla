----------------------------- MODULE OrderedMap -----------------------------
(* OrderedMap (common/utils/zmap.go): a map that keeps the order in which its
   keys were inserted, as a linked list and an index from keys to the list's
   elements, behind a read-write lock.  Each walks over a snapshot outside the
   lock, and its callback may change the map.                                *)
EXTENDS Naturals, Sequences, FiniteSets, SequencesExt

CONSTANTS Keys_, Values_, Walkers,
          MaxElements,   \* bound: elements made in one behaviour
          None

VARIABLES list,       \* the linked list: element numbers, front to back
          pair,       \* the pair each element holds
          elements,   \* the index
          walk,       \* what is left of each walker's snapshot
          seen,       \* the pairs each walker's callback was given
          shot,       \* the abstract map when the snapshot was taken
          map, order  \* the abstract map and the order of its keys

vars == <<list, pair, elements, walk, seen, shot, map, order>>

Made == DOMAIN pair
Pairs_ == [key : Keys_, value : Values_]

TypeOK == /\ Range(list) \subseteq Made
          /\ Made = 1 .. Cardinality(Made) /\ Cardinality(Made) <= MaxElements
          /\ pair \in [Made -> Pairs_]
          /\ elements \in [Keys_ -> Made \cup {None}]
          /\ \A w \in Walkers : Range(walk[w]) \cup Range(seen[w]) \subseteq Pairs_

(* snapshot, and snapshotReverse *)
snapshot == [i \in DOMAIN list |-> pair[list[i]]]

(* What the map promises: its pairs in the order of first insertion. *)
Contents == [i \in DOMAIN order |-> [key |-> order[i], value |-> map[order[i]]]]

Init == /\ list = <<>>
        /\ pair = [i \in {} |-> None]
        /\ elements = [k \in Keys_ |-> None]
        /\ walk = [w \in Walkers |-> <<>>] /\ seen = walk /\ shot = walk
        /\ map = [k \in Keys_ |-> None] /\ order = <<>>

(* Mutant: an update moves the key to the end. *)
SetMoves(k, v) ==
    /\ Cardinality(Made) < MaxElements
    /\ LET e == Cardinality(Made) + 1
       IN  /\ pair' = [i \in Made \cup {e} |-> IF i = e THEN [key |-> k, value |-> v] ELSE pair[i]]
           /\ list' = Append(SelectSeq(list, LAMBDA i : i # elements[k]), e)
           /\ elements' = [elements EXCEPT ![k] = e]
    /\ map' = [map EXCEPT ![k] = v]
    /\ order' = IF map[k] = None THEN Append(order, k) ELSE order

Set(k, v) ==
    /\ IF elements[k] # None
       THEN /\ pair' = [pair EXCEPT ![elements[k]] = [key |-> k, value |-> v]]
            /\ UNCHANGED <<list, elements>>
       ELSE /\ Cardinality(Made) < MaxElements
            /\ LET e == Cardinality(Made) + 1
               IN  /\ pair' = [i \in Made \cup {e} |->
                                  IF i = e THEN [key |-> k, value |-> v] ELSE pair[i]]
                   /\ list' = Append(list, e)
                   /\ elements' = [elements EXCEPT ![k] = e]
    /\ map' = [map EXCEPT ![k] = v]
    /\ order' = IF map[k] = None THEN Append(order, k) ELSE order

Del(k) ==
    /\ elements[k] # None
    /\ list' = SelectSeq(list, LAMBDA i : i # elements[k])
    /\ elements' = [elements EXCEPT ![k] = None]
    /\ map' = [map EXCEPT ![k] = None]
    /\ order' = SelectSeq(order, LAMBDA o : o # k)
    /\ UNCHANGED pair

(* Each and EachReverse take their snapshot under the lock. *)
Each(w, reverse) ==
    /\ walk[w] = <<>>
    /\ list # <<>>
    /\ walk' = [walk EXCEPT ![w] = IF reverse THEN Reverse(snapshot) ELSE snapshot]
    /\ seen' = [seen EXCEPT ![w] = <<>>]
    /\ shot' = [shot EXCEPT ![w] = IF reverse THEN Reverse(Contents) ELSE Contents]
    /\ UNCHANGED <<list, pair, elements, map, order>>

(* Mutant: the walk looks the value up again. *)
VisitLive(w, stop) ==
    /\ walk[w] # <<>>
    /\ LET k == Head(walk[w]).key
       IN  seen' = [seen EXCEPT ![w] = Append(@,
                      IF elements[k] = None THEN Head(walk[w]) ELSE pair[elements[k]])]
    /\ walk' = [walk EXCEPT ![w] = IF stop THEN <<>> ELSE Tail(@)]
    /\ UNCHANGED <<list, pair, elements, shot, map, order>>

(* The callback gets the next pair; it may end the walk by returning false. *)
Visit(w, stop) ==
    /\ walk[w] # <<>>
    /\ seen' = [seen EXCEPT ![w] = Append(@, Head(walk[w]))]
    /\ walk' = [walk EXCEPT ![w] = IF stop THEN <<>> ELSE Tail(@)]
    /\ UNCHANGED <<list, pair, elements, shot, map, order>>

Next == \/ \E k \in Keys_, v \in Values_ : Set(k, v) /\ UNCHANGED <<walk, seen, shot>>
        \/ \E k \in Keys_ : Del(k) /\ UNCHANGED <<walk, seen, shot>>
        \/ \E w \in Walkers, b \in BOOLEAN : Each(w, b) \/ Visit(w, b)

Spec == Init /\ [][Next]_vars

---------------------------------------------------------------------------
(* The list and the index together are the map: Pairs, Keys and Values list
   the keys once each, in the order of their first insertion and with their
   last value, Get and Has agree with that, and Len counts them. *)
ListIsMap ==
    /\ snapshot = Contents
    /\ \A k \in Keys_ : IF map[k] = None THEN elements[k] = None
                        ELSE elements[k] \in Range(list) /\ pair[elements[k]] = [key |-> k, value |-> map[k]]

(* A walk shows the map as it was at one moment, whatever its callback or
   another goroutine changes meanwhile: what was shown is a beginning of the
   contents at the snapshot, and the rest is still to come unless the callback
   stopped. *)
WalkIsSnapshot ==
    \A w \in Walkers :
        /\ IsPrefix(seen[w], shot[w])
        /\ walk[w] # <<>> => seen[w] \o walk[w] = shot[w]
=============================================================================
