------------------------------ MODULE LruCache ------------------------------
(***************************************************************************)
(* A cache bounded by the number of its entries and by their bytes, with   *)
(* entries that expire: the signatures of tool calls                       *)
(* (convert/signature_cache.go) and the history of responses               *)
(* (httpapi/responses.go).  Both keep their entries in order of use and    *)
(* count their bytes in a variable beside them.                            *)
(*                                                                         *)
(* A cache is [entries, bytes], an entry [key, value, size, old], the most *)
(* recently used one first; "old" says that its time is over.              *)
(***************************************************************************)
EXTENDS Selection

EmptyCache == [entries |-> <<>>, bytes |-> 0]

Holds(c, k) == \E i \in DOMAIN c.entries : c.entries[i].key = k

EntryOf(c, k) == c.entries[CHOOSE i \in DOMAIN c.entries : c.entries[i].key = k]

SizeOfAll(entries) == FoldLeft(LAMBDA n, e : n + e.size, 0, entries)

\* remove, removeCachedSignature: the entries at some places are taken out.
Without(c, gone) ==
  [entries |-> Among(c.entries, DOMAIN c.entries \ gone),
   bytes   |-> c.bytes - SizeOfAll(Among(c.entries, gone))]

Under(c, k) == {i \in DOMAIN c.entries : c.entries[i].key = k}

\* The least recently used entries make room for one more of that size; one
\* that can never fit empties the cache.
Fits(c, n, size, limit) ==
  /\ n < limit.entries
  /\ c.bytes - SizeOfAll(SubSeq(c.entries, n + 1, Len(c.entries))) + size <= limit.bytes

WithRoom(c, size, limit) ==
  LET keep == {n \in 0..Len(c.entries) : Fits(c, n, size, limit)}
      most == IF keep = {} THEN 0 ELSE CHOOSE n \in keep : \A m \in keep : m <= n
      kept == SubSeq(c.entries, 1, most)
  IN  [entries |-> kept, bytes |-> c.bytes - SizeOfAll(SubSeq(c.entries, most + 1, Len(c.entries)))]

InFront(c, e, limit) ==
  IF Fits(c, Len(c.entries), e.size, limit)
  THEN [entries |-> <<e>> \o c.entries, bytes |-> c.bytes + e.size] ELSE c

Entry(k, value, size) == [key |-> k, value |-> value, size |-> size, old |-> FALSE]

-----------------------------------------------------------------------------
\* (mutant) The bytes of a replaced entry stay counted.
Replaced_Counted(c, k) == [c EXCEPT !.entries = Among(@, DOMAIN @ \ Under(c, k))]

Replaced(c, k) == Without(c, Under(c, k))

\* RememberToolSignature; what is too large is not kept.
Remember(c, k, value, size, limit) ==
  IF size > limit.single THEN c
  ELSE InFront(WithRoom(Replaced(c, k), size, limit), Entry(k, value, size), limit)

\* responseHistory.put also takes out everything that expired.
Put(c, k, value, size, limit) ==
  IF size > limit.single THEN c
  ELSE LET rest == Replaced(c, k)
           fresh == Without(rest, {i \in DOMAIN rest.entries : rest.entries[i].old})
       IN  InFront(WithRoom(fresh, size, limit), Entry(k, value, size), limit)

\* The value of a key that has not expired; responseHistory.get and
\* RecallToolSignature find the same.
Finds(c, k) == Holds(c, k) /\ ~EntryOf(c, k).old

\* ... and what the look leaves: the entry in front, or without it.
Touched(c, k) ==
  IF ~Holds(c, k) THEN c
  ELSE IF EntryOf(c, k).old THEN Without(c, Under(c, k))
  ELSE [c EXCEPT !.entries = <<EntryOf(c, k)>> \o Among(@, DOMAIN @ \ Under(c, k))]

Expired(c, k) ==
  LET Over(e) == [e EXCEPT !.old = e.old \/ e.key = k]
  IN  [c EXCEPT !.entries = [i \in DOMAIN c.entries |-> Over(c.entries[i])]]

\* No drift: the count is that of the entries, whose keys differ, and both
\* bounds hold.
IsExact(c, limit) ==
  /\ c.bytes = SizeOfAll(c.entries) /\ c.bytes <= limit.bytes
  /\ Len(c.entries) <= limit.entries
  /\ \A i, j \in DOMAIN c.entries : c.entries[i].key = c.entries[j].key => i = j
=============================================================================
