------------------------------- MODULE StringMap -------------------------------
(***************************************************************************)
(* The tables of base/map.c, as used for the header names and the mime     *)
(* types: an array of buckets, each a slot in the array and a chain of     *)
(* slots behind it.  A key is a text (a sequence of characters) with the   *)
(* length its sy_string_t claims: the hash reads that length, the          *)
(* comparison reads on to a terminating zero.                              *)
(***************************************************************************)
EXTENDS Integers, Sequences

CONSTANTS Code,     \* the code of each character, a natural number
          MapSize   \* the number of buckets, one at least

\* Where sy_hash_t wraps.  TLC's integers end at 2^31, so it is 2^20 here and not 2^32.
HashRange == 1048576

\* sy_string_hash.
Hash(text, len) ==
    LET hash[i \in 0 .. len] ==
            IF i = 0 THEN 0 ELSE (hash[i - 1] * 31 + Code[text[i]]) % HashRange
    IN  hash[len]

EmptyMap == [b \in 0 .. MapSize - 1 |-> <<>>]

\* sy_map_put.  A new slot goes behind the first one of its bucket; nothing looks for an
\* older slot of the same key.
MapPut(map, key, val) ==
    LET b == Hash(key, Len(key)) % MapSize
    IN  [map EXCEPT ![b] = IF @ = <<>> THEN <<[key |-> key, val |-> val]>>
                           ELSE <<Head(@), [key |-> key, val |-> val]>> \o Tail(@)]

\* sy_map_put of every row of a table, in order.
MapOf(table) ==
    LET map[i \in 0 .. Len(table)] ==
            IF i = 0 THEN EmptyMap ELSE MapPut(map[i - 1], table[i][1], table[i][2])
    IN  map[Len(table)]

\* sy_map_get with sy_string_eq: text runs from the key's data to the next zero, len is
\* what the key says.
MapGet(map, text, len, none) ==
    LET chain == map[Hash(text, len) % MapSize]
        Found == {i \in DOMAIN chain : chain[i].key = text}
    IN  IF Found = {} THEN none ELSE chain[CHOOSE i \in Found : \A j \in Found : i <= j].val
===============================================================================
