------------------------------ MODULE StorageKeys ------------------------------
(***************************************************************************)
(* The keys of a store: an entity's key is put together from chunks of a    *)
(* schema, padded to their length, and a range of keys is asked for by the  *)
(* first chunks of its bounds. LevelDB orders keys as strings.              *)
(***************************************************************************)
EXTENDS LevelStorage

NoBound == <<Undefined>>

VariableLength == 0

Repeated(c, n) == IF n <= 0 THEN <<>> ELSE [i \in 1..n |-> c]
-----------------------------------------------------------------------------

Filled(schema, key) ==
  LET fill == Repeated(MinChar, schema.length - Len(key))
  IN IF schema.padEnd THEN key \o fill ELSE fill \o key

Cut(schema, key) ==
  IF schema.length = VariableLength \/ Len(key) <= schema.length THEN key
  ELSE IF schema.padEnd THEN SubSeq(key, 1, schema.length)
  ELSE SubSeq(key, Len(key) - schema.length + 1, Len(key))

(* A lone "!" or "~" fills the whole chunk.                                 *)
Stretched(schema, key) ==
  IF key \in {<<MinChar>>, <<MaxChar>>} /\ schema.length # VariableLength
    THEN Repeated(key[1], schema.length) ELSE key

GetKeyChunk(schema, key) == Filled(schema, Cut(schema, Stretched(schema, key)))

(* getAllSubkeysStartingFrom: a chunk may have several values, each has     *)
(* keys of its own; where a chunk has none the key ends.                    *)
KeysEndingIn(suffix, schemas, values) ==
  LET from[c \in 1..Len(schemas) + 1] ==
        IF c > Len(schemas) THEN {}
        ELSE UNION {
          LET chunk == GetKeyChunk(schemas[c], v)
          IN IF from[c + 1] = {} THEN {chunk \o suffix}
             ELSE {chunk \o <<Delim>> \o rest : rest \in from[c + 1]}
          : v \in values[c] \ {Undefined}}
  IN from[1]

PrimaryKeys(schemas, values) == KeysEndingIn(<<>>, schemas, values)

IndexKeys(schemas, values, primaryKey) == KeysEndingIn(<<Bar>> \o primaryKey, schemas, values)

(* mapItem: what stands between the first "|" of an index key and the next. *)
EntityKey(key) ==
  LET bars == {i \in DOMAIN key : key[i] = Bar}
      first == CHOOSE i \in bars : \A j \in bars : i <= j
      later == {j \in bars \cup {Len(key) + 1} : j > first}
      next == CHOOSE i \in later : \A j \in later : i <= j
  IN SubSeq(key, first + 1, next - 1)
-----------------------------------------------------------------------------
(* mapKeyChunks: an undefined chunk before the last is the least or the     *)
(* greatest there is, an undefined last chunk is left out.                  *)
MapKeyChunks(schemas, chunks, isEnd) ==
  LET given(i) == IF chunks[i] = Undefined /\ i < Len(chunks)
                    THEN <<IF isEnd THEN MaxChar ELSE MinChar>> ELSE chunks[i]
      mapped == [i \in DOMAIN chunks |->
                   IF given(i) = Undefined THEN Undefined ELSE GetKeyChunk(schemas[i], given(i))]
  IN SelectSeq(mapped, LAMBDA chunk : chunk # Undefined)

(* A query of an entity store or of an index: its bounds are mapped to the  *)
(* chunks of keys; a bound that is not given stays so.                      *)
From(schemas, start) == IF start = NoBound THEN NoChunks ELSE MapKeyChunks(schemas, start, FALSE)
To(schemas, end) == IF end = NoBound THEN NoChunks ELSE MapKeyChunks(schemas, end, TRUE)

(* getAllFromTo, of entries, keys or values. *)
GetEntries(schemas, keys, start, end, reverse) ==
  GetAllFromTo(keys, From(schemas, start), To(schemas, end), reverse)

GetFirstEntry(schemas, keys, start, end) == GetFirstFromTo(keys, From(schemas, start), To(schemas, end))
GetLastEntry(schemas, keys, start, end) == GetLastFromTo(keys, From(schemas, start), To(schemas, end))

(* mapItemToKey: those of an index give the keys of their entities. *)
GetKeys(schemas, keys, start, end, reverse) ==
  LET found == GetEntries(schemas, keys, start, end, reverse)
  IN [i \in DOMAIN found |-> EntityKey(found[i])]

(* getAll, with getAllKeys and getAllValues: last ones first unless asked.  *)
GetAllEntries(schemas, keys) == GetEntries(schemas, keys, NoBound, NoBound, TRUE)

(* getFirstKey, getFirstValue, and the last ones. *)
GetFirstOfAll(schemas, keys) == GetFirstEntry(schemas, keys, NoBound, NoBound)
GetLastOfAll(schemas, keys) == GetLastEntry(schemas, keys, NoBound, NoBound)

(* get, getMany: by the chunks of a primary key. *)
GetEntity(schemas, keys, values) == Get(keys, MapKeyChunks(schemas, values, TRUE))
GetEntities(schemas, keys, several) ==
  GetMany(keys, [i \in DOMAIN several |-> MapKeyChunks(schemas, several[i], TRUE)])

(* exists takes the composed key. *)
EntityExists(keys, key) == Exists(keys, <<key>>)
=============================================================================
