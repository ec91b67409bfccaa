-------------------------- MODULE ModelCacheProofs --------------------------
(***************************************************************************)
(* What the cache of a generated model may hold, for any number of rows,   *)
(* writers and lookups, in any interleaving of calls, deletes that fail,   *)
(* crashes and lookups.                                                    *)
(***************************************************************************)
EXTENDS ModelCache, SequenceTheorems, TLAPS

Table == [Pk -> Row \cup {Missing}]

\* The keys under which the database d and the database e may differ: those of
\* the rows that are not the same, as they are in d and as they are in e.
MovedKeys(d, e) ==
    LET moved == {p \in Pk : d[p] # e[p]}
    IN  moved \cup {d[p].u : p \in {q \in moved : d[q] # Missing}}
              \cup {e[p].u : p \in {q \in moved : e[q] # Missing}}

\* The keys of a list of sets of keys.
Keys(list) == UNION {list[i] : i \in 1 .. Len(list)}

\* A setting in which only the cleaning methods are used, no lookup overlaps a
\* write, and no delete is lost.
Calm == setting.methods \subseteq Cleaning /\ ~setting.racing /\ ~setting.faults

\* Then a lookup holds what the database says.
LookupsTrue ==
    Calm => \A r \in Reader :
      /\ reader[r].at = "fillRow" => /\ Truth(db, reader[r].key) = reader[r].pk
                                     /\ db[reader[r].pk] = reader[r].row
      /\ reader[r].at = "fill" => Truth(db, reader[r].key) = reader[r].entry

\* A stale key is one that is still to be deleted, or a unique value that its
\* row has given up.
GivenUpOrWaiting ==
    Calm => \A k \in Stale(cache, db) : k \in Waiting \/ (k \in Uniq /\ Truth(db, k) = Missing)

\* The inductive invariant.
CacheInv == CacheTypeOK /\ StaleIsAccounted /\ LookupsTrue /\ GivenUpOrWaiting
-----------------------------------------------------------------------------
(* The database and its keys.                                                *)

LEMMA TruthOfPk ==
    ASSUME NEW d, NEW k \in Pk
    PROVE  Truth(d, k) = d[k]
BY DEF Truth

\* A unique value belongs to the one row that has it.
LEMMA TruthOfUniq ==
    ASSUME NEW d \in Table, UniqueIndex(d), NEW k \in Uniq
    PROVE  /\ \A p \in Pk : d[p] # Missing /\ d[p].u = k => Truth(d, k) = p
           /\ (\A p \in Pk : d[p] = Missing \/ d[p].u # k) => Truth(d, k) = Missing
           /\ Truth(d, k) # Missing =>
                \E p \in Pk : d[p] # Missing /\ d[p].u = k /\ Truth(d, k) = p
<1> DEFINE owner == {p \in Pk : d[p] # Missing /\ d[p].u = k}
<1>1. k \notin Pk
  BY KeyAssumption
<1>2. Truth(d, k) = IF owner = {} THEN Missing ELSE CHOOSE p \in owner : TRUE
  BY <1>1 DEF Truth
<1>3. ASSUME NEW p \in owner PROVE Truth(d, k) = p
  <2>1. \A q \in owner : q = p
    BY DEF UniqueIndex
  <2> QED
    BY <1>2, <2>1
<1>4. owner = {} => Truth(d, k) = Missing
  BY <1>2
<1> QED
  BY <1>3, <1>4

LEMMA TruthIsAnswer ==
    ASSUME NEW d \in Table, UniqueIndex(d), NEW k \in Key
    PROVE  Truth(d, k) \in Answer(k)
<1>1. CASE k \in Pk
  BY <1>1, TruthOfPk DEF Answer, Table
<1>2. CASE k \in Uniq
  BY <1>2, KeyAssumption, TruthOfUniq DEF Answer
<1> QED
  BY <1>1, <1>2 DEF Key

\* A write changes what the database has under the keys of the rows it changes
\* and under no other.
LEMMA TruthMoves ==
    ASSUME NEW d \in Table, NEW e \in Table, UniqueIndex(d), UniqueIndex(e),
           NEW k \in Key, Truth(d, k) # Truth(e, k)
    PROVE  k \in MovedKeys(d, e)
<1>1. CASE k \in Pk
  BY <1>1, TruthOfPk DEF MovedKeys
<1>2. ASSUME k \in Uniq, k \notin MovedKeys(d, e) PROVE FALSE
  <2>1. \A p \in Pk : d[p] # e[p] => (d[p] # Missing => d[p].u # k) /\ (e[p] # Missing => e[p].u # k)
    BY <1>2 DEF MovedKeys
  <2>2. \A p \in Pk : d[p] # Missing /\ d[p].u = k <=> e[p] # Missing /\ e[p].u = k
    BY <2>1
  <2>3. CASE \E p \in Pk : d[p] # Missing /\ d[p].u = k
    <3>1. PICK p \in Pk : d[p] # Missing /\ d[p].u = k
      BY <2>3
    <3> QED
      BY <1>2, <2>2, <3>1, TruthOfUniq
  <2>4. CASE \A p \in Pk : d[p] = Missing \/ d[p].u # k
    BY <1>2, <2>2, <2>4, TruthOfUniq
  <2> QED
    BY <2>3, <2>4
<1> QED
  BY <1>1, <1>2 DEF Key
-----------------------------------------------------------------------------
(* What is left to delete.                                                   *)

LEMMA WaitingKeys ==
    Waiting = (UNION {retry[w] : w \in Writer}) \cup (UNION {Keys(clearing[w]) : w \in Writer})
BY DEF Waiting, Keys

LEMMA KeysOfEmpty == Keys(<<>>) = {}
BY EmptySeq DEF Keys

LEMMA KeysOfOne ==
    ASSUME NEW keys
    PROVE  Keys(<<keys>>) = keys
BY DEF Keys

LEMMA KeysOfTwo ==
    ASSUME NEW keys, NEW others
    PROVE  Keys(<<keys, others>>) = keys \cup others
BY DEF Keys

\* The head, and the rest.
LEMMA KeysOfTail ==
    ASSUME NEW S, NEW list \in Seq(S), list # <<>>
    PROVE  Tail(list) \in Seq(S) /\ Head(list) \in S /\ Keys(list) = Head(list) \cup Keys(Tail(list))
<1>1. /\ Tail(list) \in Seq(S) /\ Head(list) = list[1] /\ Head(list) \in S
      /\ Len(list) \in Nat \ {0} /\ Len(Tail(list)) = Len(list) - 1
      /\ \A i \in 1 .. Len(list) - 1 : Tail(list)[i] = list[i + 1]
  OBVIOUS
<1>2. ASSUME NEW k \in Keys(list) PROVE k \in Head(list) \cup Keys(Tail(list))
  <2>1. PICK i \in 1 .. Len(list) : k \in list[i]
    BY DEF Keys
  <2>2. CASE i = 1
    BY <1>1, <2>1, <2>2
  <2>3. CASE i # 1
    <3>1. i - 1 \in 1 .. Len(Tail(list)) /\ Tail(list)[i - 1] = list[i]
      BY <1>1, <2>3
    <3> QED
      BY <2>1, <3>1 DEF Keys
  <2> QED
    BY <2>2, <2>3
<1>3. ASSUME NEW k \in Keys(Tail(list)) PROVE k \in Keys(list)
  <2>1. PICK i \in 1 .. Len(Tail(list)) : k \in Tail(list)[i]
    BY <1>3 DEF Keys
  <2>2. i + 1 \in 1 .. Len(list) /\ k \in list[i + 1]
    BY <1>1, <2>1
  <2> QED
    BY <2>2 DEF Keys
<1>4. ASSUME NEW k \in Head(list) PROVE k \in Keys(list)
  <2>1. 1 \in 1 .. Len(list) /\ k \in list[1]
    BY <1>1, <1>4
  <2> QED
    BY <2>1 DEF Keys
<1> QED
  BY <1>1, <1>2, <1>3, <1>4

LEMMA KeysOfCons ==
    ASSUME NEW S, NEW list \in Seq(S), NEW keys \in S
    PROVE  <<keys>> \o list \in Seq(S) /\ Keys(<<keys>> \o list) = keys \cup Keys(list)
<1>1. <<keys>> \o list \in Seq(S) /\ <<keys>> \o list # <<>>
  OBVIOUS
<1>2. Head(<<keys>> \o list) = keys /\ Tail(<<keys>> \o list) = list
  BY <1>1
<1> QED
  BY <1>1, <1>2, KeysOfTail
-----------------------------------------------------------------------------
(* Steps of one kind keep the invariant.                                     *)

\* A call that has stored d, deletes list and leaves keys to the expiry of
\* the cache.
LEMMA StoreStep ==
    ASSUME CacheInv, NEW w \in Writer, NEW d \in Table, Stored(d),
           NEW list \in Seq((SUBSET Key) \ {{}}), NEW keys \in SUBSET Key,
           clearing[w] = <<>>, clearing' = [clearing EXCEPT ![w] = list], Left(keys),
           MovedKeys(db, d) \subseteq keys \cup Keys(list),
           Calm => \A r \in Reader : reader[r] = Idle,
           Calm => \A k \in MovedKeys(db, d) \ Keys(list) : k \in Uniq /\ Truth(d, k) = Missing
    PROVE  CacheInv'
<1>1. /\ db' = d /\ UniqueIndex(d) /\ setting' = setting /\ cache' = cache
      /\ retry' = retry /\ reader' = reader
  BY DEF Stored
<1>2. db \in Table /\ UniqueIndex(db) /\ clearing \in [Writer -> Seq((SUBSET Key) \ {{}})]
  BY DEF CacheInv, CacheTypeOK, Table
<1>3. Waiting' = Waiting \cup Keys(list)
  <2>1. \A v \in Writer : clearing'[v] = IF v = w THEN list ELSE clearing[v]
    BY <1>2
  <2>2. UNION {Keys(clearing'[v]) : v \in Writer} = (UNION {Keys(clearing[v]) : v \in Writer}) \cup Keys(list)
    BY <2>1, KeysOfEmpty
  <2> QED
    BY <1>1, <2>2 DEF Waiting, Keys
<1>4. \A k \in Stale(cache, d) : k \in Key /\ (k \in Stale(cache, db) \/ k \in MovedKeys(db, d))
  BY <1>1, <1>2, TruthMoves DEF Stale
<1>5. ghost' = (ghost \cup keys) \cap Stale(cache, d)
  BY <1>1 DEF Left
<1>6. CacheTypeOK'
  <2>1. clearing' \in [Writer -> Seq((SUBSET Key) \ {{}})]
    BY <1>2
  <2> QED
    BY <1>1, <1>5, <2>1 DEF CacheInv, CacheTypeOK, Table, Answer, Lookup, Idle
<1>7. StaleIsAccounted'
  BY <1>1, <1>3, <1>4, <1>5 DEF CacheInv, StaleIsAccounted
<1>8. LookupsTrue'
  BY <1>1 DEF LookupsTrue, Calm, Idle
<1>9. GivenUpOrWaiting'
  <2> SUFFICES ASSUME Calm, NEW k \in Stale(cache, d), k \notin Waiting, k \notin Keys(list)
               PROVE  k \in Uniq /\ Truth(d, k) = Missing
    BY <1>1, <1>3 DEF GivenUpOrWaiting, Calm
  <2>1. CASE k \in MovedKeys(db, d)
    BY <2>1
  <2>2. CASE k \notin MovedKeys(db, d)
    <3>1. k \in Stale(cache, db) /\ Truth(d, k) = Truth(db, k)
      BY <1>1, <1>2, <1>4, <2>2, TruthMoves
    <3> QED
      BY <3>1 DEF CacheInv, GivenUpOrWaiting
  <2> QED
    BY <2>1, <2>2
<1> QED
  BY <1>6, <1>7, <1>8, <1>9 DEF CacheInv

\* Keys that are deleted are no longer stale; keys that are given up are lost.
LEMMA DropStep ==
    ASSUME CacheInv, NEW gone \in SUBSET Key, NEW lost \in SUBSET Key,
           UNCHANGED <<setting, db, reader>>,
           clearing' \in [Writer -> Seq((SUBSET Key) \ {{}})],
           retry' \in [Writer -> SUBSET Key],
           cache' = Dropped(gone), Left(lost), Calm => lost = {},
           Waiting \subseteq Waiting' \cup gone \cup lost
    PROVE  CacheInv'
<1>1. setting' = setting /\ db' = db /\ reader' = reader
  OBVIOUS
<1>2. \A k \in Key : cache'[k] = IF k \in gone THEN NoEntry ELSE cache[k]
  BY DEF Dropped
<1>3. Stale(cache', db) = Stale(cache, db) \ gone
  BY <1>2 DEF Stale
<1>4. ghost' = (ghost \cup lost) \cap Stale(cache', db)
  BY <1>1 DEF Left
<1>5. CacheTypeOK'
  <2>1. cache' \in [Key -> Row \cup Pk \cup {NoEntry, Missing}]
    BY DEF Dropped, CacheInv, CacheTypeOK
  <2>2. \A k \in Key : cache'[k] \in Answer(k) \cup {NoEntry}
    BY <1>2 DEF CacheInv, CacheTypeOK
  <2> QED
    BY <1>1, <1>4, <2>1, <2>2 DEF CacheInv, CacheTypeOK, Answer
<1>6. StaleIsAccounted'
  BY <1>1, <1>3, <1>4 DEF CacheInv, StaleIsAccounted
<1>7. LookupsTrue'
  BY <1>1 DEF CacheInv, LookupsTrue, Calm
<1>8. GivenUpOrWaiting'
  BY <1>1, <1>3 DEF CacheInv, GivenUpOrWaiting, Calm
<1> QED
  BY <1>5, <1>6, <1>7, <1>8 DEF CacheInv

\* A lookup that moves on without writing to the cache.
LEMMA LookupStep ==
    ASSUME CacheInv, UNCHANGED <<setting, db, cache, clearing, retry, ghost>>,
           reader' \in [Reader -> Lookup], LookupsTrue'
    PROVE  CacheInv'
<1>1. /\ setting' = setting /\ db' = db /\ cache' = cache /\ clearing' = clearing
      /\ retry' = retry /\ ghost' = ghost
  OBVIOUS
<1>2. Waiting' = Waiting
  BY <1>1 DEF Waiting
<1>3. CacheTypeOK'
  BY <1>1 DEF CacheInv, CacheTypeOK, Answer
<1> QED
  BY <1>1, <1>2, <1>3 DEF CacheInv, StaleIsAccounted, GivenUpOrWaiting, Calm

\* A lookup that writes an answer for k to the cache.
LEMMA FilledStep ==
    ASSUME CacheInv, NEW k \in Key, NEW entry \in Answer(k),
           UNCHANGED <<setting, db, clearing, retry>>,
           cache' = [cache EXCEPT ![k] = entry] \/ cache' = cache, Left({k}),
           Calm => Truth(db, k) = entry,
           reader' \in [Reader -> Lookup], LookupsTrue'
    PROVE  CacheInv'
<1>1. setting' = setting /\ db' = db /\ clearing' = clearing /\ retry' = retry
  OBVIOUS
<1>2. Waiting' = Waiting
  BY <1>1 DEF Waiting
<1>3. cache' \in [Key -> Row \cup Pk \cup {NoEntry, Missing}]
  BY DEF CacheInv, CacheTypeOK, Answer
<1>4. /\ \A j \in Key \ {k} : cache'[j] = cache[j]
      /\ cache'[k] = entry \/ cache'[k] = cache[k]
  BY DEF CacheInv, CacheTypeOK
<1>5. ghost' = (ghost \cup {k}) \cap Stale(cache', db)
  BY <1>1 DEF Left
<1>6. Stale(cache', db) \ {k} = Stale(cache, db) \ {k}
  BY <1>4 DEF Stale
<1>7. CacheTypeOK'
  <2>1. \A j \in Key : cache'[j] \in Answer(j) \cup {NoEntry}
    BY <1>4 DEF CacheInv, CacheTypeOK
  <2> QED
    BY <1>1, <1>3, <1>5, <2>1 DEF CacheInv, CacheTypeOK, Answer
<1>8. StaleIsAccounted'
  BY <1>1, <1>2, <1>5, <1>6 DEF CacheInv, StaleIsAccounted
<1>9. GivenUpOrWaiting'
  <2>1. Calm => Stale(cache', db) \subseteq Stale(cache, db)
    BY <1>4, <1>6 DEF Stale
  <2> QED
    BY <1>1, <1>2, <2>1 DEF CacheInv, GivenUpOrWaiting, Calm
<1> QED
  BY <1>7, <1>8, <1>9 DEF CacheInv
-----------------------------------------------------------------------------
(* The write methods.                                                        *)

Typed == db \in Table /\ clearing \in [Writer -> Seq((SUBSET Key) \ {{}})]

LEMMA InvTyped == ASSUME CacheInv PROVE Typed
BY DEF CacheInv, CacheTypeOK, Typed, Table

\* In a calm setting the lookups are over when a write is stored.
LEMMA CalmCalls ==
    ASSUME NEW w \in Writer, NEW method, Calls(w, method)
    PROVE  /\ clearing[w] = <<>>
           /\ Calm => method \in Cleaning /\ \A r \in Reader : reader[r] = Idle
BY DEF Calls, Calm

LEMMA KeysOfRow ==
    ASSUME NEW p \in Pk, NEW row \in Row
    PROVE  /\ KeysOf(p, row) \in (SUBSET Key) \ {{}}
           /\ p \in KeysOf(p, row) /\ row.u \in KeysOf(p, row)
BY DEF KeysOf, Key, Row

LEMMA InsertStep ==
    ASSUME CacheInv, NEW w \in Writer, NEW p \in Pk, NEW row \in Row, Insert(w, p, row)
    PROVE  CacheInv'
<1> DEFINE d == [db EXCEPT ![p] = row]
           list == <<KeysOf(p, row)>>
<1>1. Typed
  BY InvTyped
<1>2. d \in Table /\ \A q \in Pk : d[q] = IF q = p THEN row ELSE db[q]
  BY <1>1 DEF Typed, Table
<1>3. list \in Seq((SUBSET Key) \ {{}}) /\ Keys(list) = KeysOf(p, row)
  BY KeysOfRow, KeysOfOne
<1>4. MovedKeys(db, d) \subseteq Keys(list)
  BY <1>2, <1>3, KeysOfRow DEF Insert, MovedKeys
<1>5. /\ Stored(d) /\ clearing' = [clearing EXCEPT ![w] = list] /\ Left({})
      /\ clearing[w] = <<>> /\ (Calm => \A r \in Reader : reader[r] = Idle)
  BY CalmCalls DEF Insert
<1> HIDE DEF d, list
<1> QED
  BY <1>2, <1>3, <1>4, <1>5, StoreStep

LEMMA InsertBatchStep ==
    ASSUME CacheInv, NEW w \in Writer, NEW p \in Pk, NEW q \in Pk \ {p},
           NEW row \in Row, NEW next \in Row, InsertBatch(w, p, q, row, next)
    PROVE  CacheInv'
<1> DEFINE d == [db EXCEPT ![p] = row, ![q] = next]
           list == <<KeysOf(p, row), KeysOf(q, next)>>
<1>1. Typed
  BY InvTyped
<1>2. d \in Table /\ \A o \in Pk : d[o] = IF o = p THEN row ELSE IF o = q THEN next ELSE db[o]
  BY <1>1 DEF Typed, Table
<1>3. list \in Seq((SUBSET Key) \ {{}}) /\ Keys(list) = KeysOf(p, row) \cup KeysOf(q, next)
  BY KeysOfRow, KeysOfTwo
<1>4. MovedKeys(db, d) \subseteq Keys(list)
  BY <1>2, <1>3, KeysOfRow DEF InsertBatch, MovedKeys
<1>5. /\ Stored(d) /\ clearing' = [clearing EXCEPT ![w] = list] /\ Left({})
      /\ clearing[w] = <<>> /\ (Calm => \A r \in Reader : reader[r] = Idle)
  BY CalmCalls DEF InsertBatch
<1> HIDE DEF d, list
<1> QED
  BY <1>2, <1>3, <1>4, <1>5, StoreStep

LEMMA OldUniqKey == ASSUME Typed, NEW p \in Pk PROVE OldUniq(p) \in SUBSET Key
BY DEF OldUniq, Typed, Table, Row, Key

\* The unique value that the row gives up belongs to no row any more.
LEMMA UpdateStep ==
    ASSUME CacheInv, NEW w \in Writer, NEW p \in Pk, NEW row \in Row, Update(w, p, row)
    PROVE  CacheInv'
<1> DEFINE d == [db EXCEPT ![p] = row]
           list == <<KeysOf(p, row)>>
<1>1. Typed /\ UniqueIndex(db)
  BY InvTyped DEF CacheInv, CacheTypeOK
<1>2. d \in Table /\ \A q \in Pk : d[q] = IF q = p THEN row ELSE db[q]
  BY <1>1 DEF Typed, Table
<1>3. list \in Seq((SUBSET Key) \ {{}}) /\ Keys(list) = KeysOf(p, row)
  BY KeysOfRow, KeysOfOne
<1>4. MovedKeys(db, d) \subseteq OldUniq(p) \cup Keys(list)
  BY <1>2, <1>3, KeysOfRow DEF MovedKeys, OldUniq
<1>5. /\ Stored(d) /\ clearing' = [clearing EXCEPT ![w] = list] /\ Left(OldUniq(p))
      /\ clearing[w] = <<>> /\ (Calm => \A r \in Reader : reader[r] = Idle)
  BY CalmCalls DEF Update
<1>6. ASSUME NEW k \in OldUniq(p), k \notin Keys(list)
      PROVE  k \in Uniq /\ Truth(d, k) = Missing
  <2>1. k \in Uniq /\ db[p] # Missing /\ db[p].u = k
    BY <1>1, <1>6 DEF OldUniq, Typed, Table, Row
  <2>2. row.u # k
    BY <1>3, <1>6, KeysOfRow
  <2>3. \A q \in Pk : d[q] = Missing \/ d[q].u # k
    BY <1>1, <1>2, <2>1, <2>2 DEF UniqueIndex
  <2> QED
    BY <1>2, <1>5, <2>1, <2>3, TruthOfUniq DEF Stored
<1> HIDE DEF d, list
<1> QED
  BY <1>1, <1>2, <1>3, <1>4, <1>5, <1>6, OldUniqKey, StoreStep

\* The methods that leave the cache alone.
LEMMA UncleanStep ==
    ASSUME CacheInv, NEW w \in Writer, NEW d \in Table, Stored(d), UNCHANGED clearing,
           NEW method, method \notin Cleaning, Calls(w, method),
           NEW keys \in SUBSET Key, Left(keys), MovedKeys(db, d) \subseteq keys
    PROVE  CacheInv'
<1>1. clearing[w] = <<>> /\ ~Calm
  BY CalmCalls
<1>2. clearing' = [clearing EXCEPT ![w] = <<>>]
  BY <1>1, InvTyped DEF Typed
<1>3. <<>> \in Seq((SUBSET Key) \ {{}})
  BY EmptySeq
<1> QED
  BY <1>1, <1>2, <1>3, StoreStep

LEMMA UpdateFieldsStep ==
    ASSUME CacheInv, NEW w \in Writer, NEW p \in Pk, NEW row \in Row, UpdateFields(w, p, row)
    PROVE  CacheInv'
<1> DEFINE d == [db EXCEPT ![p] = row]
           keys == {p, row.u} \cup OldUniq(p)
<1>1. Typed
  BY InvTyped
<1>2. d \in Table /\ \A q \in Pk : d[q] = IF q = p THEN row ELSE db[q]
  BY <1>1 DEF Typed, Table
<1>3. keys \in SUBSET Key
  BY <1>1, OldUniqKey DEF Key, Row
<1>4. MovedKeys(db, d) \subseteq keys
  BY <1>2 DEF MovedKeys, OldUniq
<1>5. Stored(d) /\ UNCHANGED clearing /\ Left(keys) /\ Calls(w, "UpdateFields")
  BY DEF UpdateFields
<1> HIDE DEF d, keys
<1> QED
  BY <1>2, <1>3, <1>4, <1>5, UncleanStep DEF Cleaning

LEMMA DeleteStep ==
    ASSUME CacheInv, NEW w \in Writer, NEW p \in Pk, Delete(w, p)
    PROVE  CacheInv'
<1> DEFINE d == [db EXCEPT ![p] = Missing]
           keys == {p} \cup OldUniq(p)
<1>1. Typed
  BY InvTyped
<1>2. d \in Table /\ \A q \in Pk : d[q] = IF q = p THEN Missing ELSE db[q]
  BY <1>1 DEF Typed, Table
<1>3. keys \in SUBSET Key
  BY <1>1, OldUniqKey DEF Key
<1>4. MovedKeys(db, d) \subseteq keys
  BY <1>2 DEF MovedKeys, OldUniq
<1>5. Stored(d) /\ UNCHANGED clearing /\ Left(keys) /\ Calls(w, "Delete")
  BY DEF Delete
<1> HIDE DEF d, keys
<1> QED
  BY <1>2, <1>3, <1>4, <1>5, UncleanStep DEF Cleaning

LEMMA DeleteBatchStep ==
    ASSUME CacheInv, NEW w \in Writer, NEW gone \in SUBSET Pk, DeleteBatch(w, gone)
    PROVE  CacheInv'
<1> DEFINE d == [p \in Pk |-> IF p \in gone THEN Missing ELSE db[p]]
           keys == gone \cup (UNION {OldUniq(p) : p \in gone})
<1>1. Typed
  BY InvTyped
<1>2. d \in Table /\ \A q \in Pk : d[q] = IF q \in gone THEN Missing ELSE db[q]
  BY <1>1 DEF Typed, Table
<1>3. keys \in SUBSET Key
  BY <1>1, OldUniqKey DEF Key
<1>4. MovedKeys(db, d) \subseteq keys
  BY <1>2 DEF MovedKeys, OldUniq
<1>5. Stored(d) /\ UNCHANGED clearing /\ Left(keys) /\ Calls(w, "DeleteBatch")
  BY DEF DeleteBatch
<1> HIDE DEF d, keys
<1> QED
  BY <1>2, <1>3, <1>4, <1>5, UncleanStep DEF Cleaning
-----------------------------------------------------------------------------
(* Deletes.                                                                  *)

\* What is still to be deleted after a command has dealt with some keys.
LEMMA Advanced ==
    ASSUME Typed, NEW w \in Writer, NEW keys, DeletedAtOnce(w, keys),
           Advance(w, Head(clearing[w]) \ keys)
    PROVE  /\ keys \in SUBSET Key
           /\ clearing' \in [Writer -> Seq((SUBSET Key) \ {{}})]
           /\ \A v \in Writer : Keys(clearing[v]) \subseteq Keys(clearing'[v]) \cup keys
<1> DEFINE list == clearing[w]
           rest == Head(list) \ keys
           left == IF rest = {} THEN Tail(list) ELSE <<rest>> \o Tail(list)
<1>1. list \in Seq((SUBSET Key) \ {{}}) /\ list # <<>> /\ keys \subseteq Head(list)
  BY DEF Typed, DeletedAtOnce
<1>2. /\ Tail(list) \in Seq((SUBSET Key) \ {{}}) /\ Head(list) \in (SUBSET Key) \ {{}}
      /\ Keys(list) = Head(list) \cup Keys(Tail(list))
  BY <1>1, KeysOfTail
<1>3. left \in Seq((SUBSET Key) \ {{}}) /\ Keys(left) = rest \cup Keys(Tail(list))
  <2>1. rest # {} => rest \in (SUBSET Key) \ {{}}
    BY <1>2
  <2> QED
    BY <1>2, <2>1, KeysOfCons
<1>4. clearing' = [clearing EXCEPT ![w] = left]
  BY DEF Advance
<1> HIDE DEF left
<1>5. /\ clearing' \in [Writer -> Seq((SUBSET Key) \ {{}})]
      /\ \A v \in Writer : clearing'[v] = IF v = w THEN left ELSE clearing[v]
  BY <1>3, <1>4 DEF Typed
<1>6. Keys(list) \subseteq Keys(left) \cup keys
  BY <1>2, <1>3
<1> QED
  BY <1>1, <1>2, <1>5, <1>6

\* Keys that one writer no longer has to delete.
LEMMA WaitingLess ==
    ASSUME NEW keys,
           \A v \in Writer : /\ Keys(clearing[v]) \subseteq Keys(clearing'[v]) \cup keys
                             /\ retry[v] \subseteq retry'[v] \cup keys
    PROVE  Waiting \subseteq Waiting' \cup keys
BY DEF Waiting, Keys

LEMMA CacheAsItIs == ASSUME CacheInv PROVE cache = Dropped({})
BY DEF CacheInv, CacheTypeOK, Dropped

LEMMA ClearedStep ==
    ASSUME CacheInv, NEW w \in Writer, NEW keys, Clear(w, keys)
    PROVE  CacheInv'
<1>1. Typed /\ retry \in [Writer -> SUBSET Key] /\ retry' = retry
  BY InvTyped DEF CacheInv, CacheTypeOK, Clear
<1>2. /\ keys \in SUBSET Key /\ clearing' \in [Writer -> Seq((SUBSET Key) \ {{}})]
      /\ \A v \in Writer : Keys(clearing[v]) \subseteq Keys(clearing'[v]) \cup keys
  BY <1>1, Advanced DEF Clear
<1>3. Waiting \subseteq Waiting' \cup keys \cup {}
  BY <1>1, <1>2, WaitingLess
<1> QED
  BY <1>1, <1>2, <1>3, DropStep DEF Clear

LEMMA ClearFailsStep ==
    ASSUME CacheInv, NEW w \in Writer, NEW keys, ClearFails(w, keys)
    PROVE  CacheInv'
<1>1. Typed /\ retry \in [Writer -> SUBSET Key] /\ cache' = Dropped({})
  BY InvTyped, CacheAsItIs DEF CacheInv, CacheTypeOK, ClearFails
<1>2. /\ keys \in SUBSET Key /\ clearing' \in [Writer -> Seq((SUBSET Key) \ {{}})]
      /\ \A v \in Writer : Keys(clearing[v]) \subseteq Keys(clearing'[v]) \cup keys
  BY <1>1, Advanced DEF ClearFails
<1>3. /\ retry' \in [Writer -> SUBSET Key]
      /\ \A v \in Writer : retry'[v] = IF v = w THEN retry[v] \cup keys ELSE retry[v]
  BY <1>1, <1>2 DEF ClearFails
<1>4. Waiting \subseteq Waiting' \cup {} \cup {}
  <2>1. Waiting \subseteq Waiting' \cup keys
    BY <1>2, <1>3, WaitingLess
  <2>2. keys \subseteq Waiting'
    BY <1>3 DEF Waiting
  <2> QED
    BY <2>1, <2>2
<1> QED
  BY <1>1, <1>2, <1>3, <1>4, DropStep DEF ClearFails

\* The cleaner is through with the keys of a writer, or gives them up.
LEMMA RetryStep ==
    ASSUME CacheInv, NEW w \in Writer, Retry(w) \/ RetryGivesUp(w)
    PROVE  CacheInv'
<1> DEFINE keys == retry[w]
<1>1. Typed /\ retry \in [Writer -> SUBSET Key] /\ keys \in SUBSET Key
  BY InvTyped DEF CacheInv, CacheTypeOK
<1>2. /\ clearing' = clearing /\ retry' \in [Writer -> SUBSET Key]
      /\ \A v \in Writer : retry'[v] = IF v = w THEN {} ELSE retry[v]
  BY <1>1 DEF Retry, RetryGivesUp
<1>3. Waiting \subseteq Waiting' \cup keys
  BY <1>2, WaitingLess
<1>4. clearing' \in [Writer -> Seq((SUBSET Key) \ {{}})]
  BY <1>1, <1>2 DEF Typed
<1>5. CASE Retry(w)
  BY <1>1, <1>2, <1>3, <1>4, <1>5, DropStep DEF Retry
<1>6. CASE RetryGivesUp(w)
  <2>1. cache' = Dropped({}) /\ ~Calm
    BY <1>6, CacheAsItIs DEF RetryGivesUp, Calm
  <2> QED
    BY <1>1, <1>2, <1>3, <1>4, <1>6, <2>1, DropStep DEF RetryGivesUp
<1> QED
  BY <1>5, <1>6

LEMMA CrashStep ==
    ASSUME CacheInv, NEW w \in Writer, Crash(w)
    PROVE  CacheInv'
<1> DEFINE keys == retry[w] \cup Keys(clearing[w])
<1>1. Typed /\ retry \in [Writer -> SUBSET Key] /\ cache' = Dropped({}) /\ ~Calm
  BY InvTyped, CacheAsItIs DEF CacheInv, CacheTypeOK, Crash, Calm
<1>2. keys \in SUBSET Key
  <2>1. \A i \in 1 .. Len(clearing[w]) : clearing[w][i] \in (SUBSET Key) \ {{}}
    BY <1>1 DEF Typed
  <2> QED
    BY <1>1, <2>1 DEF Keys
<1>3. /\ retry' \in [Writer -> SUBSET Key]
      /\ clearing' \in [Writer -> Seq((SUBSET Key) \ {{}})]
      /\ \A v \in Writer : /\ retry'[v] = IF v = w THEN {} ELSE retry[v]
                           /\ clearing'[v] = IF v = w THEN <<>> ELSE clearing[v]
  BY <1>1, EmptySeq DEF Crash, Typed
<1>4. Waiting \subseteq Waiting' \cup keys
  <2>1. \A v \in Writer : /\ Keys(clearing[v]) \subseteq Keys(clearing'[v]) \cup keys
                          /\ retry[v] \subseteq retry'[v] \cup keys
    BY <1>3
  <2> HIDE DEF keys
  <2> QED
    BY <2>1, WaitingLess
<1>5. Left(keys) /\ UNCHANGED <<setting, db, reader>>
  BY DEF Crash, Keys
<1> HIDE DEF keys
<1> QED
  BY <1>1, <1>2, <1>3, <1>4, <1>5, DropStep

LEMMA ExpireStep ==
    ASSUME CacheInv, NEW k \in Key, Expire(k)
    PROVE  CacheInv'
<1>1. clearing' = clearing /\ retry' = retry
  BY DEF Expire
<1>2. Waiting' = Waiting
  BY <1>1 DEF Waiting
<1>3. clearing' \in [Writer -> Seq((SUBSET Key) \ {{}})] /\ retry' \in [Writer -> SUBSET Key]
  BY <1>1 DEF CacheInv, CacheTypeOK
<1> QED
  BY <1>2, <1>3, DropStep DEF Expire
-----------------------------------------------------------------------------
(* Lookups.                                                                  *)

LEMMA IdleLookup == Idle \in Lookup /\ Idle.at = "idle"
BY DEF Lookup, Idle

\* What a lookup has at hand.
LEMMA LookupShape ==
    ASSUME NEW l \in Lookup
    PROVE  /\ l.at \in {"idle", "query", "fillRow", "fill"}
           /\ l.at = "query" => l.key \in Key
           /\ l.at = "fillRow" => l.key \in Uniq /\ l.pk \in Pk /\ l.row \in Row
           /\ l.at = "fill" => l.key \in Key /\ l.entry \in Answer(l.key)
BY DEF Lookup, Idle

LEMMA FillLookup ==
    ASSUME NEW k \in Key, NEW e \in Answer(k)
    PROVE  [at |-> "fill", key |-> k, entry |-> e] \in Lookup
<1>1. [at |-> "fill", key |-> k, entry |-> e] \in [at : {"fill"}, key : {k}, entry : Answer(k)]
  OBVIOUS
<1> QED
  BY <1>1 DEF Lookup

\* Of the lookups, one has moved on to l.
LEMMA OtherLookups ==
    ASSUME CacheInv, NEW r \in Reader, NEW l \in Lookup, reader' = [reader EXCEPT ![r] = l]
    PROVE  /\ reader' \in [Reader -> Lookup]
           /\ \A q \in Reader : reader'[q] = IF q = r THEN l ELSE reader[q]
BY DEF CacheInv, CacheTypeOK

LEMMA LookupMoves ==
    ASSUME CacheInv, NEW r \in Reader, NEW l \in Lookup, reader' = [reader EXCEPT ![r] = l],
           setting' = setting, db' = db,
           Calm => /\ l.at = "fillRow" => Truth(db, l.key) = l.pk /\ db[l.pk] = l.row
                   /\ l.at = "fill" => Truth(db, l.key) = l.entry
    PROVE  reader' \in [Reader -> Lookup] /\ LookupsTrue'
BY OtherLookups DEF CacheInv, LookupsTrue, Calm

LEMMA ReaderStep ==
    ASSUME CacheInv, NEW r \in Reader,
           (\E k \in Key : Miss(r, k)) \/ Query(r) \/ LookupFails(r)
    PROVE  CacheInv'
<1>1. db \in Table /\ UniqueIndex(db) /\ reader[r] \in Lookup
  BY DEF CacheInv, CacheTypeOK, Table
<1>2. ASSUME NEW k \in Key, Miss(r, k) PROVE CacheInv'
  <2>1. [at |-> "query", key |-> k] \in Lookup
    BY DEF Lookup
  <2> QED
    BY <1>2, <2>1, LookupMoves, LookupStep DEF Miss
<1>3. CASE Query(r)
  <2> DEFINE k == reader[r].key
             found == Truth(db, k)
  <2>1. k \in Key /\ found \in Answer(k)
    BY <1>1, <1>3, LookupShape, TruthIsAnswer DEF Query
  <2>2. CASE found \in Pk /\ k \in Uniq
    <3> DEFINE l == [at |-> "fillRow", key |-> k, pk |-> found, row |-> db[found]]
    <3>1. db[found] \in Row
      <4>1. \E p \in Pk : db[p] # Missing /\ found = p
        BY <1>1, <2>2, TruthOfUniq, EntryAssumption
      <4> QED
        BY <1>1, <4>1 DEF Table
    <3>2. l \in Lookup
      BY <2>2, <3>1 DEF Lookup
    <3>3. reader' = [reader EXCEPT ![r] = l]
      BY <1>3, <2>2 DEF Query
    <3> QED
      BY <1>3, <3>2, <3>3, LookupMoves, LookupStep DEF Query
  <2>3. CASE ~(found \in Pk /\ k \in Uniq)
    <3> DEFINE l == [at |-> "fill", key |-> k, entry |-> found]
    <3>1. l \in Lookup
      BY <2>1, FillLookup
    <3>2. reader' = [reader EXCEPT ![r] = l]
      BY <1>3, <2>3 DEF Query
    <3> QED
      BY <1>3, <3>1, <3>2, LookupMoves, LookupStep DEF Query
  <2> QED
    BY <2>2, <2>3
<1>4. CASE LookupFails(r)
  BY <1>4, IdleLookup, LookupMoves, LookupStep DEF LookupFails
<1> QED
  BY <1>2, <1>3, <1>4

LEMMA FillRowStep ==
    ASSUME CacheInv, NEW r \in Reader, FillRow(r)
    PROVE  CacheInv'
<1> DEFINE p == reader[r].pk
           row == reader[r].row
           k == reader[r].key
           l == [at |-> "fill", key |-> k, entry |-> p]
<1>1. reader[r].at = "fillRow" /\ k \in Uniq /\ p \in Pk /\ row \in Row
  BY LookupShape DEF FillRow, CacheInv, CacheTypeOK
<1>2. p \in Key /\ k \in Key /\ row \in Answer(p) /\ p \in Answer(k)
  BY <1>1, KeyAssumption DEF Key, Answer
<1>3. Calm => Truth(db, k) = p /\ Truth(db, p) = row
  BY <1>1, TruthOfPk DEF CacheInv, LookupsTrue
<1>4. /\ UNCHANGED <<setting, db, clearing, retry>> /\ Left({p})
      /\ cache' = [cache EXCEPT ![p] = row] /\ reader' = [reader EXCEPT ![r] = l]
  BY DEF FillRow
<1>5. l \in Lookup
  BY <1>2, FillLookup
<1>6. reader' \in [Reader -> Lookup] /\ LookupsTrue'
  BY <1>3, <1>4, <1>5, LookupMoves
<1> HIDE DEF p, row, k, l
<1> QED
  BY <1>2, <1>3, <1>4, <1>6, FilledStep

LEMMA FillStep ==
    ASSUME CacheInv, NEW r \in Reader, Fill(r)
    PROVE  CacheInv'
<1> DEFINE k == reader[r].key
           entry == reader[r].entry
<1>1. reader[r].at = "fill" /\ k \in Key /\ entry \in Answer(k)
  BY LookupShape DEF Fill, CacheInv, CacheTypeOK
<1>2. Calm => Truth(db, k) = entry
  BY <1>1 DEF CacheInv, LookupsTrue
<1>3. /\ UNCHANGED <<setting, db, clearing, retry>> /\ Left({k})
      /\ cache' = [cache EXCEPT ![k] = entry] \/ cache' = cache
      /\ reader' = [reader EXCEPT ![r] = Idle]
  BY DEF Fill
<1>4. reader' \in [Reader -> Lookup] /\ LookupsTrue'
  BY <1>3, IdleLookup, LookupMoves
<1> HIDE DEF k, entry
<1> QED
  BY <1>1, <1>2, <1>3, <1>4, FilledStep
-----------------------------------------------------------------------------
LEMMA CacheInvInit == ASSUME Init PROVE CacheInv
<1>1. \A k \in Key : Truth(db, k) = Missing
  BY KeyAssumption DEF Init, Truth, Key
<1>2. CacheTypeOK
  <2>1. UniqueIndex(db)
    BY DEF Init, UniqueIndex
  <2>2. reader \in [Reader -> Lookup]
    BY IdleLookup DEF Init
  <2>3. clearing \in [Writer -> Seq((SUBSET Key) \ {{}})]
    BY EmptySeq DEF Init
  <2> QED
    BY <2>1, <2>2, <2>3 DEF Init, CacheTypeOK
<1>3. Stale(cache, db) = {}
  BY DEF Init, Stale
<1>4. LookupsTrue
  BY IdleLookup DEF Init, LookupsTrue
<1> QED
  BY <1>2, <1>3, <1>4 DEF CacheInv, StaleIsAccounted, GivenUpOrWaiting

LEMMA CacheInvStep == ASSUME CacheInv, [Next]_vars PROVE CacheInv'
<1>1. setting.pks \subseteq Pk
  BY SettingsAssumption DEF CacheInv, CacheTypeOK, Setting
<1>2. CASE WriteStep
  BY <1>1, <1>2, InsertStep, UpdateStep, UpdateFieldsStep, InsertBatchStep, DeleteStep DEF WriteStep
<1>3. CASE BatchStep
  BY <1>1, <1>3, DeleteBatchStep DEF BatchStep
<1>4. CASE ClearStep
  BY <1>4, ClearedStep, ClearFailsStep, RetryStep, CrashStep DEF ClearStep
<1>5. CASE ReadStep
  <2>1. setting.pks \cup Uniq \subseteq Key
    BY <1>1 DEF Key
  <2> QED
    BY <1>5, <2>1, ReaderStep, FillRowStep, FillStep DEF ReadStep
<1>6. CASE UNCHANGED vars
  <2>1. CacheTypeOK' /\ LookupsTrue'
    BY <1>6 DEF vars, CacheInv, CacheTypeOK, LookupsTrue, Calm
  <2> QED
    BY <1>6, <2>1, LookupStep DEF vars, CacheTypeOK
<1> QED
  BY <1>2, <1>3, <1>4, <1>5, <1>6, ExpireStep DEF Next

\* In every state the cache holds answers of the right kind, what is stale is
\* accounted for, and in a calm setting lookups hold what the database says.
THEOREM CacheInvariant == Spec => []CacheInv
<1>1. Init => CacheInv
  BY CacheInvInit
<1>2. CacheInv /\ [Next]_vars => CacheInv'
  BY CacheInvStep
<1> QED
  BY <1>1, <1>2, PTL DEF Spec

\* The cache holds a row only under a primary key and a primary key only under
\* a unique value, and no two rows share a unique value.
THEOREM CacheTypes == Spec => []CacheTypeOK
<1>1. CacheInv => CacheTypeOK
  BY DEF CacheInv
<1> QED
  BY <1>1, CacheInvariant, PTL

\* Whatever the interleaving: a stale key is one that a call or the cleaner
\* has still to delete, or one that a method leaves to the expiry, that lost
\* its delete, or that a lookup filled with what it had read before.
THEOREM CacheAccountsForStale == Spec => []StaleIsAccounted
<1>1. CacheInv => StaleIsAccounted
  BY DEF CacheInv
<1> QED
  BY <1>1, CacheInvariant, PTL

\* Insert, InsertBatch and Update leave nothing stale but unique values that
\* rows have given up, when no lookup overlaps a write and no delete is lost.
THEOREM CleaningMethodsClean == Spec => []OnlyGivenUpStale
<1>1. CacheInv => OnlyGivenUpStale
  <2> SUFFICES ASSUME CacheInv, Calm, Settled, NEW k \in Stale(cache, db)
               PROVE  k \in Uniq /\ Truth(db, k) = Missing
    BY DEF OnlyGivenUpStale, Calm
  <2>1. \A w \in Writer : Keys(clearing[w]) = {} /\ retry[w] = {}
    BY KeysOfEmpty DEF Settled
  <2>2. k \notin Waiting
    BY <2>1, WaitingKeys
  <2> QED
    BY <2>2 DEF CacheInv, GivenUpOrWaiting
<1> QED
  BY <1>1, CacheInvariant, PTL
=============================================================================
