----------------------------- MODULE ModelCache -----------------------------
(***************************************************************************)
(* The models generated with "--cache" (customized.tpl): the write methods *)
(* go to the database and then delete the keys of the record they wrote    *)
(* from the cache that the model shares with go-zero's CachedConn. The     *)
(* generated query methods read the database only; who fills the cache is  *)
(* a service with a CachedConn on the same Redis, so the fill is           *)
(* translated from QueryRowCtx, QueryRowIndexCtx and cacheNode.doTake. The *)
(* table has a primary key and one unique index.                           *)
(***************************************************************************)
EXTENDS Naturals, Sequences

CONSTANTS Pk,       \* primary keys
          Uniq,     \* values of the unique field
          Val,      \* values of the other fields
          Writer,   \* goroutines that call write methods
          Reader,   \* processes that read through the cache
          Settings, \* how a service may use the model
          NoEntry,  \* the cache has nothing under the key
          Missing   \* no such row, and the placeholder that says so

Key == Pk \cup Uniq
Row == [u : Uniq, val : Val]

Setting == [methods : SUBSET STRING, \* the write methods that are called
            pks : SUBSET Pk,         \* of these rows
            racing : BOOLEAN,        \* whether a lookup may overlap a write
            cluster : BOOLEAN,       \* whether the keys of a record may be on several nodes
            faults : BOOLEAN]        \* whether processes die and deletes are given up

ASSUME SettingsAssumption == Settings \subseteq Setting

ASSUME KeyAssumption == Pk \cap Uniq = {}
ASSUME EntryAssumption ==
    /\ NoEntry \notin Row \cup Pk \cup {Missing}
    /\ Missing \notin Row \cup Pk

VARIABLES setting,
          db,       \* the table: primary key -> row, or Missing
          cache,    \* key -> NoEntry, Missing, the row (of a primary key) or
                    \* the primary key (of a unique value)
          clearing, \* writer -> the sets of keys its call has yet to delete
          retry,    \* writer -> keys of its deletes that failed, to be tried again
          reader,   \* reader -> where its lookup is, for which key, what it has read
          ghost     \* stale keys that no call or task has to delete any more, or
                    \* that were filled late

vars == <<setting, db, cache, clearing, retry, reader, ghost>>

\* What a database d has under a key: the row of a primary key, or the primary
\* key of the row with a unique value.
Truth(d, k) ==
    IF k \in Pk THEN d[k]
    ELSE LET owner == {p \in Pk : d[p] # Missing /\ d[p].u = k}
         IN  IF owner = {} THEN Missing ELSE CHOOSE p \in owner : TRUE

\* A cached answer that the database does not give (any more).
Stale(c, d) == {k \in Key : c[k] # NoEntry /\ c[k] # Truth(d, k)}

UniqueIndex(d) ==
    \A p, q \in Pk : d[p] # Missing /\ d[q] # Missing /\ d[p].u = d[q].u => p = q

Idle == [at |-> "idle"]

Init == /\ setting \in Settings
        /\ db = [p \in Pk |-> Missing]
        /\ cache = [k \in Key |-> NoEntry]
        /\ clearing = [w \in Writer |-> <<>>]
        /\ retry = [w \in Writer |-> {}]
        /\ reader = [r \in Reader |-> Idle]
        /\ ghost = {}

\* Of the keys in question and of those that were left before, the stale ones.
Left(keys) == ghost' = (ghost \cup keys) \cap Stale(cache', db')

Calls(w, method) ==
            /\ method \in setting.methods
            /\ clearing[w] = <<>>
            /\ setting.racing \/ \A r \in Reader : reader[r] = Idle

\* The database accepts the write.
Stored(d) == /\ UniqueIndex(d)
             /\ db' = d
             /\ UNCHANGED <<setting, cache, retry, reader>>
-----------------------------------------------------------------------------
(* The write methods. Each ends where it leaves the database; the deletes of *)
(* invalidateCache follow in Clear.                                          *)

\* The keys that invalidateCache computes from the record it is given.
KeysOf(p, row) == {p, row.u}

Insert(w, p, row) ==
    /\ Calls(w, "Insert")
    /\ db[p] = Missing
    /\ Stored([db EXCEPT ![p] = row])
    /\ clearing' = [clearing EXCEPT ![w] = <<KeysOf(p, row)>>]
    /\ Left({})

\* Mutation: InsertBatch deletes the keys of the first record only.
InsertBatchFirst(w, p, q, row, next) ==
    /\ Calls(w, "InsertBatch")
    /\ db[p] = Missing /\ db[q] = Missing
    /\ Stored([db EXCEPT ![p] = row, ![q] = next])
    /\ clearing' = [clearing EXCEPT ![w] = <<KeysOf(p, row)>>]
    /\ Left({})

\* One INSERT for all records, then the keys of one record after the other.
InsertBatch(w, p, q, row, next) ==
    /\ Calls(w, "InsertBatch")
    /\ db[p] = Missing /\ db[q] = Missing
    /\ Stored([db EXCEPT ![p] = row, ![q] = next])
    /\ clearing' = [clearing EXCEPT ![w] = <<KeysOf(p, row), KeysOf(q, next)>>]
    /\ Left({})

\* The unique value a row had, if the row was there.
OldUniq(p) == IF db[p] = Missing THEN {} ELSE {db[p].u}

\* Save writes all fields, and inserts the row if it is not there. The keys
\* come from the new record: the key of a unique value the row gives up stays.
Update(w, p, row) ==
    /\ Calls(w, "Update")
    /\ Stored([db EXCEPT ![p] = row])
    /\ clearing' = [clearing EXCEPT ![w] = <<KeysOf(p, row)>>]
    /\ Left(OldUniq(p))

\* UpdateFields leaves the cache to its expiry, and so do Delete and DeleteBatch.
UpdateFields(w, p, row) ==
    /\ Calls(w, "UpdateFields")
    /\ db[p] # Missing
    /\ row.u = db[p].u \/ row.val = db[p].val
    /\ Stored([db EXCEPT ![p] = row])
    /\ UNCHANGED clearing
    /\ Left({p, row.u} \cup OldUniq(p))

Delete(w, p) ==
    /\ Calls(w, "Delete")
    /\ db[p] # Missing
    /\ Stored([db EXCEPT ![p] = Missing])
    /\ UNCHANGED clearing
    /\ Left({p} \cup OldUniq(p))

DeleteBatch(w, gone) ==
    /\ Calls(w, "DeleteBatch")
    /\ Stored([p \in Pk |-> IF p \in gone THEN Missing ELSE db[p]])
    /\ UNCHANGED clearing
    /\ Left(gone \cup (UNION {OldUniq(p) : p \in gone}))
-----------------------------------------------------------------------------
(* DelCtx: one command on a single node, one per key or per node on a        *)
(* cluster; a command that fails is handed to the cleaner, and DelCtx        *)
(* returns nil all the same.                                                 *)

Dropped(keys) == [k \in Key |-> IF k \in keys THEN NoEntry ELSE cache[k]]

\* The keys of the head of the list are dealt with up to those left over.
Advance(w, rest) ==
    clearing' = [clearing EXCEPT ![w] = IF rest = {} THEN Tail(@) ELSE <<rest>> \o Tail(@)]

\* What one command deletes of the head of the list.
DeletedAtOnce(w, keys) ==
    /\ clearing[w] # <<>>
    /\ keys # {} /\ keys \subseteq Head(clearing[w])
    /\ setting.cluster \/ keys = Head(clearing[w])

Clear(w, keys) ==
    /\ DeletedAtOnce(w, keys)
    /\ cache' = Dropped(keys)
    /\ Advance(w, Head(clearing[w]) \ keys)
    /\ UNCHANGED <<setting, db, retry, reader>>
    /\ Left({})

\* Mutation: a delete that fails is only logged.
ClearFailsLogged(w, keys) ==
    /\ DeletedAtOnce(w, keys)
    /\ Advance(w, Head(clearing[w]) \ keys)
    /\ UNCHANGED <<setting, db, cache, retry, reader>>
    /\ Left({})

ClearFails(w, keys) ==
    /\ DeletedAtOnce(w, keys)
    /\ retry' = [retry EXCEPT ![w] = @ \cup keys]
    /\ Advance(w, Head(clearing[w]) \ keys)
    /\ UNCHANGED <<setting, db, cache, reader>>
    /\ Left({})

\* The cleaner tries again.
Retry(w) == /\ retry[w] # {}
            /\ cache' = Dropped(retry[w])
            /\ retry' = [retry EXCEPT ![w] = {}]
            /\ UNCHANGED <<setting, db, clearing, reader>>
            /\ Left({})

\* After the last delay, an hour, the cleaner gives up.
RetryGivesUp(w) == /\ setting.faults
                   /\ retry[w] # {}
                   /\ retry' = [retry EXCEPT ![w] = {}]
                   /\ UNCHANGED <<setting, db, cache, clearing, reader>>
                   /\ Left(retry[w])

\* The process of the writer dies between the write and the delete, and the
\* cleaner's tasks die with it.
Crash(w) == /\ setting.faults
            /\ clearing[w] # <<>> \/ retry[w] # {}
            /\ clearing' = [clearing EXCEPT ![w] = <<>>]
            /\ retry' = [retry EXCEPT ![w] = {}]
            /\ UNCHANGED <<setting, db, cache, reader>>
            /\ Left(retry[w] \cup (UNION {clearing[w][i] : i \in 1 .. Len(clearing[w])}))
-----------------------------------------------------------------------------
(* A lookup through a CachedConn. A hit changes nothing, and a hit of a      *)
(* unique value goes on with the lookup of its primary key.                  *)

Miss(r, k) == /\ reader[r] = Idle
              /\ cache[k] = NoEntry
              /\ reader' = [reader EXCEPT ![r] = [at |-> "query", key |-> k]]
              /\ UNCHANGED <<setting, db, cache, clearing, retry, ghost>>

Query(r) ==
    /\ reader[r].at = "query"
    /\ LET k == reader[r].key
           found == Truth(db, k)
       IN  reader' = [reader EXCEPT ![r] =
             IF found \in Pk /\ k \in Uniq
             THEN [at |-> "fillRow", key |-> k, pk |-> found, row |-> db[found]]
             ELSE [at |-> "fill", key |-> k, entry |-> found]]
    /\ UNCHANGED <<setting, db, cache, clearing, retry, ghost>>

\* The row goes in under its primary key first, then its unique value.
FillRow(r) ==
    /\ reader[r].at = "fillRow"
    /\ cache' = [cache EXCEPT ![reader[r].pk] = reader[r].row]
    /\ reader' = [reader EXCEPT ![r] =
         [at |-> "fill", key |-> reader[r].key, entry |-> reader[r].pk]]
    /\ UNCHANGED <<setting, db, clearing, retry>>
    /\ Left({reader[r].pk})

\* The placeholder is set only where there is nothing (SETNX).
Fill(r) ==
    /\ reader[r].at = "fill"
    /\ cache' = IF reader[r].entry = Missing /\ cache[reader[r].key] # NoEntry
                THEN cache
                ELSE [cache EXCEPT ![reader[r].key] = reader[r].entry]
    /\ reader' = [reader EXCEPT ![r] = Idle]
    /\ UNCHANGED <<setting, db, clearing, retry>>
    /\ Left({reader[r].key})

\* Redis refuses the fill, the query fails, or the reader dies.
LookupFails(r) == /\ reader[r] # Idle
                  /\ reader' = [reader EXCEPT ![r] = Idle]
                  /\ UNCHANGED <<setting, db, cache, clearing, retry, ghost>>

Expire(k) == /\ cache[k] # NoEntry
             /\ cache' = Dropped({k})
             /\ UNCHANGED <<setting, db, clearing, retry, reader>>
             /\ Left({})
-----------------------------------------------------------------------------
WriteStep == \E w \in Writer, p \in setting.pks :
    \/ \E row \in Row : Insert(w, p, row) \/ Update(w, p, row) \/ UpdateFields(w, p, row)
    \/ \E q \in setting.pks \ {p}, row, next \in Row : InsertBatch(w, p, q, row, next)
    \/ Delete(w, p)

BatchStep == \E w \in Writer, gone \in (SUBSET setting.pks) \ {{}} : DeleteBatch(w, gone)

ClearStep == \E w \in Writer :
    \/ /\ clearing[w] # <<>>
       /\ \E keys \in SUBSET Head(clearing[w]) : Clear(w, keys) \/ ClearFails(w, keys)
    \/ Retry(w) \/ RetryGivesUp(w) \/ Crash(w)

ReadStep == \E r \in Reader :
    \/ \E k \in setting.pks \cup Uniq : Miss(r, k)
    \/ Query(r) \/ FillRow(r) \/ Fill(r) \/ LookupFails(r)

Next == WriteStep \/ BatchStep \/ ClearStep \/ ReadStep \/ \E k \in Key : Expire(k)

Spec == Init /\ [][Next]_vars
-----------------------------------------------------------------------------
\* What the database answers for a primary key, and for a unique value.
Answer(k) == IF k \in Pk THEN Row \cup {Missing} ELSE Pk \cup {Missing}

Lookup ==
    {Idle}
    \cup [at : {"query"}, key : Key]
    \cup [at : {"fillRow"}, key : Uniq, pk : Pk, row : Row]
    \cup (UNION {[at : {"fill"}, key : {k}, entry : Answer(k)] : k \in Key})

\* A key of the cache only ever has an answer of its kind, the unique index
\* holds, and what is left to delete are keys.
CacheTypeOK ==
    /\ setting \in Settings
    /\ db \in [Pk -> Row \cup {Missing}] /\ UniqueIndex(db)
    /\ cache \in [Key -> Row \cup Pk \cup {NoEntry, Missing}]
    /\ \A k \in Key : cache[k] \in Answer(k) \cup {NoEntry}
    /\ clearing \in [Writer -> Seq((SUBSET Key) \ {{}})]
    /\ retry \in [Writer -> SUBSET Key]
    /\ reader \in [Reader -> Lookup]
    /\ ghost \subseteq Stale(cache, db)

\* Keys that a call or a task of the cleaner has yet to delete.
Waiting == (UNION {retry[w] : w \in Writer})
             \cup (UNION {UNION {clearing[w][i] : i \in 1 .. Len(clearing[w])} : w \in Writer})

\* Whatever the interleaving of calls, lookups, failed deletes and crashes: a
\* stale key is still to be deleted, or it is one of those that the methods
\* leave to the expiry of the cache, that lost their delete, or that a lookup
\* filled with what it had read before.
StaleIsAccounted == Stale(cache, db) \subseteq ghost \cup Waiting

\* All calls have returned and no failed delete is left.
Settled == \A w \in Writer : clearing[w] = <<>> /\ retry[w] = {}

Cleaning == {"Insert", "InsertBatch", "Update"}

\* Insert, InsertBatch and Update bring the cache up to date for every primary
\* key and for every unique value that a row has, when no lookup overlaps a
\* write and no delete is lost: what is stale once the calls have returned is a
\* unique value that its row has given up.
OnlyGivenUpStale ==
    setting.methods \subseteq Cleaning /\ ~setting.racing /\ ~setting.faults =>
        (Settled => \A k \in Stale(cache, db) : k \in Uniq /\ Truth(db, k) = Missing)
=============================================================================
