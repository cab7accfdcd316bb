---------------------------- MODULE ProductCache ----------------------------
(***************************************************************************)
(* The Redis cache in front of the products table, for one product id:     *)
(* cachedRepository of internal/product/repository/cached_repository.go in *)
(* every replica of product-service.  A read looks into Redis and joins    *)
(* its replica's singleflight on a miss; a write commits in MySQL and then *)
(* deletes the key.  A replica that found no Redis when it started runs     *)
(* without the cache, and the seed program empties the table.  A row is the *)
(* number of the change that made it: odd while the product exists.        *)
(***************************************************************************)
EXTENDS Integers

CONSTANTS Replicas,    \* processes of product-service
          Readers,     \* calls of GetByID
          Writers,     \* calls of Update, Delete, DeductStock and RestoreStock
          MaxRow       \* bound on the changes of the row

ASSUME CacheAssumption == MaxRow \in Nat \ {0} /\ Replicas # {}

Rows == 0..MaxRow
Found(v) == v % 2 = 1    \* otherwise NotFound, or the null marker in Redis
Empty == -2              \* the key is not in Redis

VARIABLES row,      \* what MySQL holds
          key,      \* what Redis holds
          flight,   \* replica -> its singleflight call for the key
          reader,   \* reader -> its GetByID
          writer,   \* the writers that have committed and not invalidated
          cached,   \* the replicas that run with the cache
          vacant,   \* the id has not been given out since the table was empty
          seeding,  \* the seed program has emptied the table and not flushed Redis
          excuse    \* history: why the key may be out of date

world == <<cached, vacant, seeding>>
vars == <<row, key, flight, reader, writer, world, excuse>>

\* What a flight has read is from no earlier row than its floor, the row when it
\* began; the floor of a reader is the row when it asked.
NoFlight == [step |-> "none", floor |-> 0, row |-> 0]
Direct(r) == [step |-> "direct", floor |-> 0, at |-> r]
NoRead == [step |-> "done", floor |-> 0, at |-> CHOOSE r \in Replicas : TRUE]
Committed(w) == w \in writer

CacheInit ==
    /\ row \in {0, 1} /\ key \in {Empty, row}
    /\ flight = [r \in Replicas |-> NoFlight]
    /\ reader = [c \in Readers |-> NoRead]
    /\ writer = {} /\ excuse = "none"
    /\ cached \in SUBSET Replicas /\ vacant = (row = 0) /\ seeding = FALSE

-----------------------------------------------------------------------------
(* Reads.                                                                  *)

Start(c) ==
    /\ reader[c].step = "done"
    /\ \E r \in Replicas :
         reader' = [reader EXCEPT ![c] =
                      IF r \in cached THEN [step |-> "lookup", floor |-> row, at |-> r] ELSE Direct(r)]
    /\ UNCHANGED <<row, key, flight, writer, world, excuse>>

To(c, s) == reader' = [reader EXCEPT ![c].step = s]
Answer(c) == reader' = [reader EXCEPT ![c] = NoRead]

\* rdb.Get: a hit, a miss, or an error of Redis that is passed over.
Lookup(c) ==
    /\ reader[c].step = "lookup"
    /\ \/ key # Empty /\ Answer(c)
       \/ key = Empty /\ To(c, "missed")
       \/ reader' = [reader EXCEPT ![c] = Direct(reader[c].at)]
    /\ UNCHANGED <<row, key, flight, writer, world, excuse>>

\* sf.Do: the first to miss starts the flight, the others wait for it.
Join(c) ==
    /\ reader[c].step = "missed"
    /\ To(c, "waiting")
    /\ flight' = [flight EXCEPT ![reader[c].at] =
                     IF @ = NoFlight THEN [step |-> "query", floor |-> row, row |-> 0] ELSE @]
    /\ UNCHANGED <<row, key, writer, world, excuse>>

LandOnOne(r) ==
    /\ flight' = [flight EXCEPT ![r] = NoFlight]
    /\ \E c \in Readers : /\ reader[c].step = "waiting" /\ reader[c].at = r
                          /\ Answer(c)

\* Everyone who waits for the flight of r gets its row, or its error.
Land(r) ==
    /\ flight' = [flight EXCEPT ![r] = NoFlight]
    /\ reader' = [c \in Readers |->
                    IF reader[c].step = "waiting" /\ reader[c].at = r
                    THEN NoRead ELSE reader[c]]

Query(r) ==
    /\ flight[r].step = "query"
    /\ flight' = [flight EXCEPT ![r].step = "fill", ![r].row = row]
    /\ UNCHANGED <<row, key, reader, writer, world, excuse>>

\* MySQL fails, or the context of the request that leads the flight is over:
\* its followers fail with it.
QueryFails(r) ==
    /\ flight[r].step = "query"
    /\ Land(r)
    /\ UNCHANGED <<row, key, writer, world, excuse>>

Fill(r) ==
    /\ flight[r].step = "fill"
    /\ key' = flight[r].row
    /\ excuse' = IF flight[r].row = row THEN "none" ELSE "late fill"
    /\ Land(r)
    /\ UNCHANGED <<row, writer, world>>

SetFails(r) ==
    /\ flight[r].step = "fill"
    /\ Land(r)
    /\ UNCHANGED <<row, key, writer, world, excuse>>

\* Redis is down, or was when the replica started: straight to MySQL, outside
\* the singleflight.
QueryDirect(c) ==
    /\ reader[c].step = "direct"
    /\ Answer(c)
    /\ UNCHANGED <<row, key, flight, writer, world, excuse>>

\* The TTL of the key is over.
ExpireMarkers ==
    /\ key # Empty /\ ~Found(key)
    /\ key' = Empty /\ excuse' = "none"
    /\ UNCHANGED <<row, flight, reader, writer, world>>

Expire ==
    /\ key # Empty
    /\ key' = Empty /\ excuse' = "none"
    /\ UNCHANGED <<row, flight, reader, writer, world>>

-----------------------------------------------------------------------------
(* Writes.                                                                 *)

\* Create passes through: it leaves a null marker that a reader of the id cached.
Create ==
    /\ vacant /\ ~Found(row) /\ row < MaxRow
    /\ row' = row + 1 /\ vacant' = FALSE
    /\ excuse' = IF key = Empty THEN excuse ELSE "null marker"
    /\ UNCHANGED <<key, flight, reader, writer, cached, seeding>>

\* The SQL of Update and the stock calls, or of Delete, takes effect.
NextRow == {row + 1, row + 2} \cap Rows
Commit == Found(row) /\ row' \in NextRow /\ UNCHANGED <<key, flight, reader, world>>

Write(w) ==
    /\ ~Committed(w) /\ Commit
    /\ writer' = writer \cup {w}
    /\ UNCHANGED excuse

\* It takes effect, but the caller gets an error: the COMMIT was not confirmed,
\* or the row could not be read back.  The key is not deleted.
WriteUnnoticed == Commit /\ excuse' = "lost delete" /\ UNCHANGED writer

\* A write through a replica that runs without the cache.
WriteUncached == cached # Replicas /\ Commit /\ excuse' = "no cache" /\ UNCHANGED writer

InvalidateNothing(w) ==
    /\ Committed(w)
    /\ writer' = writer \ {w}
    /\ UNCHANGED <<row, key, flight, reader, world, excuse>>

Invalidate(w) ==
    /\ Committed(w)
    /\ key' = Empty /\ excuse' = "none"
    /\ writer' = writer \ {w}
    /\ UNCHANGED <<row, flight, reader, world>>

\* The DEL fails, and the caller is told Internal, or the process dies before it.
InvalidateFails(w) ==
    /\ Committed(w)
    /\ excuse' = "lost delete"
    /\ writer' = writer \ {w}
    /\ UNCHANGED <<row, key, flight, reader, world>>

\* A replica starts again, with the cache or, when Redis does not answer, without.
Restart(r) ==
    /\ cached' \in {cached \cup {r}, cached \ {r}}
    /\ flight' = [flight EXCEPT ![r] = NoFlight]
    /\ reader' = [c \in Readers |-> IF reader[c].at = r THEN NoRead ELSE reader[c]]
    /\ UNCHANGED <<row, key, writer, vacant, seeding, excuse>>

-----------------------------------------------------------------------------
(* The seed program: TRUNCATE, FLUSHDB, and inserts that are Creates.       *)

Truncate ==
    /\ ~seeding /\ row + 1 \in Rows
    /\ row' = IF Found(row) THEN row + 1 ELSE row
    /\ vacant' = TRUE /\ seeding' = TRUE
    /\ UNCHANGED <<key, flight, reader, writer, cached, excuse>>

Flush ==
    /\ seeding /\ seeding' = FALSE
    /\ key' = Empty /\ excuse' = "none"
    /\ UNCHANGED <<row, flight, reader, writer, cached, vacant>>

\* Redis does not answer, which is only a warning, or the program dies.
FlushFails ==
    /\ seeding /\ seeding' = FALSE
    /\ excuse' = "lost delete"
    /\ UNCHANGED <<row, key, flight, reader, writer, cached, vacant>>

CacheNext ==
    \/ \E c \in Readers : Start(c) \/ Lookup(c) \/ Join(c) \/ QueryDirect(c)
    \/ \E r \in Replicas : Query(r) \/ QueryFails(r) \/ Fill(r) \/ SetFails(r) \/ Restart(r)
    \/ Expire \/ Create \/ WriteUnnoticed \/ WriteUncached
    \/ \E w \in Writers : Write(w) \/ Invalidate(w) \/ InvalidateFails(w)
    \/ Truncate \/ Flush \/ FlushFails

CacheSpec == CacheInit /\ [][CacheNext]_vars

\* Flights end (their calls have deadlines) and TTLs run out.
CacheFairSpec ==
    /\ CacheSpec
    /\ \A r \in Replicas : WF_vars(Query(r) \/ QueryFails(r)) /\ WF_vars(Fill(r) \/ SetFails(r))
    /\ WF_vars(Expire)

-----------------------------------------------------------------------------
\* The type invariant; the last conjunct says that whoever waits in singleflight
\* has a flight of his replica to wait for.
CacheTypeOK ==
    /\ row \in Rows /\ key \in Rows \cup {Empty}
    /\ flight \in [Replicas -> [step : {"none", "query", "fill"}, floor : Rows, row : Rows]]
    /\ reader \in [Readers -> [step : {"done", "lookup", "missed", "waiting", "direct"},
                               floor : Rows, at : Replicas]]
    /\ writer \subseteq Writers /\ cached \subseteq Replicas
    /\ vacant \in BOOLEAN /\ seeding \in BOOLEAN
    /\ excuse \in {"none", "late fill", "lost delete", "null marker", "no cache"}
    /\ \A c \in Readers : reader[c].step = "waiting" => flight[reader[c].at].step # "none"

Same(v, w) == v = w \/ (~Found(v) /\ ~Found(w))
Fresh == key = Empty \/ Same(key, row)
Quiet == writer = {} /\ ~seeding

\* The cache is out of date only while a committed write has not deleted the
\* key yet, or the seed has not flushed it, or for one of four reasons: a fill
\* stored what it read before a write, a DEL or flush was lost, a replica wrote
\* without the cache, or the row was created under a null marker
\* (cached_repository.go:56-165, product-service main.go:112).
StaleNeedsCause == Fresh \/ ~Quiet \/ excuse # "none"

\* A read is answered with an older row than it could have read itself when it
\* began only out of a key that has such a reason to be out of date, or because
\* it joined a singleflight call that was under way before (GetByID; it is also
\* what UpdateProduct answers with, product_service.go:132).
Older(v, floor) == v < floor /\ ~Same(v, floor)
OldAnswerNeedsCause ==
    [][\A c \in Readers : reader[c].step # "done" /\ reader'[c] = NoRead =>
         /\ reader[c].step = "lookup" /\ key # Empty /\ Older(key, reader[c].floor)
              => ~Quiet \/ excuse # "none"
         /\ LET f == flight[reader[c].at]
            IN reader[c].step = "waiting" /\ f.step = "fill" /\ Older(f.row, reader[c].floor)
                 => f.floor < reader[c].floor]_vars

\* When the writes stop, the cache comes to agree with the table for good,
\* whatever was lost before (the TTLs at cached_repository.go:23-30).
StalenessEnds == <>[]Fresh
=============================================================================
