----------------------------- MODULE CacheProofs -----------------------------
(***************************************************************************)
(* For any number of replicas, readers, writers and changes of the row:    *)
(* the cache is out of date only for a reason, and a read is answered with *)
(* an older row than it asked for only out of such a key or by a flight    *)
(* that was under way before it.                                           *)
(***************************************************************************)
EXTENDS ProductCache, TLAPS

Flights == [step : {"none", "query", "fill"}, floor : Rows, row : Rows]
Reads == [step : {"done", "lookup", "missed", "waiting", "direct"}, floor : Rows, at : Replicas]
Excuses == {"none", "late fill", "lost delete", "null marker", "no cache"}

\* The stores, and what the replicas are doing.
StoresOK ==
    /\ row \in Rows /\ key \in Rows \cup {Empty}
    /\ writer \subseteq Writers /\ cached \subseteq Replicas
    /\ vacant \in BOOLEAN /\ seeding \in BOOLEAN /\ excuse \in Excuses

\* Whoever waits has a flight, and a flight that is over is forgotten, so that the
\* next one to miss begins a new one.
CallsOK ==
    /\ flight \in [Replicas -> Flights] /\ reader \in [Readers -> Reads]
    /\ \A c \in Readers : reader[c].step = "waiting" => flight[reader[c].at].step # "none"
    /\ \A r \in Replicas : flight[r].step = "none" => flight[r] = NoFlight

\* The key is the row, unless something excuses it.
KeyNeedsCause == key \in {Empty, row} \/ ~Quiet \/ excuse # "none"

\* A flight queries after it began, and a row never goes back.
FlightsLookForward ==
    \A r \in Replicas :
        /\ flight[r].step # "none" => flight[r].floor <= row
        /\ flight[r].step = "fill" => flight[r].floor <= flight[r].row /\ flight[r].row <= row

CacheInv == StoresOK /\ CallsOK /\ KeyNeedsCause /\ FlightsLookForward

LEMMA RowsAre == Rows \subseteq Nat /\ 0 \in Rows /\ 1 \in Rows /\ Empty \notin Rows
BY CacheAssumption DEF Rows, Empty

LEMMA SomeReplica == (CHOOSE r \in Replicas : TRUE) \in Replicas
BY CacheAssumption

LEMMA Shapes == NoFlight \in Flights /\ NoRead \in Reads
BY RowsAre, SomeReplica DEF NoFlight, NoRead, Flights, Reads
-----------------------------------------------------------------------------
(* Reads *)

\* A read that goes on by itself.
LEMMA ReadKeepsInv ==
    ASSUME CacheInv, NEW c \in Readers, NEW v \in Reads, v.step # "waiting",
           reader' = [reader EXCEPT ![c] = v],
           UNCHANGED <<row, key, flight, writer, world, excuse>>
    PROVE  CacheInv'
<1>1. StoresOK' /\ KeyNeedsCause' /\ FlightsLookForward'
  BY DEF CacheInv, StoresOK, KeyNeedsCause, Quiet, FlightsLookForward, world
<1>2. CallsOK'
  BY DEF CacheInv, CallsOK
<1> QED BY <1>1, <1>2 DEF CacheInv

LEMMA ReaderStep ==
    ASSUME CacheInv, NEW c \in Readers, Start(c) \/ Lookup(c) \/ QueryDirect(c)
    PROVE  CacheInv'
<1>1. reader \in [Readers -> Reads] /\ row \in Rows
  BY DEF CacheInv, CallsOK, StoresOK
<1>2. ASSUME NEW s \in {"missed"} PROVE [reader[c] EXCEPT !.step = s] \in Reads
  BY <1>1 DEF Reads
<1>3. CASE Start(c)
  <2>1. PICK r \in Replicas : reader' = [reader EXCEPT ![c] =
            IF r \in cached THEN [step |-> "lookup", floor |-> row, at |-> r] ELSE Direct(r)]
    BY <1>3 DEF Start
  <2>2. [step |-> "lookup", floor |-> row, at |-> r] \in Reads /\ Direct(r) \in Reads
    BY <1>1, RowsAre DEF Reads, Direct
  <2> QED BY <1>3, <2>1, <2>2, ReadKeepsInv DEF Start, Direct
<1>4. CASE Lookup(c)
  <2>1. CASE Answer(c)
    BY <1>4, <2>1, Shapes, ReadKeepsInv DEF Lookup, Answer, NoRead
  <2>2. CASE To(c, "missed")
    <3>1. reader' = [reader EXCEPT ![c] = [reader[c] EXCEPT !.step = "missed"]]
      BY <2>2 DEF To
    <3>2. [reader[c] EXCEPT !.step = "missed"].step = "missed"
      BY <1>1 DEF Reads
    <3> QED BY <1>2, <1>4, <3>1, <3>2, ReadKeepsInv DEF Lookup
  <2>3. CASE reader' = [reader EXCEPT ![c] = Direct(reader[c].at)]
    <3>1. Direct(reader[c].at) \in Reads /\ Direct(reader[c].at).step # "waiting"
      BY <1>1, RowsAre DEF Reads, Direct
    <3> QED BY <1>4, <2>3, <3>1, ReadKeepsInv DEF Lookup
  <2> QED BY <1>4, <2>1, <2>2, <2>3 DEF Lookup
<1>5. CASE QueryDirect(c)
  BY <1>5, Shapes, ReadKeepsInv DEF QueryDirect, Answer, NoRead
<1> QED BY <1>3, <1>4, <1>5

\* Joining a flight that is there already, or beginning one.
LEMMA JoinStep == ASSUME CacheInv, NEW c \in Readers, Join(c) PROVE CacheInv'
<1> DEFINE r == reader[c].at
           begun == [step |-> "query", floor |-> row, row |-> 0]
<1>1. /\ reader \in [Readers -> Reads] /\ flight \in [Replicas -> Flights]
      /\ row \in Rows /\ r \in Replicas
  BY DEF CacheInv, CallsOK, StoresOK, Reads
<1>2. reader' = [reader EXCEPT ![c] = [reader[c] EXCEPT !.step = "waiting"]]
  BY DEF Join, To
<1>3. /\ [reader[c] EXCEPT !.step = "waiting"] \in Reads
      /\ [reader[c] EXCEPT !.step = "waiting"].at = r
  BY <1>1 DEF Reads
<1>4. flight' = [flight EXCEPT ![r] = IF flight[r] = NoFlight THEN begun ELSE flight[r]]
  BY DEF Join
<1>5. begun \in Flights
  BY <1>1, RowsAre DEF Flights
<1>6. flight'[r].step # "none"
  BY <1>1, <1>4 DEF CacheInv, CallsOK
<1>7. \A q \in Replicas : flight'[q] = flight[q] \/ (flight[q] = NoFlight /\ flight'[q] = begun)
  BY <1>1, <1>4
<1>8. CallsOK'
  <2>1. flight' \in [Replicas -> Flights] /\ reader' \in [Readers -> Reads]
    BY <1>1, <1>2, <1>3, <1>4, <1>5
  <2>2. \A q \in Replicas : flight'[q].step = "none" => flight'[q] = NoFlight
    BY <1>7 DEF CacheInv, CallsOK
  <2>3. ASSUME NEW d \in Readers, reader'[d].step = "waiting"
        PROVE  flight'[reader'[d].at].step # "none"
    <3>1. CASE d = c
      BY <1>1, <1>2, <1>3, <1>6, <3>1
    <3>2. CASE d # c
      <4>1. reader'[d] = reader[d] /\ reader[d].at \in Replicas
        BY <1>1, <1>2, <3>2 DEF Reads
      <4>2. flight[reader[d].at].step # "none"
        BY <2>3, <4>1 DEF CacheInv, CallsOK
      <4> QED BY <1>7, <4>1, <4>2
    <3> QED BY <3>1, <3>2
  <2> QED BY <2>1, <2>2, <2>3 DEF CallsOK
<1>9. FlightsLookForward'
  <2>1. row' = row /\ row \in Nat
    BY <1>1, RowsAre DEF Join
  <2> QED BY <1>7, <2>1 DEF CacheInv, FlightsLookForward
<1>10. StoresOK' /\ KeyNeedsCause'
  BY DEF Join, CacheInv, StoresOK, KeyNeedsCause, Quiet, world
<1> QED BY <1>8, <1>9, <1>10 DEF CacheInv
-----------------------------------------------------------------------------
(* Flights *)

LEMMA QueryStep == ASSUME CacheInv, NEW r \in Replicas, Query(r) PROVE CacheInv'
<1> DEFINE f == [flight[r] EXCEPT !.step = "fill", !.row = row]
<1>1. flight \in [Replicas -> Flights] /\ row \in Rows /\ row \in Nat
  BY RowsAre DEF CacheInv, CallsOK, StoresOK
<1>2. f \in Flights /\ f.step = "fill" /\ f.row = row /\ f.floor = flight[r].floor
  BY <1>1 DEF Flights
<1>3. flight' = [flight EXCEPT ![r] = f] /\ flight[r].step = "query"
  BY DEF Query
<1>4. CallsOK'
  <2>1. flight' \in [Replicas -> Flights] /\ reader' = reader
    BY <1>1, <1>2, <1>3 DEF Query
  <2>2. \A q \in Replicas :
          flight'[q] = flight[q] \/ (flight[q].step # "none" /\ flight'[q].step = "fill")
    BY <1>1, <1>2, <1>3
  <2>3. \A c \in Readers : reader[c].at \in Replicas
    BY DEF CacheInv, CallsOK, Reads
  <2> QED BY <2>1, <2>2, <2>3 DEF CacheInv, CallsOK
<1>5. FlightsLookForward'
  BY <1>1, <1>2, <1>3 DEF Query, CacheInv, FlightsLookForward
<1>6. StoresOK' /\ KeyNeedsCause'
  BY DEF Query, CacheInv, StoresOK, KeyNeedsCause, Quiet, world
<1> QED BY <1>4, <1>5, <1>6 DEF CacheInv

\* A flight is over, and with it the reads that waited for it, and perhaps others.
LEMMA FlightOver ==
    ASSUME CacheInv, NEW r \in Replicas, UNCHANGED row,
           flight' = [flight EXCEPT ![r] = NoFlight],
           NEW over, over \subseteq Readers,
           \A c \in Readers : reader[c].step = "waiting" /\ reader[c].at = r => c \in over,
           reader' = [c \in Readers |-> IF c \in over THEN NoRead ELSE reader[c]]
    PROVE  CallsOK' /\ FlightsLookForward'
<1>1. flight \in [Replicas -> Flights] /\ reader \in [Readers -> Reads]
  BY DEF CacheInv, CallsOK
<1>2. flight' \in [Replicas -> Flights] /\ reader' \in [Readers -> Reads]
  BY <1>1, Shapes
<1>3. \A c \in Readers : reader'[c].step = "waiting" =>
        c \notin over /\ reader'[c] = reader[c] /\ reader[c].at # r
  BY <1>1 DEF NoRead
<1>4. ASSUME NEW c \in Readers, reader'[c].step = "waiting"
      PROVE  flight'[reader'[c].at].step # "none"
  <2>1. reader[c].at \in Replicas /\ flight[reader[c].at].step # "none"
    BY <1>1, <1>3, <1>4 DEF CacheInv, CallsOK, Reads
  <2> QED BY <1>1, <1>3, <1>4, <2>1
<1>5. \A q \in Replicas : flight'[q] = NoFlight \/ flight'[q] = flight[q]
  BY <1>1
<1>6. FlightsLookForward'
  BY <1>5 DEF CacheInv, FlightsLookForward, NoFlight
<1> QED BY <1>2, <1>4, <1>5, <1>6 DEF CacheInv, CallsOK

LEMMA LandKeeps ==
    ASSUME CacheInv, NEW r \in Replicas, Land(r), UNCHANGED row
    PROVE  CallsOK' /\ FlightsLookForward'
<1> DEFINE over == {c \in Readers : reader[c].step = "waiting" /\ reader[c].at = r}
<1>1. reader' = [c \in Readers |-> IF c \in over THEN NoRead ELSE reader[c]]
  BY DEF Land
<1> QED BY <1>1, FlightOver DEF Land

LEMMA FlightStep ==
    ASSUME CacheInv, NEW r \in Replicas,
           Query(r) \/ QueryFails(r) \/ Fill(r) \/ SetFails(r) \/ Restart(r)
    PROVE  CacheInv'
<1>1. CASE QueryFails(r) \/ SetFails(r)
  <2>1. CallsOK' /\ FlightsLookForward'
    BY <1>1, LandKeeps DEF QueryFails, SetFails
  <2>2. StoresOK' /\ KeyNeedsCause'
    BY <1>1 DEF QueryFails, SetFails, CacheInv, StoresOK, KeyNeedsCause, Quiet, world
  <2> QED BY <2>1, <2>2 DEF CacheInv
<1>2. CASE Fill(r)
  <2>1. CallsOK' /\ FlightsLookForward'
    BY <1>2, LandKeeps DEF Fill
  <2>2. flight[r].row \in Rows
    BY DEF CacheInv, CallsOK, Flights
  <2>3. StoresOK' /\ KeyNeedsCause'
    BY <1>2, <2>2 DEF Fill, CacheInv, StoresOK, KeyNeedsCause, Quiet, world, Excuses
  <2> QED BY <2>1, <2>3 DEF CacheInv
<1>3. CASE Restart(r)
  <2> DEFINE over == {c \in Readers : reader[c].at = r}
  <2>1. reader' = [c \in Readers |-> IF c \in over THEN NoRead ELSE reader[c]]
    BY <1>3 DEF Restart
  <2>2. CallsOK' /\ FlightsLookForward'
    BY <1>3, <2>1, FlightOver DEF Restart
  <2>3. StoresOK' /\ KeyNeedsCause'
    BY <1>3 DEF Restart, CacheInv, StoresOK, KeyNeedsCause, Quiet
  <2> QED BY <2>2, <2>3 DEF CacheInv
<1> QED BY <1>1, <1>2, <1>3, QueryStep
-----------------------------------------------------------------------------
(* Writes and the seed *)

\* What leaves the calls alone and takes the row no further back.
LEMMA CallsStand ==
    ASSUME CacheInv, UNCHANGED <<flight, reader>>, row' \in Rows, row' >= row
    PROVE  CallsOK' /\ FlightsLookForward'
<1>1. CallsOK'
  BY DEF CacheInv, CallsOK
<1>2. row \in Nat /\ row' \in Nat /\ \A r \in Replicas : flight[r] \in Flights
  BY RowsAre DEF CacheInv, StoresOK, CallsOK
<1>3. \A r \in Replicas : flight[r].floor \in Nat /\ flight[r].row \in Nat
  BY <1>2, RowsAre DEF Flights
<1>4. FlightsLookForward'
  BY <1>2, <1>3 DEF CacheInv, FlightsLookForward
<1> QED BY <1>1, <1>4

LEMMA CommitIs ==
    ASSUME CacheInv, Commit
    PROVE  /\ CallsOK' /\ FlightsLookForward' /\ row' \in Rows
           /\ UNCHANGED <<key, flight, reader, world>>
<1>1. row' \in Rows /\ row' >= row
  BY RowsAre DEF Commit, NextRow, CacheInv, StoresOK
<1> QED BY <1>1, CallsStand DEF Commit

LEMMA WriteStep ==
    ASSUME CacheInv,
           \/ WriteUnnoticed \/ WriteUncached
           \/ \E w \in Writers : Write(w) \/ Invalidate(w) \/ InvalidateFails(w)
    PROVE  CacheInv'
<1>1. CASE WriteUnnoticed \/ WriteUncached
  <2>1. Commit /\ excuse' \in Excuses \ {"none"} /\ UNCHANGED writer
    BY <1>1 DEF WriteUnnoticed, WriteUncached, Excuses
  <2> QED BY <2>1, CommitIs DEF CacheInv, StoresOK, KeyNeedsCause, world
<1>2. ASSUME NEW w \in Writers, Write(w) PROVE CacheInv'
  BY <1>2, CommitIs DEF Write, CacheInv, StoresOK, KeyNeedsCause, Quiet, world
<1>3. ASSUME NEW w \in Writers, Invalidate(w) \/ InvalidateFails(w) PROVE CacheInv'
  <2>1. row \in Rows /\ row \in Nat /\ UNCHANGED <<row, flight, reader>>
    BY <1>3, RowsAre DEF Invalidate, InvalidateFails, CacheInv, StoresOK
  <2>2. CallsOK' /\ FlightsLookForward'
    BY <2>1, CallsStand
  <2>3. StoresOK' /\ KeyNeedsCause'
    BY <1>3 DEF Invalidate, InvalidateFails, CacheInv, StoresOK, KeyNeedsCause, Quiet, world,
       Excuses
  <2> QED BY <2>2, <2>3 DEF CacheInv
<1> QED BY <1>1, <1>2, <1>3

LEMMA SeedStep ==
    ASSUME CacheInv, Expire \/ Create \/ Truncate \/ Flush \/ FlushFails
    PROVE  CacheInv'
<1>1. row \in Nat /\ row' \in Rows /\ row' >= row
  <2>1. row \in Rows /\ row \in 0..MaxRow /\ MaxRow \in Nat
    BY CacheAssumption DEF CacheInv, StoresOK, Rows
  <2>2. row' = row \/ (row' = row + 1 /\ row < MaxRow) \/ (row' = row + 1 /\ row + 1 \in Rows)
    BY DEF Expire, Create, Truncate, Flush, FlushFails
  <2> QED BY <2>1, <2>2 DEF Rows
<1>2. CallsOK' /\ FlightsLookForward'
  BY <1>1, CallsStand DEF Expire, Create, Truncate, Flush, FlushFails
<1>3. StoresOK'
  BY <1>1 DEF Expire, Create, Truncate, Flush, FlushFails, CacheInv, StoresOK, Excuses, world
<1>4. KeyNeedsCause'
  BY DEF Expire, Create, Truncate, Flush, FlushFails, CacheInv, KeyNeedsCause, Quiet, world
<1> QED BY <1>2, <1>3, <1>4 DEF CacheInv
-----------------------------------------------------------------------------
(* The invariant *)

LEMMA CacheInitially == CacheInit => CacheInv
<1> SUFFICES ASSUME CacheInit PROVE CacheInv
  OBVIOUS
<1>1. StoresOK /\ KeyNeedsCause
  BY RowsAre DEF CacheInit, StoresOK, KeyNeedsCause, Excuses
<1>2. CallsOK /\ FlightsLookForward
  BY Shapes DEF CacheInit, CallsOK, FlightsLookForward, NoFlight, NoRead
<1> QED BY <1>1, <1>2 DEF CacheInv

LEMMA CacheStep == CacheInv /\ [CacheNext]_vars => CacheInv'
<1> SUFFICES ASSUME CacheInv, [CacheNext]_vars PROVE CacheInv'
  OBVIOUS
<1>1. CASE UNCHANGED vars
  BY <1>1 DEF vars, world, CacheInv, StoresOK, CallsOK, KeyNeedsCause, Quiet, FlightsLookForward
<1> QED BY <1>1, ReaderStep, JoinStep, FlightStep, WriteStep, SeedStep DEF CacheNext

LEMMA CacheHolds == CacheSpec => []CacheInv
BY CacheInitially, CacheStep, PTL DEF CacheSpec

\* Every variable keeps its type, and nobody waits in singleflight for a call that
\* is over (cached_repository.go, sf.Do).
THEOREM NobodyWaitsForNothing == CacheSpec => []CacheTypeOK
<1>1. CacheInv => CacheTypeOK
  BY DEF CacheInv, StoresOK, CallsOK, CacheTypeOK, Flights, Reads, Excuses
<1> QED BY <1>1, CacheHolds, PTL

\* For any number of replicas and changes the cache disagrees with the table only
\* for one of the reasons that StaleNeedsCause lists (cached_repository.go).
THEOREM StaleOnlyWithCause == CacheSpec => []StaleNeedsCause
<1>1. CacheInv => StaleNeedsCause
  BY DEF CacheInv, KeyNeedsCause, StaleNeedsCause, Fresh, Same
<1> QED BY <1>1, CacheHolds, PTL

-----------------------------------------------------------------------------
(* Old answers *)

\* A read asks for a row that was there.
AskedBefore == \A c \in Readers : reader[c].floor \in Nat /\ reader[c].floor <= row

LEMMA RowGrows ==
    ASSUME CacheInv, CacheNext
    PROVE  row \in Nat /\ row' \in Nat /\ row' >= row
<1>1. row \in Nat /\ row' \in Nat
  BY CacheStep, RowsAre DEF CacheInv, StoresOK
<1>2. CASE Commit \/ Create \/ Truncate
  <2>1. row' \in {row, row + 1, row + 2}
    BY <1>2 DEF Commit, NextRow, Create, Truncate
  <2> QED BY <1>1, <2>1
<1>3. CASE UNCHANGED row
  BY <1>1, <1>3
<1> QED BY <1>1, <1>2, <1>3 DEF CacheNext, Start, Lookup, Join, QueryDirect, Query, QueryFails,
    Fill, SetFails, Restart, Expire, WriteUnnoticed, WriteUncached, Write, Invalidate,
    InvalidateFails, Flush, FlushFails

LEMMA FloorIs ==
    ASSUME CacheInv, CacheNext, NEW c \in Readers
    PROVE  reader'[c].floor \in {0, row, reader[c].floor}
<1>1. reader \in [Readers -> Reads]
  BY DEF CacheInv, CallsOK
<1>2. ASSUME NEW d \in Readers, NEW s, To(d, s) PROVE reader'[c].floor = reader[c].floor
  <2>1. reader' = [reader EXCEPT ![d].step = s]
    BY <1>2 DEF To
  <2> QED BY <1>1, <2>1 DEF Reads
<1>3. ASSUME NEW d \in Readers, Answer(d) PROVE reader'[c].floor \in {0, reader[c].floor}
  BY <1>1, <1>3 DEF Answer, NoRead
<1>4. ASSUME NEW d \in Readers, Start(d) \/ Lookup(d) \/ Join(d) \/ QueryDirect(d)
      PROVE  reader'[c].floor \in {0, row, reader[c].floor}
  BY <1>1, <1>2, <1>3, <1>4 DEF Start, Lookup, Join, QueryDirect, Direct
<1>5. ASSUME NEW r \in Replicas, Land(r) \/ Restart(r)
      PROVE  reader'[c].floor \in {0, reader[c].floor}
  BY <1>5 DEF Land, Restart, NoRead
<1>6. CASE UNCHANGED reader
  BY <1>6
<1> QED BY <1>4, <1>5, <1>6 DEF CacheNext, Query, QueryFails, Fill, SetFails, Expire, Create,
    Commit, WriteUnnoticed, WriteUncached, Write, Invalidate, InvalidateFails, Truncate, Flush,
    FlushFails

LEMMA AskedStep == CacheInv /\ AskedBefore /\ [CacheNext]_vars => AskedBefore'
<1> SUFFICES ASSUME CacheInv, AskedBefore, [CacheNext]_vars, NEW c \in Readers
             PROVE  reader'[c].floor \in Nat /\ reader'[c].floor <= row'
  BY DEF AskedBefore
<1>1. CASE UNCHANGED vars
  BY <1>1 DEF vars, AskedBefore
<1>2. CASE CacheNext
  BY <1>2, RowGrows, FloorIs DEF AskedBefore
<1> QED BY <1>1, <1>2

\* For any number of replicas and readers an answer that is older than the question
\* has its cause: it is out of a key with an excuse, or out of a flight that the
\* reader joined after it had begun (cached_repository.go, GetByID).
THEOREM OldAnswersHaveCauses == CacheSpec => OldAnswerNeedsCause
<1>1. CacheInit => AskedBefore
  BY RowsAre DEF CacheInit, AskedBefore, NoRead
<1>2. CacheInv /\ AskedBefore =>
        \A c \in Readers :
          /\ reader[c].step = "lookup" /\ key # Empty /\ Older(key, reader[c].floor)
               => ~Quiet \/ excuse # "none"
          /\ reader[c].step = "waiting" /\ flight[reader[c].at].step = "fill"
               /\ Older(flight[reader[c].at].row, reader[c].floor)
               => flight[reader[c].at].floor < reader[c].floor
  <2> SUFFICES ASSUME CacheInv, AskedBefore, NEW c \in Readers
               PROVE  /\ reader[c].step = "lookup" /\ key # Empty /\ Older(key, reader[c].floor)
                           => ~Quiet \/ excuse # "none"
                      /\ reader[c].step = "waiting" /\ flight[reader[c].at].step = "fill"
                           /\ Older(flight[reader[c].at].row, reader[c].floor)
                           => flight[reader[c].at].floor < reader[c].floor
    OBVIOUS
  <2>1. row \in Nat /\ reader[c].floor \in Nat /\ reader[c].floor <= row
    BY RowsAre DEF CacheInv, StoresOK, AskedBefore
  <2>2. flight[reader[c].at] \in Flights /\ reader[c].at \in Replicas
    BY DEF CacheInv, CallsOK, Reads
  <2>3. flight[reader[c].at].floor \in Nat /\ flight[reader[c].at].row \in Nat
    BY <2>2, RowsAre DEF Flights
  <2> QED BY <2>1, <2>2, <2>3 DEF CacheInv, KeyNeedsCause, FlightsLookForward, Older
<1>3. CacheInv /\ AskedBefore =>
        [\A c \in Readers : reader[c].step # "done" /\ reader'[c] = NoRead =>
           /\ reader[c].step = "lookup" /\ key # Empty /\ Older(key, reader[c].floor)
                => ~Quiet \/ excuse # "none"
           /\ LET f == flight[reader[c].at]
              IN reader[c].step = "waiting" /\ f.step = "fill" /\ Older(f.row, reader[c].floor)
                   => f.floor < reader[c].floor]_vars
  BY <1>2
<1> QED BY <1>1, <1>3, AskedStep, CacheHolds, PTL DEF CacheSpec, OldAnswerNeedsCause
=============================================================================
