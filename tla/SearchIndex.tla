---------------------------- MODULE SearchIndex ----------------------------
(***************************************************************************)
(* The Elasticsearch document of one product id beside its MySQL row: the  *)
(* double writes and the searches of searchRepository, internal/product/   *)
(* repository/search_repository.go, and the rebuild by cmd/seed/main.go,   *)
(* which may run while the services do.  A replica of product-service that *)
(* does not reach Elasticsearch when it starts runs without it.  A row or  *)
(* document is the number of the write it comes from; the keyword that     *)
(* shoppers look for is in the odd ones.                                   *)
(***************************************************************************)
EXTENDS Naturals

CONSTANTS Replicas,    \* processes of product-service
          Sellers,     \* callers of Create, Update and Delete
          Shoppers,    \* callers of ListProducts with the keyword
          MaxWrites    \* bound on the writes and reseeds of a behaviour

ASSUME IndexAssumption == MaxWrites \in Nat

Missing == 0
Matches(v) == v % 2 = 1

VARIABLES row,      \* the row, or Missing
          free,     \* the id has not been given out since the last TRUNCATE
          doc,      \* the document, or Missing
          writes,   \* writes so far
          call,     \* seller -> the call between its SQL and its ES request
          seed,     \* where the seed program is
          late,     \* ES requests given up by their callers that may still run
          searching,  \* the replicas that use the index
          search,   \* shopper -> his search
          failed,   \* history: an ES request was left out or may have been
          raced     \* history: calls have overlapped

writing == <<row, free, doc, writes, call, seed, late, failed, raced>>
vars == <<writing, searching, search>>

Idle == [step |-> "idle", doc |-> Missing, alone |-> TRUE]
SeedIdle == Idle
Busy(s) == call[s] # Idle
NoSearch == [step |-> "done", answer |-> "none", truth |-> "unsettled"]
Quiet == seed = SeedIdle /\ late = {} /\ \A s \in Sellers : ~Busy(s)

IndexInit ==
    /\ row = Missing /\ free = TRUE /\ doc = Missing /\ writes = 0
    /\ call = [s \in Sellers |-> Idle] /\ seed = SeedIdle
    /\ late = {} /\ failed = FALSE /\ raced = FALSE
    /\ searching \in SUBSET Replicas
    /\ search = [q \in Shoppers |-> NoSearch]

\* History: a write meets the calls that are on their way to ES.
Marked(c) == IF c = Idle THEN Idle ELSE [c EXCEPT !.alone = FALSE]
AllMarked == [s \in Sellers |-> Marked(call[s])]
Others(s) == seed # SeedIdle \/ \E t \in Sellers \ {s} : Busy(t)

\* The SQL of Create, which is given the id once, of Update or of Delete.
Change ==
    /\ writes < MaxWrites /\ writes' = writes + 1
    /\ \/ free /\ free' = FALSE /\ row' = writes + 1
       \/ row # Missing /\ row' \in {writes + 1, Missing} /\ UNCHANGED free
    /\ seed' = Marked(seed)

Commit(s) ==
    /\ ~Busy(s)
    /\ Change
    /\ call' = [AllMarked EXCEPT ![s] = [step |-> "sent", doc |-> row', alone |-> ~Others(s)]]
    /\ raced' = (raced \/ Others(s))
    /\ UNCHANGED <<doc, late, failed>>

CommitOnly(s) ==
    /\ ~Busy(s)
    /\ Change
    /\ call' = AllMarked
    /\ failed' = TRUE
    /\ UNCHANGED <<doc, late, raced>>

\* It commits but is reported failed: the ES request is left out.
CommitUnnoticed(s) == CommitOnly(s)

\* A write through a replica that runs without the index, which is logged only
\* when that replica starts.
CommitUnsearched(s) == searching # Replicas /\ CommitOnly(s)

EffectKeepsDeleted(d) == doc' = IF d = Missing THEN doc ELSE d

\* Index overwrites the document, Delete makes sure there is none (a 404 is fine).
Effect(d) == doc' = d

Return(s) == call' = [call EXCEPT ![s] = Idle]

\* History: a call that met nobody settles what was logged or raced before.
Settle(alone) == IF alone /\ late = {} THEN failed' = FALSE /\ raced' = FALSE
                                       ELSE UNCHANGED <<failed, raced>>

Synced(s) ==
    /\ Busy(s)
    /\ Effect(call[s].doc)
    /\ Return(s)
    /\ Settle(call[s].alone)
    /\ UNCHANGED <<row, free, writes, seed, late>>

\* ES fails, or its two seconds are over, or the service dies: a warning at
\* most, and the seller is told that all is well.
NotSynced(s) ==
    /\ Busy(s)
    /\ late' \in {late, late \cup {call[s].doc}}
    /\ Return(s)
    /\ failed' = TRUE
    /\ UNCHANGED <<row, free, doc, writes, seed, raced>>

LateEffect ==
    /\ \E d \in late : Effect(d) /\ late' = late \ {d}
    /\ UNCHANGED <<row, free, writes, call, seed, failed, raced>>

-----------------------------------------------------------------------------
(* The seed program.                                                       *)

SeedTo(s) == seed' = [seed EXCEPT !.step = s]

Truncate ==
    /\ seed = SeedIdle
    /\ row' = Missing /\ free' = TRUE
    /\ LET met == \E s \in Sellers : Busy(s) IN
         /\ seed' = [step |-> "insert", doc |-> Missing, alone |-> ~met]
         /\ raced' = (raced \/ met)
    /\ call' = AllMarked
    /\ UNCHANGED <<doc, writes, late, failed>>

\* The rows get the next ids: a product that a seller created since keeps its own.
InsertProducts ==
    /\ seed.step = "insert"
    /\ IF free
       THEN /\ writes < MaxWrites /\ writes' = writes + 1
            /\ row' = writes + 1
            /\ seed' = [seed EXCEPT !.step = "recreate", !.doc = writes + 1]
       ELSE SeedTo("recreate") /\ UNCHANGED <<row, writes>>
    /\ free' = FALSE
    /\ UNCHANGED <<doc, call, late, failed, raced>>

\* Recreate drops the index and makes an empty one.
Recreate ==
    /\ seed.step = "recreate"
    /\ doc' = Missing
    /\ SeedTo("index")
    /\ UNCHANGED <<row, free, writes, call, late, failed, raced>>

\* One Index call for every product it inserted; this is the one for ours.
IndexProduct ==
    /\ seed.step = "index"
    /\ IF seed.doc = Missing THEN UNCHANGED doc ELSE Effect(seed.doc)
    /\ Settle(seed.alone)
    /\ seed' = SeedIdle
    /\ UNCHANGED <<row, free, writes, call, late>>

\* It stops, or a step towards ES fails: a warning, and the rest is skipped.
SeedFails ==
    /\ seed # SeedIdle
    /\ seed' = SeedIdle /\ failed' = TRUE
    /\ UNCHANGED <<row, free, doc, writes, call, late, raced>>

SeedNext == Truncate \/ InsertProducts \/ Recreate \/ IndexProduct \/ SeedFails

-----------------------------------------------------------------------------
(* Searches: SearchByKeyword, which recalls ids from the index and reads    *)
(* the rows by id, or falls back to LIKE.                                   *)

\* History: what the search should say, as long as that stays the same.
Truth(s, r, d) ==
    IF r = Missing THEN "no"
    ELSE IF s = "like" \/ d = r THEN IF Matches(r) THEN "yes" ELSE "no"
    ELSE "unsettled"
Watched ==
    search' = [q \in Shoppers |->
                 IF search[q].step = "done" \/ search[q].truth = Truth(search[q].step, row', doc')
                 THEN search[q] ELSE [search[q] EXCEPT !.truth = "unsettled"]]

To(q, s) == search' = [search EXCEPT ![q].step = s]
Say(q, a) == search' = [search EXCEPT ![q].step = "done", ![q].answer = a]

Ask(q) ==
    /\ search[q].step = "done"
    /\ \E r \in Replicas :
         LET s == IF r \in searching THEN "recall" ELSE "like"
         IN search' = [search EXCEPT ![q] = [step |-> s, answer |-> "none", truth |-> Truth(s, row, doc)]]

Recall(q) ==
    /\ search[q].step = "recall"
    /\ IF doc # Missing /\ Matches(doc) THEN To(q, "rows") ELSE Say(q, "no")

RecallFails(q) == search[q].step = "recall" /\ To(q, "like")

TrustIndex(q) ==
    /\ search[q].step = "rows"
    /\ Say(q, "yes")

\* ListByIDs: a product that is gone from the table is left out.
ReadRows(q) ==
    /\ search[q].step = "rows"
    /\ Say(q, IF row = Missing THEN "no" ELSE "yes")

Like(q) ==
    /\ search[q].step = "like"
    /\ Say(q, IF row # Missing /\ Matches(row) THEN "yes" ELSE "no")

SearchFails(q) == search[q].step \in {"rows", "like"} /\ Say(q, "error")

SearchNext(q) == Ask(q) \/ Recall(q) \/ RecallFails(q) \/ ReadRows(q) \/ Like(q) \/ SearchFails(q)

\* A replica starts: half a minute of pings decides whether it uses the index.
Restart(r) == searching' \in {searching \cup {r}, searching \ {r}} /\ UNCHANGED search

IndexNext ==
    \/ /\ \/ \E s \in Sellers : \/ Commit(s) \/ CommitUnnoticed(s) \/ CommitUnsearched(s)
                                \/ Synced(s) \/ NotSynced(s)
          \/ LateEffect
          \/ SeedNext
       /\ Watched /\ UNCHANGED searching
    \/ (\E q \in Shoppers : SearchNext(q)) /\ UNCHANGED <<writing, searching>>
    \/ (\E r \in Replicas : Restart(r)) /\ UNCHANGED writing

IndexSpec == IndexInit /\ [][IndexNext]_vars

-----------------------------------------------------------------------------
\* When nothing is under way, the index differs from the table only after a
\* request that was left out or overlapping writes, and one later write or reseed that
\* runs alone and succeeds makes them agree again (search_repository.go:378-416
\* and cmd/seed/main.go:211-234).
DivergenceIsExcused == Quiet /\ ~failed /\ ~raced => doc = row

\* A search never shows a product that was deleted before it began, whatever the
\* index holds, and it tells the truth about one whose row and document agree
\* throughout, also when the index stops answering (search_repository.go:346-376,
\* whose comment at line 372 leaves stale documents to be skipped).
SearchesAreHonest ==
    \A q \in Shoppers :
        /\ search[q].step = "done" /\ search[q].answer \in {"yes", "no"}
        /\ search[q].truth # "unsettled"
        => search[q].answer = search[q].truth
=============================================================================
