----------------------------- MODULE IndexProofs -----------------------------
(***************************************************************************)
(* For any number of replicas, sellers, shoppers and writes: the search     *)
(* index differs from the table only for a reason, and a search never says  *)
(* what was not true while it ran.                                          *)
(***************************************************************************)
EXTENDS SearchIndex, TLAPS

Calls == [step : {"idle", "sent"}, doc : Nat, alone : BOOLEAN]
Seeds == [step : {"idle", "insert", "recreate", "index"}, doc : Nat, alone : BOOLEAN]
Searches == [step : {"done", "recall", "rows", "like"},
             answer : {"none", "yes", "no", "error"}, truth : {"unsettled", "yes", "no"}]

\* Rows and documents carry the numbers of writes that were made.
WritesOK ==
    /\ writes \in Nat /\ row \in 0..writes /\ doc \in 0..writes /\ late \subseteq 0..writes
    /\ call \in [Sellers -> Calls] /\ \A s \in Sellers : call[s].doc <= writes
    /\ seed \in Seeds /\ seed.doc <= writes
    /\ seed.step = "idle" => seed = SeedIdle
    /\ free \in BOOLEAN /\ failed \in BOOLEAN /\ raced \in BOOLEAN

Blamed == failed \/ raced

\* Who is alone on the way to the index brings the row there; who is not, or comes
\* late, has left a trace.
CallsExcused ==
    /\ late # {} => failed
    /\ \A s \in Sellers : Busy(s) =>
         IF call[s].alone
         THEN call[s].doc = row /\ seed = SeedIdle /\ \A t \in Sellers \ {s} : ~Busy(t)
         ELSE Blamed

SeedExcused ==
    seed # SeedIdle =>
      IF seed.alone
      THEN /\ \A s \in Sellers : ~Busy(s)
           /\ seed.step = "insert" => free
           /\ seed.step \in {"recreate", "index"} => seed.doc = row /\ row # Missing
      ELSE Blamed

IndexInv == WritesOK /\ CallsExcused /\ SeedExcused /\ DivergenceIsExcused
-----------------------------------------------------------------------------
(* The writes *)

LEMMA MarkedIs ==
    /\ \A c \in Calls : Marked(c) \in Calls /\ Marked(c).doc = c.doc
                        /\ (Marked(c) # Idle => c # Idle /\ Marked(c).alone = FALSE)
                        /\ (Marked(c) = Idle => c = Idle)
    /\ \A c \in Seeds : Marked(c) \in Seeds /\ Marked(c).doc = c.doc /\ Marked(c).step = c.step
                        /\ (Marked(c) # Idle => c # Idle /\ Marked(c).alone = FALSE)
                        /\ (Marked(c) = Idle => c = Idle)
BY DEF Marked, Calls, Seeds, Idle

LEMMA IdleIs == Idle \in Calls /\ Idle \in Seeds /\ Idle.doc = 0 /\ Idle.step = "idle"
BY DEF Idle, Calls, Seeds, Missing

\* What a write of a seller does before anything is sent to the index.
LEMMA ChangeIs ==
    ASSUME IndexInv, Change
    PROVE  /\ writes' = writes + 1 /\ writes \in Nat /\ free' \in BOOLEAN
           /\ row' \in {writes + 1, Missing} /\ row' \in 0..writes' /\ row' \in Nat
           /\ seed' = Marked(seed) /\ seed' \in Seeds /\ seed'.doc <= writes'
           /\ seed'.step = "idle" => seed' = SeedIdle
           /\ seed' # SeedIdle => seed # SeedIdle /\ ~seed'.alone
           /\ AllMarked \in [Sellers -> Calls]
           /\ \A s \in Sellers : AllMarked[s].doc <= writes'
           /\ \A s \in Sellers : AllMarked[s] # Idle => Busy(s) /\ ~AllMarked[s].alone
<1>1. /\ writes \in Nat /\ row \in 0..writes /\ seed \in Seeds /\ seed.doc <= writes
      /\ call \in [Sellers -> Calls] /\ \A s \in Sellers : call[s].doc <= writes
      /\ seed.step = "idle" => seed = SeedIdle
      /\ free \in BOOLEAN
  BY DEF IndexInv, WritesOK
<1>2. /\ writes' = writes + 1 /\ row' \in {writes + 1, Missing} /\ free' \in BOOLEAN
      /\ seed' = Marked(seed)
  BY <1>1 DEF Change
<1>3. row' \in 0..writes' /\ row' \in Nat
  BY <1>1, <1>2 DEF Missing
<1>4. /\ seed' \in Seeds /\ seed'.doc <= writes' /\ (seed'.step = "idle" => seed' = SeedIdle)
      /\ seed' # SeedIdle => seed # SeedIdle /\ ~seed'.alone
  <2>1. seed'.doc = seed.doc /\ seed'.step = seed.step /\ seed' \in Seeds
    BY <1>1, <1>2, MarkedIs
  <2>2. seed.doc \in Nat
    BY <1>1 DEF Seeds
  <2>3. seed'.doc <= writes'
    BY <1>1, <1>2, <2>1, <2>2
  <2>4. seed = SeedIdle => seed' = SeedIdle
    BY <1>2 DEF Marked, SeedIdle
  <2>5. seed' # SeedIdle => seed # SeedIdle /\ ~seed'.alone
    BY <1>1, <1>2, MarkedIs DEF SeedIdle
  <2> QED BY <1>1, <2>1, <2>3, <2>4, <2>5
<1>5. AllMarked \in [Sellers -> Calls]
  BY <1>1, MarkedIs DEF AllMarked
<1>6. ASSUME NEW s \in Sellers PROVE AllMarked[s].doc <= writes'
  <2>1. AllMarked[s].doc = call[s].doc /\ call[s].doc \in Nat
    BY <1>1, MarkedIs DEF AllMarked, Calls
  <2> QED BY <1>1, <1>2, <2>1
<1>7. \A s \in Sellers : AllMarked[s] # Idle => Busy(s) /\ ~AllMarked[s].alone
  BY <1>1, MarkedIs DEF AllMarked, Busy
<1> QED BY <1>1, <1>2, <1>3, <1>4, <1>5, <1>6, <1>7

LEMMA CommitStep == ASSUME IndexInv, NEW s \in Sellers, Commit(s) PROVE IndexInv'
<1> DEFINE c == [step |-> "sent", doc |-> row', alone |-> ~Others(s)]
<1>1. /\ Change /\ call' = [AllMarked EXCEPT ![s] = c]
      /\ raced' = (raced \/ Others(s)) /\ UNCHANGED <<doc, late, failed>>
  BY DEF Commit
<1>2. c \in Calls /\ c # Idle /\ c.doc = row' /\ c.alone = ~Others(s)
  BY <1>1, ChangeIs DEF Calls, Idle, Others
<1>3. \A t \in Sellers : call'[t] = IF t = s THEN c ELSE AllMarked[t]
  BY <1>1, ChangeIs
<1>4. WritesOK'
  <2>1. call' \in [Sellers -> Calls] /\ \A t \in Sellers : call'[t].doc <= writes'
    BY <1>1, <1>2, <1>3, ChangeIs
  <2>2. doc' \in 0..writes' /\ late' \subseteq 0..writes'
    BY <1>1, ChangeIs DEF IndexInv, WritesOK
  <2> QED BY <1>1, <2>1, <2>2, ChangeIs DEF IndexInv, WritesOK, Others
<1>5. CallsExcused'
  <2>1. late' # {} => failed'
    BY <1>1 DEF IndexInv, CallsExcused
  <2>2. ASSUME NEW t \in Sellers, call'[t] # Idle, call'[t].alone
        PROVE  call'[t].doc = row' /\ seed' = SeedIdle /\ \A v \in Sellers \ {t} : call'[v] = Idle
    <3>1. t = s /\ ~Others(s)
      BY <1>1, <1>2, <1>3, <2>2, ChangeIs
    <3>2. seed = SeedIdle /\ \A v \in Sellers \ {s} : ~Busy(v)
      BY <3>1 DEF Others
    <3> QED BY <1>1, <1>2, <1>3, <3>1, <3>2, ChangeIs
  <2>3. ASSUME NEW t \in Sellers, call'[t] # Idle, ~call'[t].alone PROVE Blamed'
    <3>1. Others(s)
      BY <1>1, <1>2, <1>3, <2>3, ChangeIs DEF Others
    <3> QED BY <1>1, <3>1 DEF Blamed
  <2> QED BY <2>1, <2>2, <2>3 DEF CallsExcused, Busy
<1>6. SeedExcused'
  <2>1. ASSUME seed' # SeedIdle PROVE ~seed'.alone /\ Blamed'
    BY <1>1, <2>1, ChangeIs DEF Others, Blamed
  <2> QED BY <2>1 DEF SeedExcused, SeedIdle, Idle
<1>7. DivergenceIsExcused'
  BY <1>2, <1>3 DEF DivergenceIsExcused, Quiet, Busy
<1> QED BY <1>4, <1>5, <1>6, <1>7 DEF IndexInv

LEMMA CommitOnlyStep == ASSUME IndexInv, NEW s \in Sellers, CommitOnly(s) PROVE IndexInv'
<1>1. Change /\ call' = AllMarked /\ failed' = TRUE /\ UNCHANGED <<doc, late, raced>>
  BY DEF CommitOnly
<1>2. WritesOK'
  <2>1. doc' \in 0..writes' /\ late' \subseteq 0..writes'
    BY <1>1, ChangeIs DEF IndexInv, WritesOK
  <2> QED BY <1>1, <2>1, ChangeIs DEF IndexInv, WritesOK
<1>3. CallsExcused'
  BY <1>1, ChangeIs DEF CallsExcused, Busy, Blamed
<1>4. SeedExcused'
  BY <1>1, ChangeIs DEF SeedExcused, SeedIdle, Blamed
<1>5. DivergenceIsExcused'
  BY <1>1 DEF DivergenceIsExcused
<1> QED BY <1>2, <1>3, <1>4, <1>5 DEF IndexInv

-----------------------------------------------------------------------------
(* What reaches the index *)

\* A document that reaches the index and a call that ends, without anything else.
LEMMA Landed ==
    ASSUME IndexInv, UNCHANGED <<row, free, writes, late>>, doc' \in 0..writes,
           failed' \in BOOLEAN, raced' \in BOOLEAN,
           \/ UNCHANGED call
           \/ \E s \in Sellers : call' = [call EXCEPT ![s] = Idle],
           seed' = seed \/ seed' = SeedIdle
    PROVE  WritesOK' /\ \A t \in Sellers : call'[t] = call[t] \/ call'[t] = Idle
<1>1. call' \in [Sellers -> Calls] /\ \A t \in Sellers : call'[t] = call[t] \/ call'[t] = Idle
  BY IdleIs DEF IndexInv, WritesOK
<1>2. \A t \in Sellers : call'[t].doc <= writes
  BY <1>1, IdleIs DEF IndexInv, WritesOK
<1>3. seed' \in Seeds /\ seed'.doc <= writes /\ (seed'.step = "idle" => seed' = SeedIdle)
  BY IdleIs DEF IndexInv, WritesOK, SeedIdle
<1>4. WritesOK'
  BY <1>1, <1>2, <1>3 DEF IndexInv, WritesOK, SeedIdle
<1> QED BY <1>1, <1>4

LEMMA SyncedStep == ASSUME IndexInv, NEW s \in Sellers, Synced(s) PROVE IndexInv'
<1>1. /\ Busy(s) /\ doc' = call[s].doc /\ call' = [call EXCEPT ![s] = Idle]
      /\ UNCHANGED <<row, free, writes, seed, late>>
      /\ Settle(call[s].alone)
  BY DEF Synced, Effect, Return
<1>2. failed' \in BOOLEAN /\ raced' \in BOOLEAN /\ doc' \in 0..writes
  <2>1. failed' \in BOOLEAN /\ raced' \in BOOLEAN
    BY <1>1 DEF IndexInv, WritesOK, Settle
  <2>2. writes \in Nat /\ call[s].doc \in Nat /\ call[s].doc <= writes
    BY DEF IndexInv, WritesOK, Calls
  <2>3. call[s].doc \in 0..writes
    BY <2>2
  <2> QED BY <1>1, <2>1, <2>3
<1>3. WritesOK' /\ \A t \in Sellers : call'[t] = call[t] \/ call'[t] = Idle
  BY <1>1, <1>2, Landed
<1>4. call'[s] = Idle
  BY <1>1 DEF IndexInv, WritesOK
<1>5. CASE call[s].alone
  <2>1. doc' = row /\ seed' = SeedIdle /\ \A t \in Sellers : call'[t] = Idle
    BY <1>1, <1>3, <1>4, <1>5 DEF IndexInv, CallsExcused, Busy
  <2>2. late' # {} => failed'
    BY <1>1, <1>5 DEF IndexInv, CallsExcused, Settle
  <2> QED BY <1>1, <1>3, <2>1, <2>2
       DEF IndexInv, CallsExcused, SeedExcused, DivergenceIsExcused, Busy, SeedIdle
<1>6. CASE ~call[s].alone
  <2>1. failed' = failed /\ raced' = raced /\ Blamed
    BY <1>1, <1>6 DEF IndexInv, CallsExcused, Settle
  <2>2. CallsExcused'
    <3>1. \A t \in Sellers : Busy(t) => ~call[t].alone
      BY <1>1, <1>6 DEF IndexInv, CallsExcused
    <3> QED BY <1>1, <1>3, <2>1, <3>1 DEF IndexInv, CallsExcused, Busy, Blamed
  <2>3. SeedExcused'
    <3>1. seed # SeedIdle => ~seed.alone
      BY <1>1 DEF IndexInv, SeedExcused
    <3> QED BY <1>1, <2>1, <3>1 DEF SeedExcused, SeedIdle, Blamed
  <2> QED BY <1>3, <2>1, <2>2, <2>3 DEF IndexInv, DivergenceIsExcused, Blamed
<1> QED BY <1>5, <1>6

LEMMA NotSyncedStep == ASSUME IndexInv, NEW s \in Sellers, NotSynced(s) PROVE IndexInv'
<1>1. /\ Busy(s) /\ late' \in {late, late \cup {call[s].doc}}
      /\ call' = [call EXCEPT ![s] = Idle] /\ failed' = TRUE
      /\ UNCHANGED <<row, free, doc, writes, seed, raced>>
  BY DEF NotSynced, Return
<1>2. call' \in [Sellers -> Calls] /\ \A t \in Sellers : call'[t] = call[t] \/ call'[t] = Idle
  BY <1>1, IdleIs DEF IndexInv, WritesOK
<1>3. WritesOK'
  <2>1. \A t \in Sellers : call'[t].doc <= writes
    BY <1>2, IdleIs DEF IndexInv, WritesOK
  <2>2. call[s].doc \in 0..writes
    BY DEF IndexInv, WritesOK, Calls
  <2> QED BY <1>1, <1>2, <2>1, <2>2 DEF IndexInv, WritesOK, SeedIdle
<1>4. CallsExcused'
  BY <1>1, <1>2 DEF IndexInv, CallsExcused, Busy, Blamed, SeedIdle
<1>5. SeedExcused'
  <2>1. seed # SeedIdle => ~seed.alone
    BY <1>1 DEF IndexInv, SeedExcused
  <2> QED BY <1>1, <2>1 DEF SeedExcused, SeedIdle, Blamed
<1> QED BY <1>1, <1>3, <1>4, <1>5 DEF IndexInv, DivergenceIsExcused

LEMMA LateStep == ASSUME IndexInv, LateEffect PROVE IndexInv'
<1>1. PICK d \in late : doc' = d /\ late' = late \ {d}
  BY DEF LateEffect, Effect
<1>2. failed /\ UNCHANGED <<row, free, writes, call, seed, failed, raced>>
  BY DEF LateEffect, IndexInv, CallsExcused
<1>3. WritesOK'
  BY <1>1, <1>2 DEF IndexInv, WritesOK, SeedIdle
<1> QED BY <1>2, <1>3
    DEF IndexInv, CallsExcused, SeedExcused, DivergenceIsExcused, Busy, SeedIdle, Blamed
-----------------------------------------------------------------------------
(* The seed program *)

LEMMA TruncateStep == ASSUME IndexInv, Truncate PROVE IndexInv'
<1> DEFINE met == \E s \in Sellers : Busy(s)
<1>1. /\ row' = Missing /\ free' = TRUE /\ call' = AllMarked
      /\ seed' = [step |-> "insert", doc |-> Missing, alone |-> ~met]
      /\ raced' = (raced \/ met) /\ UNCHANGED <<doc, writes, late, failed>>
  BY DEF Truncate
<1>2. /\ call \in [Sellers -> Calls] /\ writes \in Nat
      /\ \A s \in Sellers : call[s].doc <= writes
  BY DEF IndexInv, WritesOK
<1>3. /\ call' \in [Sellers -> Calls] /\ \A s \in Sellers : call'[s].doc <= writes
      /\ \A s \in Sellers : call'[s] # Idle => Busy(s) /\ ~call'[s].alone
  <2>1. \A s \in Sellers : call'[s] = Marked(call[s])
    BY <1>1 DEF AllMarked
  <2> QED BY <1>1, <1>2, <2>1, MarkedIs DEF AllMarked, Busy
<1>4. seed' \in Seeds /\ seed'.doc <= writes /\ seed' # SeedIdle
      /\ seed'.step = "insert" /\ seed'.alone = ~met
  BY <1>1, <1>2 DEF Seeds, Missing, SeedIdle, Idle
<1>5. WritesOK'
  BY <1>1, <1>2, <1>3, <1>4 DEF IndexInv, WritesOK, Missing, SeedIdle
<1>6. CallsExcused'
  BY <1>1, <1>3 DEF IndexInv, CallsExcused, Busy, Blamed, SeedIdle
<1>7. SeedExcused'
  BY <1>1, <1>3, <1>4 DEF SeedExcused, Busy, Blamed, SeedIdle
<1>8. DivergenceIsExcused'
  BY <1>4 DEF DivergenceIsExcused, Quiet, SeedIdle
<1> QED BY <1>5, <1>6, <1>7, <1>8 DEF IndexInv

\* The seed goes on; nobody else moves.
LEMMA SeedGoesOn ==
    ASSUME IndexInv, seed # SeedIdle, seed' # SeedIdle, seed'.alone = seed.alone, WritesOK',
           UNCHANGED <<call, late, failed, raced>>,
           seed.alone => /\ seed'.step \in {"recreate", "index"}
                         /\ seed'.doc = row' /\ row' # Missing
    PROVE  IndexInv'
<1>1. CallsExcused'
  BY DEF IndexInv, CallsExcused, Busy, Blamed
<1>2. SeedExcused'
  BY DEF IndexInv, SeedExcused, Busy, Blamed, SeedIdle
<1>3. DivergenceIsExcused'
  BY DEF DivergenceIsExcused, Quiet, SeedIdle
<1> QED BY <1>1, <1>2, <1>3 DEF IndexInv

LEMMA InsertStep == ASSUME IndexInv, InsertProducts PROVE IndexInv'
<1>1. /\ seed.step = "insert" /\ free' = FALSE /\ UNCHANGED <<doc, call, late, failed, raced>>
      /\ writes \in Nat /\ seed \in Seeds /\ seed # SeedIdle /\ seed.doc \in Nat /\ seed.doc <= writes
  BY IdleIs DEF InsertProducts, IndexInv, WritesOK, SeedIdle, Seeds
<1>2. CASE free
  <2>1. /\ writes' = writes + 1 /\ row' = writes + 1
        /\ seed' = [seed EXCEPT !.step = "recreate", !.doc = writes + 1]
    BY <1>2 DEF InsertProducts
  <2>2. /\ seed' \in Seeds /\ seed'.step = "recreate" /\ seed'.doc = writes + 1
        /\ seed'.alone = seed.alone /\ seed' # SeedIdle
    <3>1. writes + 1 \in Nat
      BY <1>1
    <3>2. /\ seed' \in Seeds /\ seed'.step = "recreate" /\ seed'.doc = writes + 1
          /\ seed'.alone = seed.alone
      BY <1>1, <2>1, <3>1 DEF Seeds
    <3> QED BY <3>2, IdleIs DEF SeedIdle
  <2>3. WritesOK'
    <3>1. /\ doc' \in 0..writes' /\ late' \subseteq 0..writes'
          /\ \A s \in Sellers : call'[s].doc <= writes'
      BY <1>1, <2>1 DEF IndexInv, WritesOK, Calls
    <3>2. writes' \in Nat /\ row' \in 0..writes' /\ seed'.doc <= writes'
      BY <1>1, <2>1, <2>2
    <3>3. call' \in [Sellers -> Calls] /\ failed' \in BOOLEAN /\ raced' \in BOOLEAN
      BY <1>1 DEF IndexInv, WritesOK
    <3>4. seed'.step # "idle"
      BY <2>2
    <3> QED BY <1>1, <2>2, <3>1, <3>2, <3>3, <3>4 DEF WritesOK
  <2>4. row' # Missing
    BY <1>1, <2>1 DEF Missing
  <2> QED BY <1>1, <2>1, <2>2, <2>3, <2>4, SeedGoesOn
<1>3. CASE ~free
  <2>1. seed' = [seed EXCEPT !.step = "recreate"] /\ UNCHANGED <<row, writes>>
    BY <1>3 DEF InsertProducts, SeedTo
  <2>2. /\ seed' \in Seeds /\ seed'.step = "recreate" /\ seed'.doc = seed.doc
        /\ seed'.alone = seed.alone /\ seed' # SeedIdle
    BY <1>1, <2>1, IdleIs DEF Seeds, SeedIdle
  <2>3. WritesOK'
    BY <1>1, <2>1, <2>2 DEF IndexInv, WritesOK, SeedIdle
  <2>4. ~seed.alone
    BY <1>1, <1>3 DEF IndexInv, SeedExcused
  <2> QED BY <1>1, <2>1, <2>2, <2>3, <2>4, SeedGoesOn
<1> QED BY <1>2, <1>3

LEMMA RecreateStep == ASSUME IndexInv, Recreate PROVE IndexInv'
<1>1. /\ seed.step = "recreate" /\ doc' = Missing /\ seed' = [seed EXCEPT !.step = "index"]
      /\ UNCHANGED <<row, free, writes, call, late, failed, raced>>
  BY DEF Recreate, SeedTo
<1>2. seed \in Seeds /\ seed # SeedIdle
  BY <1>1, IdleIs DEF IndexInv, WritesOK, SeedIdle
<1>3. /\ seed' \in Seeds /\ seed'.step = "index" /\ seed'.doc = seed.doc
      /\ seed'.alone = seed.alone /\ seed' # SeedIdle
  BY <1>1, <1>2, IdleIs DEF Seeds, SeedIdle
<1>4. WritesOK'
  BY <1>1, <1>3 DEF IndexInv, WritesOK, Missing, SeedIdle
<1>5. seed.alone => seed'.doc = row' /\ row' # Missing
  BY <1>1, <1>2, <1>3 DEF IndexInv, SeedExcused
<1> QED BY <1>1, <1>2, <1>3, <1>4, <1>5, SeedGoesOn

LEMMA SeedEnds == ASSUME IndexInv, IndexProduct \/ SeedFails PROVE IndexInv'
<1>1. seed' = SeedIdle /\ UNCHANGED <<row, free, writes, call, late>>
  BY DEF IndexProduct, SeedFails
<1>2. CASE SeedFails
  <2>1. failed' = TRUE /\ UNCHANGED <<doc, raced>> /\ doc' \in 0..writes /\ raced' \in BOOLEAN
    BY <1>2 DEF SeedFails, IndexInv, WritesOK
  <2>2. WritesOK'
    BY <1>1, <2>1, Landed
  <2>3. CallsExcused'
    BY <1>1, <2>1 DEF IndexInv, CallsExcused, Busy, Blamed, SeedIdle
  <2> QED BY <1>1, <2>1, <2>2, <2>3 DEF IndexInv, SeedExcused, DivergenceIsExcused, SeedIdle
<1>3. CASE IndexProduct
  <2>1. /\ seed.step = "index" /\ seed # SeedIdle /\ Settle(seed.alone)
        /\ doc' = IF seed.doc = Missing THEN doc ELSE seed.doc
    BY <1>3, IdleIs DEF IndexProduct, Effect, SeedIdle
  <2>2. failed' \in BOOLEAN /\ raced' \in BOOLEAN /\ doc' \in 0..writes
    <3>1. failed' \in BOOLEAN /\ raced' \in BOOLEAN
      BY <2>1 DEF IndexInv, WritesOK, Settle
    <3>2. writes \in Nat /\ doc \in 0..writes /\ seed.doc \in Nat /\ seed.doc <= writes
      BY DEF IndexInv, WritesOK, Seeds
    <3>3. seed.doc \in 0..writes
      BY <3>2
    <3> QED BY <2>1, <3>1, <3>2, <3>3
  <2>3. WritesOK'
    BY <1>1, <2>2, Landed
  <2>4. CASE seed.alone
    <3>1. doc' = row /\ \A s \in Sellers : ~Busy(s)
      BY <2>1, <2>4 DEF IndexInv, SeedExcused
    <3>2. late' # {} => failed'
      BY <1>1, <2>1, <2>4 DEF IndexInv, CallsExcused, Settle
    <3> QED BY <1>1, <2>3, <3>1, <3>2
         DEF IndexInv, CallsExcused, SeedExcused, DivergenceIsExcused, Busy, SeedIdle
  <2>5. CASE ~seed.alone
    <3>1. failed' = failed /\ raced' = raced /\ Blamed
      BY <2>1, <2>5 DEF IndexInv, SeedExcused, Settle
    <3>2. CallsExcused'
      BY <1>1, <2>1, <3>1 DEF IndexInv, CallsExcused, Busy, Blamed
    <3> QED BY <1>1, <2>3, <3>1, <3>2 DEF IndexInv, SeedExcused, DivergenceIsExcused, Blamed, SeedIdle
  <2> QED BY <2>4, <2>5
<1> QED BY <1>2, <1>3

LEMMA IndexInitially == IndexInit => IndexInv
<1> SUFFICES ASSUME IndexInit PROVE IndexInv
  OBVIOUS
<1>1. WritesOK
  <2>1. writes \in Nat /\ row \in 0..writes /\ doc \in 0..writes /\ late \subseteq 0..writes
    BY DEF IndexInit, Missing
  <2>2. call \in [Sellers -> Calls] /\ \A s \in Sellers : call[s].doc <= writes
    BY <2>1, IdleIs DEF IndexInit
  <2>3. seed \in Seeds /\ seed.doc <= writes
    BY <2>1, IdleIs DEF IndexInit, SeedIdle
  <2> QED BY <2>1, <2>2, <2>3 DEF IndexInit, WritesOK, SeedIdle
<1> QED BY <1>1
    DEF IndexInit, IndexInv, CallsExcused, SeedExcused, DivergenceIsExcused, Busy, SeedIdle, Missing

LEMMA IndexStep == IndexInv /\ [IndexNext]_vars => IndexInv'
<1> SUFFICES ASSUME IndexInv, [IndexNext]_vars PROVE IndexInv'
  OBVIOUS
<1>1. CASE UNCHANGED writing
  BY <1>1 DEF writing, IndexInv, WritesOK, CallsExcused, SeedExcused, DivergenceIsExcused,
     Quiet, Busy, Blamed, SeedIdle
<1> QED BY <1>1, CommitStep, CommitOnlyStep, SyncedStep, NotSyncedStep, LateStep, TruncateStep,
    InsertStep, RecreateStep, SeedEnds
    DEF IndexNext, SeedNext, CommitUnnoticed, CommitUnsearched, vars

LEMMA IndexHolds == IndexSpec => []IndexInv
BY IndexInitially, IndexStep, PTL DEF IndexSpec

\* For any number of replicas and sellers the index differs from the table in a quiet
\* state only after a request was left out or writes overlapped, whatever the seed
\* program does in between (search_repository.go, searchRepository.Update).
THEOREM IndexDiffersWithCause == IndexSpec => []DivergenceIsExcused
<1>1. IndexInv => DivergenceIsExcused
  BY DEF IndexInv
<1> QED BY <1>1, IndexHolds, PTL

-----------------------------------------------------------------------------
(* Searches *)

\* What is remembered of the truth is still true, and a search that has found the id
\* in the index knows whether the row is there.
Remembered(q) ==
    search[q].step # "done" =>
      /\ search[q].truth \in {"unsettled", Truth(search[q].step, row, doc)}
      /\ search[q].step = "rows" /\ search[q].truth = "no" => row = Missing

Honest(q) ==
    search[q].step = "done" /\ search[q].answer \in {"yes", "no"}
      /\ search[q].truth # "unsettled" => search[q].answer = search[q].truth

SearchInv == search \in [Shoppers -> Searches] /\ \A q \in Shoppers : Remembered(q) /\ Honest(q)

\* No step changes the row and the document together, and a new row has no document.
LEMMA RowOrDoc ==
    ASSUME IndexInv, [IndexNext]_vars
    PROVE  row' = row \/ row' = Missing \/ row' # doc'
<1>1. writes \in Nat /\ doc \in 0..writes
  BY DEF IndexInv, WritesOK
<1>2. CASE doc' = doc /\ row' \in {row, Missing, writes + 1}
  BY <1>1, <1>2
<1>3. CASE row' = row
  BY <1>3
<1>4. ASSUME NEW s \in Sellers, Commit(s) \/ CommitOnly(s)
      PROVE  doc' = doc /\ row' \in {Missing, writes + 1}
  BY <1>4 DEF Commit, CommitOnly, Change
<1>5. CASE Truncate \/ InsertProducts
  BY <1>2, <1>5 DEF Truncate, InsertProducts
<1>6. CASE UNCHANGED writing
  BY <1>3, <1>6 DEF writing
<1>7. ASSUME NEW s \in Sellers, Synced(s) \/ NotSynced(s) PROVE row' = row
  BY <1>7 DEF Synced, NotSynced
<1>8. CASE LateEffect \/ Recreate \/ IndexProduct \/ SeedFails
  BY <1>3, <1>8 DEF LateEffect, Recreate, IndexProduct, SeedFails
<1> QED BY <1>2, <1>3, <1>4, <1>5, <1>6, <1>7, <1>8
    DEF IndexNext, SeedNext, CommitUnnoticed, CommitUnsearched, vars

\* A write under a search that is going on.
LEMMA WatchedStep ==
    ASSUME IndexInv, SearchInv, Watched, row' = row \/ row' = Missing \/ row' # doc'
    PROVE  SearchInv'
<1>1. search \in [Shoppers -> Searches]
  BY DEF SearchInv
<1>2. ASSUME NEW q \in Shoppers
      PROVE  /\ search'[q] \in Searches
             /\ search'[q].step = search[q].step /\ search'[q].answer = search[q].answer
             /\ search[q].step = "done" => search'[q] = search[q]
             /\ search[q].step # "done" =>
                  \/ search'[q].truth = "unsettled"
                  \/ /\ search'[q].truth = search[q].truth
                     /\ search[q].truth = Truth(search[q].step, row', doc')
  <2>1. search[q] \in Searches
    BY <1>1
  <2>2. CASE search[q].step = "done" \/ search[q].truth = Truth(search[q].step, row', doc')
    <3>1. search'[q] = search[q]
      BY <2>2 DEF Watched
    <3> QED BY <2>1, <2>2, <3>1
  <2>3. CASE ~(search[q].step = "done" \/ search[q].truth = Truth(search[q].step, row', doc'))
    <3>1. search'[q] = [search[q] EXCEPT !.truth = "unsettled"]
      BY <2>3 DEF Watched
    <3> QED BY <2>1, <2>3, <3>1 DEF Searches
  <2> QED BY <2>2, <2>3
<1>3. search' \in [Shoppers -> Searches]
  BY <1>2 DEF Watched
<1>4. ASSUME NEW q \in Shoppers PROVE Remembered(q)'
  <2>1. search[q].step # "done" =>
          search'[q].truth \in {"unsettled", Truth(search'[q].step, row', doc')}
    BY <1>2
  <2>2. ASSUME search[q].step = "rows", search'[q].truth = "no", row' # Missing PROVE FALSE
    <3>1. search[q].truth = "no" /\ Truth("rows", row', doc') = "no"
      BY <1>2, <2>2
    <3>2. row = Missing
      BY <2>2, <3>1 DEF SearchInv, Remembered
    <3>3. doc' = row'
      BY <2>2, <3>1 DEF Truth
    <3> QED BY <2>2, <3>2, <3>3
  <2> QED BY <1>2, <2>1, <2>2 DEF Remembered
<1>5. ASSUME NEW q \in Shoppers PROVE Honest(q)'
  BY <1>2 DEF SearchInv, Honest
<1> QED BY <1>3, <1>4, <1>5 DEF SearchInv

\* A step of a search itself.
LEMMA AskedStep ==
    ASSUME SearchInv, NEW q \in Shoppers, SearchNext(q), UNCHANGED <<row, doc>>
    PROVE  SearchInv'
<1>1. search \in [Shoppers -> Searches]
  BY DEF SearchInv
<1>2. ASSUME NEW v \in Searches, search' = [search EXCEPT ![q] = v],
             v.step # "done" => /\ v.truth \in {"unsettled", Truth(v.step, row, doc)}
                                /\ v.step = "rows" /\ v.truth = "no" => row = Missing,
             v.step = "done" /\ v.answer \in {"yes", "no"} /\ v.truth # "unsettled"
               => v.answer = v.truth
      PROVE  SearchInv'
  <2>1. search' \in [Shoppers -> Searches] /\ search'[q] = v
        /\ \A p \in Shoppers : p # q => search'[p] = search[p]
    BY <1>1, <1>2
  <2>2. ASSUME NEW p \in Shoppers PROVE Remembered(p)' /\ Honest(p)'
    <3>1. CASE p = q
      BY <1>2, <2>1, <3>1 DEF Remembered, Honest
    <3>2. CASE p # q
      BY <2>1, <3>2 DEF SearchInv, Remembered, Honest
    <3> QED BY <3>1, <3>2
  <2> QED BY <2>1, <2>2 DEF SearchInv
<1> DEFINE truth == search[q].truth
           Next(s) == [search[q] EXCEPT !.step = s]
           Said(a) == [search[q] EXCEPT !.step = "done", !.answer = a]
<1>3. \A s \in {"recall", "rows", "like"} :
        Next(s) \in Searches /\ Next(s).step = s /\ Next(s).truth = truth
  BY <1>1 DEF Searches
<1>4. \A a \in {"yes", "no", "error"} :
        /\ Said(a) \in Searches /\ Said(a).step = "done"
        /\ Said(a).answer = a /\ Said(a).truth = truth
  BY <1>1 DEF Searches
<1>5. search[q].step # "done" =>
        /\ truth \in {"unsettled", Truth(search[q].step, row, doc)}
        /\ search[q].step = "rows" /\ truth = "no" => row = Missing
  BY DEF SearchInv, Remembered
<1>6. CASE Ask(q)
  <2>1. PICK s \in {"recall", "like"} :
          search' = [search EXCEPT ![q] =
                       [step |-> s, answer |-> "none", truth |-> Truth(s, row, doc)]]
    BY <1>6 DEF Ask
  <2>2. Truth(s, row, doc) \in {"unsettled", "yes", "no"}
    BY DEF Truth
  <2>3. [step |-> s, answer |-> "none", truth |-> Truth(s, row, doc)] \in Searches
    BY <2>2 DEF Searches
  <2> QED BY <1>2, <2>1, <2>3
<1>7. CASE Recall(q)
  <2>1. search[q].step = "recall"
    BY <1>7 DEF Recall
  <2>2. CASE doc # Missing /\ Matches(doc)
    <3>1. search' = [search EXCEPT ![q] = Next("rows")]
      BY <1>7, <2>2 DEF Recall, To
    <3>2. truth \in {"unsettled", Truth("rows", row, doc)}
      BY <1>5, <2>1 DEF Truth
    <3>3. truth = "no" => row = Missing
      BY <2>2, <3>2 DEF Truth
    <3> QED BY <1>2, <1>3, <3>1, <3>2, <3>3
  <2>3. CASE ~(doc # Missing /\ Matches(doc))
    <3>1. search' = [search EXCEPT ![q] = Said("no")]
      BY <1>7, <2>3 DEF Recall, Say
    <3>2. truth # "unsettled" => truth = "no"
      BY <1>5, <2>1, <2>3 DEF Truth
    <3> QED BY <1>2, <1>4, <3>1, <3>2
  <2> QED BY <2>2, <2>3
<1>8. CASE RecallFails(q)
  <2>1. search[q].step = "recall" /\ search' = [search EXCEPT ![q] = Next("like")]
    BY <1>8 DEF RecallFails, To
  <2>2. truth \in {"unsettled", Truth("like", row, doc)}
    BY <1>5, <2>1 DEF Truth
  <2> QED BY <1>2, <1>3, <2>1, <2>2
<1>9. CASE ReadRows(q)
  <2>1. /\ search[q].step = "rows"
        /\ search' = [search EXCEPT ![q] = Said(IF row = Missing THEN "no" ELSE "yes")]
    BY <1>9 DEF ReadRows, Say
  <2>2. truth # "unsettled" => truth = IF row = Missing THEN "no" ELSE "yes"
    BY <1>5, <2>1 DEF Truth
  <2> QED BY <1>2, <1>4, <2>1, <2>2
<1>10. CASE Like(q)
  <2>1. /\ search[q].step = "like"
        /\ search' = [search EXCEPT ![q] =
                        Said(IF row # Missing /\ Matches(row) THEN "yes" ELSE "no")]
    BY <1>10 DEF Like, Say
  <2>2. truth # "unsettled" => truth = IF row # Missing /\ Matches(row) THEN "yes" ELSE "no"
    BY <1>5, <2>1 DEF Truth
  <2> QED BY <1>2, <1>4, <2>1, <2>2
<1>11. CASE SearchFails(q)
  <2>1. search' = [search EXCEPT ![q] = Said("error")]
    BY <1>11 DEF SearchFails, Say
  <2> QED BY <1>2, <1>4, <2>1
<1> QED BY <1>6, <1>7, <1>8, <1>9, <1>10, <1>11 DEF SearchNext

LEMMA SearchStep == IndexInv /\ SearchInv /\ [IndexNext]_vars => SearchInv'
<1> SUFFICES ASSUME IndexInv, SearchInv, [IndexNext]_vars PROVE SearchInv'
  OBVIOUS
<1>1. CASE UNCHANGED <<row, doc, search>>
  BY <1>1 DEF SearchInv, Remembered, Honest
<1>2. CASE Watched
  BY <1>2, RowOrDoc, WatchedStep
<1>3. CASE \E q \in Shoppers : SearchNext(q) /\ UNCHANGED <<row, doc>>
  BY <1>3, AskedStep
<1> QED BY <1>1, <1>2, <1>3 DEF IndexNext, Restart, writing, vars

\* For any number of replicas, sellers and shoppers a search says what was true while
\* it ran, as long as that did not change: it never shows a product that was deleted
\* before it began (search_repository.go, searchRepository.SearchByKeyword).
THEOREM SearchesTellTheTruth == IndexSpec => []SearchesAreHonest
<1>1. IndexInit => SearchInv
  BY DEF IndexInit, SearchInv, NoSearch, Searches, Remembered, Honest
<1>2. SearchInv => SearchesAreHonest
  BY DEF SearchInv, Honest, SearchesAreHonest
<1> QED BY <1>1, <1>2, SearchStep, IndexHolds, PTL DEF IndexSpec
=============================================================================
