------------------------------- MODULE LLMCache -------------------------------
(***************************************************************************)
(* CachedLLMClient.complete_json over the LLMCache table: a lookup, the    *)
(* provider's answer after a miss, and the put that stores it.             *)
(*                                                                         *)
(* Lookup and put are synchronous transactions of one process, so each is  *)
(* a step; analyses that miss the same key may both ask the provider.      *)
(* created_at and expires_at are half-days; of last_accessed_at remains     *)
(* which of two rows was used later, since two accesses never read the same *)
(* microsecond from the clock.  PostgreSQL returns expires_at in the zone   *)
(* of its session, and get takes that time of day for one of UTC; the WHERE *)
(* clause of put compares instants.  SQLite stores UTC.                     *)
(***************************************************************************)
EXTENDS Integers, FiniteSets

CONSTANTS
    Callers,    \* the analyses that are running
    Keys,       \* the cache keys of the questions they ask
    None,       \* no question, no answer
    MaxRows,    \* Settings.llm_cache_max_rows
    Retention,  \* Settings.llm_cache_retention_days, in half-days
    Zones,      \* how far the zone of a database session may be ahead of UTC; 0 on SQLite
    LastTime    \* bound on the clock

\* What the code computes with of a row; "sound": the pipeline accepts the answer, of which
\* the client checks the schema only.
Entries == [created : Int, expires : Int, sound : BOOLEAN]

ASSUME LLMCacheAssumption ==
    /\ None \notin Keys \cup Entries
    /\ MaxRows \in Nat \ {0}
    /\ Retention \in Nat \ {0}
    /\ Zones \subseteq Int
    /\ LastTime \in Nat

VARIABLES
    zone,     \* the zone of the database sessions
    table,    \* the row of each key, None without one
    order,    \* the pairs of rows of which the first was used later than the second
    now,
    asking,   \* the key each caller has missed and asks the provider for
    received  \* the last answer of each caller

vars == <<zone, table, order, now, asking, received>>

Row(sound) == [created |-> now, expires |-> now + Retention, sound |-> sound]

Rows == {k \in Keys : table[k] # None}

\* The rows put leaves: those that have not expired.
Live == {k \in Rows : table[k].expires > now}

\* Slip: a row that expires now is still found.
FoundAtExpiry == {k \in Rows : table[k].expires + zone >= now}

\* The rows get takes for ones that have not: expires_at.replace(tzinfo=UTC) > now.
Found == {k \in Rows : table[k].expires + zone > now}

\* The live rows used later than k.
UsedLater(k) == {j \in Live : <<j, k>> \in order}

\* The order when only the rows S are left, and when k is then used as well.
Among(S) == order \cap (S \X S)
Using(k, S) == Among(S \ {k}) \cup ({k} \X (S \ {k}))
-----------------------------------------------------------------------------
Init ==
    /\ zone \in Zones
    /\ table = [k \in Keys |-> None]
    /\ order = {}
    /\ now = 0
    /\ asking = [c \in Callers |-> None]
    /\ received = [c \in Callers |-> None]

FromCache(k) ==
    [cached |-> TRUE, age |-> now - table[k].created, sound |-> table[k].sound]

\* get finds a row: it becomes the most recently used.
Hit(c, k) ==
    /\ asking[c] = None
    /\ k \in Found
    /\ order' = Using(k, Rows)
    /\ received' = [received EXCEPT ![c] = FromCache(k)]
    /\ UNCHANGED <<zone, table, now, asking>>

\* get finds no row, or one it takes for expired, which it deletes.
Miss(c, k) ==
    /\ asking[c] = None
    /\ k \notin Found
    /\ table' = [table EXCEPT ![k] = None]
    /\ order' = Among(Rows \ {k})
    /\ asking' = [asking EXCEPT ![c] = k]
    /\ received' = [received EXCEPT ![c] = None]
    /\ UNCHANGED <<zone, now>>

\* Slip: the rows to delete are taken from the wrong end of the order.
KeptLeastUsed == {k \in Live : Cardinality({j \in Live : <<k, j>> \in order}) < MaxRows}

\* Slip: the overflow query skips one row too many.
KeptOneMore == {k \in Live : Cardinality(UsedLater(k)) <= MaxRows}

\* The overflow query sees the table without the row that is being put, which the
\* session has not flushed yet: up to MaxRows other rows are kept.
Kept == {k \in Live : Cardinality(UsedLater(k)) < MaxRows}

KeptRows == [k \in Keys |-> IF k \in Kept THEN table[k] ELSE None]

\* Slip: a row that exists is left as it is.
PutOnlyNew(k, sound) ==
    IF k \in Live
    THEN table' = KeptRows /\ order' = Among(Kept)
    ELSE table' = [KeptRows EXCEPT ![k] = Row(sound)] /\ order' = Using(k, Kept)

\* A row that exists is overwritten, unless it is itself beyond the limit: then the
\* bulk delete takes it away and the answer is not stored.
Put(k, sound) ==
    IF k \in Live \ Kept
    THEN table' = KeptRows /\ order' = Among(Kept)
    ELSE table' = [KeptRows EXCEPT ![k] = Row(sound)] /\ order' = Using(k, Kept)

ProviderAnswers(c) ==
    /\ asking[c] # None
    /\ \E sound \in BOOLEAN :
          /\ Put(asking[c], sound)
          /\ received' = [received EXCEPT ![c] = [cached |-> FALSE, age |-> 0, sound |-> sound]]
    /\ asking' = [asking EXCEPT ![c] = None]
    /\ UNCHANGED <<zone, now>>

\* An LLMError, or the cancellation of the analysis: nothing is stored.
ProviderFails(c) ==
    /\ asking[c] # None
    /\ asking' = [asking EXCEPT ![c] = None]
    /\ UNCHANGED <<zone, table, order, now, received>>

Tick ==
    /\ now < LastTime
    /\ now' = now + 1
    /\ UNCHANGED <<zone, table, order, asking, received>>

Next ==
    \/ \E c \in Callers :
          \/ \E k \in Keys : Hit(c, k) \/ Miss(c, k)
          \/ ProviderAnswers(c) \/ ProviderFails(c)
    \/ Tick

Spec == Init /\ [][Next]_vars
-----------------------------------------------------------------------------
\* The values the state can take.
TypeOK ==
    /\ zone \in Zones
    /\ table \in [Keys -> Entries \cup {None}]
    /\ order \subseteq Rows \X Rows
    /\ now \in 0 .. LastTime
    /\ asking \in [Callers -> Keys \cup {None}]
    /\ received \in [Callers -> [cached : BOOLEAN, age : Nat, sound : BOOLEAN] \cup {None}]

\* However analyses interleave, the table exceeds its limit by one row at most.
SizeBounded == Cardinality(Rows) <= MaxRows + 1

\* An answer is served from the cache until it is as old as the retention period, however
\* often its row was used; a database session east of UTC prolongs that by its offset, and
\* one west of UTC shortens it (LLMCache.get).
AnswersExpire ==
    \A c \in Callers :
        received[c] # None /\ received[c].cached => received[c].age < Retention + zone

\* While callers that missed the same key overtake each other, a put evicts a row that has
\* not expired only if MaxRows such rows that were used later stay.
RecentRowsSurvive ==
    [][\A c \in Callers : asking[c] # None /\ asking'[c] = None =>
          \A k \in Live : table'[k] = None =>
             Cardinality(UsedLater(k) \cap Rows') >= MaxRows]_vars

\* Unless the table holds more than MaxRows rows, an answer that was received is stored as
\* of now and as the row used last, also over the row another caller has stored for the
\* same key since the miss.
AnswerStored ==
    [][\A c \in Callers :
          asking[c] # None /\ received'[c] # received[c] /\ Cardinality(Live) <= MaxRows =>
             LET k == asking[c]
             IN  /\ table'[k] # None
                 /\ table'[k].created = now /\ table'[k].sound = received'[c].sound
                 /\ \A j \in Rows' \ {k} : <<k, j>> \in order']_vars

\* The message of a failed analysis, "Please try again" (jobs.py): trying again asks the
\* provider again, and does not meet the answer the pipeline has rejected.
RejectedNotReplayed ==
    \A c \in Callers : received[c] # None /\ received[c].cached => received[c].sound
=============================================================================
