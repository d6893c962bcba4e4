----------------------------- MODULE LLMCacheProofs -----------------------------
(***************************************************************************)
(* The size of the table, the age of what it serves and what a put evicts, *)
(* for any number of callers, keys and rows and any retention.             *)
(***************************************************************************)
EXTENDS LLMCache, FiniteSetTheorems, WellFoundedInduction, TLAPS

\* R decides between any two members of S, as the times of their last use do.
StrictOrder(R, S) ==
    /\ \A x \in S : <<x, x>> \notin R
    /\ \A x, y, z \in S : <<x, y>> \in R /\ <<y, z>> \in R => <<x, z>> \in R
    /\ \A x, y \in S : x # y => <<x, y>> \in R \/ <<y, x>> \in R

\* A row expires a retention period after the day it was written.
Dated ==
    \A k \in Rows : table[k].created <= now /\ table[k].expires = table[k].created + Retention

IInv == TypeOK /\ StrictOrder(order, Rows) /\ IsFiniteSet(Rows) /\ Dated /\ SizeBounded
        /\ AnswersExpire
-----------------------------------------------------------------------------
\* Finitely many members have a last one.
LEMMA LastOne ==
    ASSUME NEW S, IsFiniteSet(S), S # {}, NEW R, StrictOrder(R, S)
    PROVE  \E x \in S : \A y \in S \ {x} : <<y, x>> \in R
<1> DEFINE After(x) == {y \in S : <<x, y>> \in R}
           Afters == {After(x) : x \in S}
<1>1. IsWellFoundedOn(StrictSubsetOrdering(S), FiniteSubsetsOf(S))
  BY FS_StrictSubsetOrderingWellFounded
<1>2. Afters \subseteq FiniteSubsetsOf(S) /\ Afters # {}
  <2>1. \A T \in SUBSET S : IsFiniteSet(T)
    BY FS_Subset
  <2> QED
    BY <2>1 DEF FiniteSubsetsOf
<1> HIDE DEF Afters
<1>3. PICK T \in Afters : \A U \in Afters : <<U, T>> \notin StrictSubsetOrdering(S)
  BY <1>1, <1>2, WFMin
<1> USE DEF Afters
<1>4. PICK x \in S : T = After(x)
  OBVIOUS
<1>5. ASSUME NEW y \in S, y # x, <<y, x>> \notin R PROVE FALSE
  <2>1. <<x, y>> \in R /\ y \in After(x) /\ y \notin After(y)
    BY <1>5 DEF StrictOrder
  <2>2. After(y) \subseteq After(x)
    BY <2>1 DEF StrictOrder
  <2>3. <<After(y), After(x)>> \in StrictSubsetOrdering(S)
    BY <2>1, <2>2 DEF StrictSubsetOrdering
  <2> QED
    BY <2>3, <1>3, <1>4
<1> QED
  BY <1>5

\* Finitely many members have a first one.
LEMMA FirstOne ==
    ASSUME NEW S, IsFiniteSet(S), S # {}, NEW R, StrictOrder(R, S)
    PROVE  \E x \in S : \A y \in S \ {x} : <<x, y>> \in R
<1> DEFINE Q == {p \in S \X S : <<p[2], p[1]>> \in R}
<1>1. \A x, y \in S : <<x, y>> \in Q <=> <<y, x>> \in R
  OBVIOUS
<1> HIDE DEF Q
<1>2. StrictOrder(Q, S)
  BY <1>1 DEF StrictOrder
<1>3. PICK x \in S : \A y \in S \ {x} : <<y, x>> \in Q
  BY <1>2, LastOne
<1> QED
  BY <1>1, <1>3

LEMMA SubOrder ==
    ASSUME NEW R, NEW S, StrictOrder(R, S), NEW T \in SUBSET S
    PROVE  StrictOrder(R, T) /\ StrictOrder(R \cap (T \X T), T)
BY DEF StrictOrder
-----------------------------------------------------------------------------
\* The overflow query leaves MaxRows rows at most: all others of them were used after the
\* last one.
LEMMA KeptIsBounded ==
    ASSUME IInv
    PROVE  IsFiniteSet(Kept) /\ Cardinality(Kept) <= MaxRows
<1>1. Kept \subseteq Rows /\ Kept \subseteq Live /\ IsFiniteSet(Kept)
  BY FS_Subset DEF IInv, Kept, Live
<1>2. CASE Kept = {}
  BY <1>2, FS_EmptySet, LLMCacheAssumption DEF LLMCacheAssumption
<1>3. CASE Kept # {}
  <2>0. StrictOrder(order, Kept)
    BY <1>1, SubOrder DEF IInv
  <2>1. PICK x \in Kept : \A y \in Kept \ {x} : <<y, x>> \in order
    BY <1>1, <1>3, <2>0, LastOne
  <2>2. Kept \ {x} \subseteq UsedLater(x)
    BY <2>1, <1>1 DEF UsedLater
  <2>3. IsFiniteSet(UsedLater(x)) /\ Cardinality(UsedLater(x)) \in Nat
    BY FS_Subset, FS_CardinalityType DEF IInv, UsedLater, Live
  <2>4. Cardinality(Kept \ {x}) <= Cardinality(UsedLater(x))
    BY <2>2, <2>3, FS_Subset
  <2>5. Cardinality(UsedLater(x)) < MaxRows
    BY DEF Kept
  <2>6. Cardinality(Kept \ {x}) = Cardinality(Kept) - 1 /\ Cardinality(Kept) \in Nat
    BY <1>1, FS_RemoveElement, FS_CardinalityType
  <2> QED
    BY <1>1, <2>3, <2>4, <2>5, <2>6, LLMCacheAssumption DEF LLMCacheAssumption
<1> QED
  BY <1>2, <1>3

\* Whatever is cut off has MaxRows rows before it that are not.
LEMMA CutOffLast ==
    ASSUME IInv, NEW k \in Live \ Kept
    PROVE  Cardinality(UsedLater(k) \cap Kept) >= MaxRows
<1> DEFINE Cut == Live \ Kept
<1>1. Cut \subseteq Rows /\ IsFiniteSet(Cut) /\ Cut # {} /\ Live \subseteq Rows
  BY FS_Subset DEF IInv, Live
<1>2. PICK x \in Cut : \A y \in Cut \ {x} : <<x, y>> \in order
  <2>1. StrictOrder(order, Cut)
    BY <1>1, SubOrder DEF IInv
  <2> HIDE DEF Cut
  <2> QED
    BY <1>1, <2>1, FirstOne
<1>3. StrictOrder(order, Live)
  BY <1>1, SubOrder DEF IInv
<1>4. UsedLater(x) \subseteq UsedLater(k) \cap Kept
  <2> SUFFICES ASSUME NEW y \in UsedLater(x) PROVE y \in Kept /\ <<y, k>> \in order
    BY DEF UsedLater
  <2>1. y \in Live /\ <<y, x>> \in order /\ y # x
    BY <1>3 DEF UsedLater, StrictOrder
  <2>2. y \in Kept
    BY <1>2, <1>3, <2>1 DEF StrictOrder
  <2>3. k = x \/ <<x, k>> \in order
    BY <1>2
  <2> QED
    BY <1>3, <2>1, <2>2, <2>3 DEF StrictOrder
<1>5. IsFiniteSet(UsedLater(x)) /\ IsFiniteSet(UsedLater(k) \cap Kept)
  BY <1>1, FS_Subset DEF IInv, UsedLater
<1>6. Cardinality(UsedLater(x)) \in Nat /\ Cardinality(UsedLater(k) \cap Kept) \in Nat
  BY <1>5, FS_CardinalityType
<1>7. ~(Cardinality(UsedLater(x)) < MaxRows)
  BY DEF Kept
<1>8. Cardinality(UsedLater(x)) <= Cardinality(UsedLater(k) \cap Kept)
  BY <1>4, <1>5, FS_Subset
<1> QED
  BY <1>6, <1>7, <1>8, LLMCacheAssumption DEF LLMCacheAssumption
-----------------------------------------------------------------------------
LEMMA Initially == ASSUME Init PROVE IInv
<1>1. Rows = {}
  BY DEF Init, Rows
<1>2. TypeOK /\ StrictOrder(order, Rows) /\ Dated /\ AnswersExpire
  BY <1>1, LLMCacheAssumption
  DEF Init, TypeOK, StrictOrder, Dated, AnswersExpire, LLMCacheAssumption
<1>3. IsFiniteSet(Rows) /\ SizeBounded
  BY <1>1, FS_EmptySet, LLMCacheAssumption DEF SizeBounded, LLMCacheAssumption
<1> QED
  BY <1>2, <1>3 DEF IInv

\* The order among the rows that are left is one, and so is that in which k comes first.
LEMMA OrderLeft ==
    ASSUME StrictOrder(order, Rows), NEW S \in SUBSET Rows
    PROVE  Among(S) \subseteq S \X S /\ StrictOrder(Among(S), S)
BY SubOrder DEF Among

LEMMA OrderOfUse ==
    ASSUME StrictOrder(order, Rows), NEW S \in SUBSET Rows, NEW k
    PROVE  /\ Using(k, S) \subseteq (S \cup {k}) \X (S \cup {k})
           /\ StrictOrder(Using(k, S), S \cup {k})
<1> DEFINE T == S \ {k}
<1>1. Among(T) \subseteq T \X T /\ StrictOrder(Among(T), T)
  BY OrderLeft
<1>2. Using(k, S) = Among(T) \cup ({k} \X T) /\ S \cup {k} = T \cup {k} /\ k \notin T
  BY DEF Using
<1> HIDE DEF T
<1>3. \A x, y : <<x, y>> \in Using(k, S) <=>
         (<<x, y>> \in Among(T) /\ x \in T /\ y \in T) \/ (x = k /\ y \in T)
  BY <1>1, <1>2
<1>4. StrictOrder(Using(k, S), T \cup {k})
  BY <1>1, <1>2, <1>3 DEF StrictOrder
<1>5. Using(k, S) \subseteq (T \cup {k}) \X (T \cup {k})
  BY <1>1, <1>2
<1> QED
  BY <1>2, <1>4, <1>5
-----------------------------------------------------------------------------
LEMMA RowIsEntry ==
    ASSUME TypeOK, NEW sound \in BOOLEAN
    PROVE  Row(sound) \in Entries /\ Row(sound) # None
BY LLMCacheAssumption DEF TypeOK, Row, Entries, LLMCacheAssumption

\* A put leaves the rows it keeps and the one it writes, unless it takes that one away.
LEMMA PutEffect ==
    ASSUME IInv, NEW k \in Keys, NEW sound \in BOOLEAN, Put(k, sound)
    PROVE  /\ table' \in [Keys -> Entries \cup {None}]
           /\ \A j \in Keys \ {k} : table'[j] = IF j \in Kept THEN table[j] ELSE None
           /\ \/ k \in Live \ Kept /\ Rows' = Kept /\ table'[k] = None
              \/ /\ k \notin Live \ Kept /\ Rows' = Kept \cup {k} /\ table'[k] = Row(sound)
                 /\ order' = Using(k, Kept)
           /\ order' \subseteq Rows' \X Rows' /\ StrictOrder(order', Rows')
<1>1. Kept \subseteq Live /\ Kept \subseteq Rows /\ Rows \subseteq Keys
  BY DEF Kept, Live, Rows
<1>2. \A j \in Kept : table[j] # None
  BY <1>1 DEF Rows
<1>3. KeptRows \in [Keys -> Entries \cup {None}]
  BY DEF KeptRows, IInv, TypeOK
<1>4. \A j \in Keys : KeptRows[j] = IF j \in Kept THEN table[j] ELSE None
  BY DEF KeptRows
<1>5. StrictOrder(order, Rows) /\ TypeOK
  BY DEF IInv
<1>6. CASE k \in Live \ Kept
  <2>1. table' = KeptRows /\ order' = Among(Kept)
    BY <1>6 DEF Put
  <2>2. Rows' = Kept
    BY <2>1, <1>1, <1>2, <1>4 DEF Rows
  <2>3. Among(Kept) \subseteq Kept \X Kept /\ StrictOrder(Among(Kept), Kept)
    BY <1>1, <1>5, OrderLeft
  <2> QED
    BY <1>3, <1>4, <1>6, <2>1, <2>2, <2>3
<1>7. CASE k \notin Live \ Kept
  <2>1. table' = [KeptRows EXCEPT ![k] = Row(sound)] /\ order' = Using(k, Kept)
    BY <1>7 DEF Put
  <2>2. Row(sound) \in Entries /\ Row(sound) # None
    BY <1>5, RowIsEntry
  <2>3. /\ table' \in [Keys -> Entries \cup {None}] /\ table'[k] = Row(sound)
        /\ \A j \in Keys \ {k} : table'[j] = KeptRows[j]
    BY <2>1, <2>2, <1>3
  <2>4. Rows' = Kept \cup {k}
    BY <2>2, <2>3, <1>1, <1>2, <1>4 DEF Rows
  <2>5. /\ Using(k, Kept) \subseteq (Kept \cup {k}) \X (Kept \cup {k})
        /\ StrictOrder(Using(k, Kept), Kept \cup {k})
    BY <1>1, <1>5, OrderOfUse
  <2> QED
    BY <1>4, <1>7, <2>1, <2>3, <2>4, <2>5
<1> QED
  BY <1>6, <1>7

LEMMA HitStep ==
    ASSUME IInv, NEW c \in Callers, NEW k \in Keys, Hit(c, k)
    PROVE  IInv'
<1>1. /\ table' = table /\ now' = now /\ zone' = zone /\ asking' = asking
      /\ Rows' = Rows /\ k \in Rows
      /\ order' = Using(k, Rows) /\ received' = [received EXCEPT ![c] = FromCache(k)]
      /\ table[k].expires + zone > now
  BY DEF Hit, Rows, Found
<1>2. order' \subseteq Rows' \X Rows' /\ StrictOrder(order', Rows')
  <2>1. Rows \cup {k} = Rows
    BY <1>1
  <2> QED
    BY <1>1, <2>1, OrderOfUse DEF IInv
<1>3. table[k] \in Entries /\ now \in Nat /\ zone \in Int /\ table[k].created <= now
  BY <1>1, LLMCacheAssumption DEF IInv, TypeOK, Dated, Rows, LLMCacheAssumption
<1>4. FromCache(k).age < Retention + zone
  BY <1>1, <1>3, LLMCacheAssumption DEF IInv, Dated, FromCache, Entries, LLMCacheAssumption
<1>5. FromCache(k) \in [cached : BOOLEAN, age : Nat, sound : BOOLEAN]
  BY <1>3 DEF FromCache, Entries
<1>6. TypeOK'
  BY <1>1, <1>2, <1>5 DEF IInv, TypeOK
<1>7. AnswersExpire'
  BY <1>1, <1>4 DEF IInv, TypeOK, AnswersExpire
<1>8. Dated' /\ SizeBounded' /\ IsFiniteSet(Rows)'
  BY <1>1 DEF IInv, Dated, SizeBounded
<1> QED
  BY <1>2, <1>6, <1>7, <1>8 DEF IInv

LEMMA MissStep ==
    ASSUME IInv, NEW c \in Callers, NEW k \in Keys, Miss(c, k)
    PROVE  IInv'
<1>1. /\ table' = [table EXCEPT ![k] = None] /\ order' = Among(Rows \ {k})
      /\ asking' = [asking EXCEPT ![c] = k] /\ received' = [received EXCEPT ![c] = None]
      /\ now' = now /\ zone' = zone
  BY DEF Miss
<1>2. Rows' = Rows \ {k} /\ \A j \in Rows' : table'[j] = table[j]
  BY <1>1 DEF Rows, IInv, TypeOK
<1>3. order' \subseteq Rows' \X Rows' /\ StrictOrder(order', Rows')
  BY <1>1, <1>2, OrderLeft DEF IInv
<1>4. TypeOK'
  BY <1>1, <1>3 DEF IInv, TypeOK
<1>5. IsFiniteSet(Rows') /\ SizeBounded'
  <2>1. IsFiniteSet(Rows') /\ Cardinality(Rows') <= Cardinality(Rows)
    BY <1>2, FS_Subset DEF IInv
  <2>2. Cardinality(Rows) \in Nat /\ Cardinality(Rows') \in Nat
    BY <2>1, FS_CardinalityType DEF IInv
  <2> QED
    BY <2>1, <2>2, LLMCacheAssumption DEF IInv, SizeBounded, LLMCacheAssumption
<1>6. Dated'
  BY <1>1, <1>2 DEF IInv, Dated
<1>7. AnswersExpire'
  BY <1>1 DEF IInv, TypeOK, AnswersExpire
<1> QED
  BY <1>3, <1>4, <1>5, <1>6, <1>7 DEF IInv

LEMMA AnswerStep ==
    ASSUME IInv, NEW c \in Callers, ProviderAnswers(c)
    PROVE  IInv'
<1> DEFINE k == asking[c]
<1>1. k \in Keys /\ now' = now /\ zone' = zone /\ asking' = [asking EXCEPT ![c] = None]
  BY DEF ProviderAnswers, IInv, TypeOK
<1>2. PICK sound \in BOOLEAN :
         /\ Put(k, sound)
         /\ received' = [received EXCEPT ![c] = [cached |-> FALSE, age |-> 0, sound |-> sound]]
  BY DEF ProviderAnswers
<1> HIDE DEF k
<1>3. /\ table' \in [Keys -> Entries \cup {None}]
      /\ \A j \in Keys \ {k} : table'[j] = IF j \in Kept THEN table[j] ELSE None
      /\ \/ Rows' = Kept /\ k \in Live \ Kept
         \/ Rows' = Kept \cup {k} /\ table'[k] = Row(sound)
      /\ order' \subseteq Rows' \X Rows' /\ StrictOrder(order', Rows')
  BY <1>1, <1>2, PutEffect
<1>4. TypeOK'
  BY <1>1, <1>2, <1>3 DEF IInv, TypeOK
<1>5. IsFiniteSet(Rows') /\ SizeBounded'
  <2>1. IsFiniteSet(Kept) /\ Cardinality(Kept) <= MaxRows /\ Cardinality(Kept) \in Nat
    BY KeptIsBounded, FS_CardinalityType
  <2>2. IsFiniteSet(Kept \cup {k}) /\ Cardinality(Kept \cup {k}) <= Cardinality(Kept) + 1
    BY <2>1, FS_AddElement
  <2>3. Cardinality(Kept \cup {k}) \in Nat
    BY <2>2, FS_CardinalityType
  <2>4. Cardinality(Kept) <= MaxRows + 1 /\ Cardinality(Kept \cup {k}) <= MaxRows + 1
    BY <2>1, <2>2, <2>3, LLMCacheAssumption DEF LLMCacheAssumption
  <2>5. Rows' = Kept \/ Rows' = Kept \cup {k}
    BY <1>3
  <2>6. IsFiniteSet(Rows') /\ Cardinality(Rows') <= MaxRows + 1
    BY <2>1, <2>2, <2>4, <2>5
  <2> QED
    BY <2>6 DEF SizeBounded
<1>6. Dated'
  <2> SUFFICES ASSUME NEW j \in Rows'
               PROVE  table'[j].created <= now /\ table'[j].expires = table'[j].created + Retention
    BY <1>1 DEF Dated
  <2>1. CASE j \in Kept /\ j # k
    <3>1. j \in Rows /\ table'[j] = table[j]
      BY <1>3, <2>1 DEF Kept, Live, Rows
    <3> QED
      BY <3>1 DEF IInv, Dated
  <2>2. CASE j = k /\ table'[k] = Row(sound)
    BY <2>2 DEF Row, IInv, TypeOK
  <2> QED
    BY <1>3, <2>1, <2>2
<1>7. AnswersExpire'
  BY <1>1, <1>2 DEF IInv, TypeOK, AnswersExpire
<1> QED
  BY <1>3, <1>4, <1>5, <1>6, <1>7 DEF IInv

LEMMA OtherStep ==
    ASSUME IInv, (\E c \in Callers : ProviderFails(c)) \/ Tick \/ UNCHANGED vars
    PROVE  IInv'
<1>1. /\ table' = table /\ order' = order /\ received' = received /\ Rows' = Rows
      /\ now' \in 0 .. LastTime /\ now <= now' /\ zone' = zone
      /\ asking' \in [Callers -> Keys \cup {None}]
  BY LLMCacheAssumption
  DEF IInv, TypeOK, ProviderFails, Tick, vars, Rows, LLMCacheAssumption
<1>2. Dated'
  <2> SUFFICES ASSUME NEW k \in Rows
               PROVE  table[k].created <= now' /\ table[k].expires = table[k].created + Retention
    BY <1>1 DEF Dated
  <2>1. table[k] \in Entries /\ table[k].created <= now
    BY DEF IInv, TypeOK, Dated, Rows
  <2>2. table[k].created \in Int /\ now \in Int /\ now' \in Int
    BY <2>1, <1>1 DEF Entries, IInv, TypeOK
  <2> QED
    BY <1>1, <2>1, <2>2 DEF IInv, Dated
<1> QED
  BY <1>1, <1>2 DEF IInv, TypeOK, SizeBounded, AnswersExpire

LEMMA Inductive == Spec => []IInv
<1>1. ASSUME Init PROVE IInv
  BY <1>1, Initially
<1>2. IInv /\ [Next]_vars => IInv'
  <2> SUFFICES ASSUME IInv, [Next]_vars PROVE IInv'
    OBVIOUS
  <2>1. ASSUME NEW c \in Callers, NEW k \in Keys, Hit(c, k) \/ Miss(c, k) PROVE IInv'
    BY <2>1, HitStep, MissStep
  <2>2. ASSUME NEW c \in Callers, ProviderAnswers(c) PROVE IInv'
    BY <2>2, AnswerStep
  <2>3. ASSUME (\E c \in Callers : ProviderFails(c)) \/ Tick \/ UNCHANGED vars PROVE IInv'
    BY <2>3, OtherStep
  <2> QED
    BY <2>1, <2>2, <2>3 DEF Next
<1> QED
  BY <1>1, <1>2, PTL DEF Spec
-----------------------------------------------------------------------------
\* The state keeps its types, and the order of last use relates existing rows only.
THEOREM TypeCorrect == Spec => []TypeOK
<1>1. IInv => TypeOK
  BY DEF IInv
<1> QED
  BY <1>1, Inductive, PTL

\* The table never holds more than one row beyond llm_cache_max_rows (LLMCache.put).
THEOREM TableIsBounded == Spec => []SizeBounded
<1>1. IInv => SizeBounded
  BY DEF IInv
<1> QED
  BY <1>1, Inductive, PTL

\* An answer is served from the cache until it is as old as the retention period, and the
\* offset of the database session in addition (LLMCache.get).
THEOREM NothingStale == Spec => []AnswersExpire
<1>1. IInv => AnswersExpire
  BY DEF IInv
<1> QED
  BY <1>1, Inductive, PTL

\* Who stops asking has been answered or has failed.
LEMMA EndOfQuestion ==
    ASSUME IInv, Next, NEW c \in Callers, asking[c] # None, asking'[c] # asking[c]
    PROVE  ProviderAnswers(c) \/ ProviderFails(c)
<1>1. ASSUME NEW d \in Callers, NEW k \in Keys, Hit(d, k) \/ Miss(d, k) PROVE FALSE
  BY <1>1 DEF IInv, TypeOK, Hit, Miss
<1>2. ASSUME NEW d \in Callers, ProviderAnswers(d) \/ ProviderFails(d) PROVE d = c
  BY <1>2 DEF IInv, TypeOK, ProviderAnswers, ProviderFails
<1>3. ~Tick
  BY DEF Tick
<1> QED
  BY <1>1, <1>2, <1>3 DEF Next

\* A put evicts a row that has not expired only if MaxRows rows used later stay
\* (the overflow query of LLMCache.put).
THEOREM RecentSurvive == Spec => RecentRowsSurvive
<1>1. IInv /\ [Next]_vars =>
         [\A c \in Callers : asking[c] # None /\ asking'[c] = None =>
            \A k \in Live : table'[k] = None =>
               Cardinality(UsedLater(k) \cap Rows') >= MaxRows]_vars
  <2> SUFFICES ASSUME IInv, Next, NEW c \in Callers, asking[c] # None, asking'[c] = None,
                      NEW k \in Live, table'[k] = None
               PROVE  Cardinality(UsedLater(k) \cap Rows') >= MaxRows
    OBVIOUS
  <2>1. ProviderAnswers(c) \/ ProviderFails(c)
    BY EndOfQuestion
  <2>2. k \in Keys /\ table[k] # None
    BY DEF Live, Rows
  <2>3. PICK sound \in BOOLEAN : Put(asking[c], sound)
    BY <2>1, <2>2 DEF ProviderAnswers, ProviderFails
  <2>4. asking[c] \in Keys
    BY DEF IInv, TypeOK
  <2>5. /\ \A j \in Keys \ {asking[c]} : table'[j] = IF j \in Kept THEN table[j] ELSE None
        /\ \/ asking[c] \in Live \ Kept /\ Rows' = Kept
           \/ Rows' = Kept \cup {asking[c]} /\ table'[asking[c]] = Row(sound)
    BY <2>3, <2>4, PutEffect
  <2>6. k \in Live \ Kept
    BY <2>2, <2>5, RowIsEntry DEF IInv
  <2>7. Kept \subseteq Rows' /\ IsFiniteSet(UsedLater(k) \cap Rows')
    BY <2>5, FS_Subset DEF IInv, UsedLater, Live
  <2>8. Cardinality(UsedLater(k) \cap Kept) <= Cardinality(UsedLater(k) \cap Rows')
    BY <2>7, FS_Subset
  <2>9. /\ Cardinality(UsedLater(k) \cap Rows') \in Nat
        /\ Cardinality(UsedLater(k) \cap Kept) \in Nat
    BY <2>7, FS_Subset, FS_CardinalityType
  <2> QED
    BY <2>6, <2>8, <2>9, CutOffLast, LLMCacheAssumption DEF LLMCacheAssumption
<1> QED
  BY <1>1, Inductive, PTL DEF Spec, RecentRowsSurvive

\* Unless the table is beyond its limit, an answer that was received is stored as of now
\* and as the row used last (LLMCache.put).
THEOREM AnswersAreStored == Spec => AnswerStored
<1>1. IInv /\ [Next]_vars =>
         [\A c \in Callers :
            asking[c] # None /\ received'[c] # received[c] /\ Cardinality(Live) <= MaxRows =>
               LET k == asking[c]
               IN  /\ table'[k] # None
                   /\ table'[k].created = now /\ table'[k].sound = received'[c].sound
                   /\ \A j \in Rows' \ {k} : <<k, j>> \in order']_vars
  <2> SUFFICES ASSUME IInv, Next, NEW c \in Callers, asking[c] # None,
                      received'[c] # received[c], Cardinality(Live) <= MaxRows, NEW k,
                      k = asking[c]
               PROVE  /\ table'[k] # None
                      /\ table'[k].created = now /\ table'[k].sound = received'[c].sound
                      /\ \A j \in Rows' \ {k} : <<k, j>> \in order'
    OBVIOUS
  <2>1. ProviderAnswers(c)
    <3>1. ASSUME NEW d \in Callers, NEW q \in Keys, Hit(d, q) \/ Miss(d, q) PROVE FALSE
      BY <3>1 DEF IInv, TypeOK, Hit, Miss
    <3>2. ASSUME NEW d \in Callers, ProviderAnswers(d) PROVE d = c
      BY <3>2 DEF IInv, TypeOK, ProviderAnswers
    <3>3. ASSUME NEW d \in Callers, ProviderFails(d) \/ Tick PROVE FALSE
      BY <3>3 DEF ProviderFails, Tick
    <3> QED
      BY <3>1, <3>2, <3>3 DEF Next
  <2>2. PICK sound \in BOOLEAN : Put(k, sound) /\ received'[c].sound = sound
    BY <2>1 DEF ProviderAnswers, IInv, TypeOK
  <2>3. k \in Keys
    BY DEF IInv, TypeOK
  <2>4. \/ k \in Live \ Kept
        \/ /\ Rows' = Kept \cup {k} /\ table'[k] = Row(sound)
           /\ order' = Using(k, Kept)
    BY <2>2, <2>3, PutEffect
  <2>5. k \notin Live \ Kept
    <3> SUFFICES ASSUME k \in Live PROVE Cardinality(UsedLater(k)) < MaxRows
      BY DEF Kept
    <3>1. IsFiniteSet(Live) /\ IsFiniteSet(UsedLater(k))
      BY FS_Subset DEF IInv, Live, UsedLater
    <3>2. UsedLater(k) \subseteq Live \ {k}
      BY DEF IInv, StrictOrder, UsedLater, Live
    <3>3. IsFiniteSet(Live \ {k}) /\ Cardinality(Live \ {k}) = Cardinality(Live) - 1
      BY <3>1, FS_RemoveElement
    <3>4. Cardinality(UsedLater(k)) <= Cardinality(Live \ {k})
      BY <3>2, <3>3, FS_Subset
    <3>5. Cardinality(Live) \in Nat /\ Cardinality(UsedLater(k)) \in Nat
      BY <3>1, FS_CardinalityType
    <3> QED
      BY <3>3, <3>4, <3>5, LLMCacheAssumption DEF LLMCacheAssumption
  <2>6. Row(sound) # None
    BY RowIsEntry DEF IInv
  <2>7. \A j \in Rows' \ {k} : <<k, j>> \in order'
    BY <2>4, <2>5 DEF Using
  <2> QED
    BY <2>2, <2>4, <2>5, <2>6, <2>7 DEF Row
<1> QED
  BY <1>1, Inductive, PTL DEF Spec, AnswerStored
=============================================================================
