----------------------- MODULE RedisMemoryStoreProofs -----------------------
(***************************************************************************)
(* For any number of overlapping Saves and appends and any limits: the      *)
(* checkpoint index of storage/redis_store.go is a window on the newest     *)
(* Saves and outgrows its limit only by the prunes still due; states,       *)
(* checkpoint data and index agree; messages are the newest ones pushed.    *)
(***************************************************************************)
EXTENDS RedisMemoryStore, FiniteSetTheorems, TLAPS

USE RedisAssumption

\* How far a Save has come tells what of it is in Redis.
Progress ==
    /\ \A c \in indexed : pc[c] \in {"prune", "done", "broken"}
    /\ \A c \in Saves : pc[c] = "index" => c \in ckptData \cup expired

Entries(S) == {Entry(c) : c \in S}

\* What was pruned has been superseded.
PrunedSuperseded ==
    \A c \in indexed \ index : Window!Superseded(Entry(c), Entries(indexed))

\* The commands of a Save write what belongs where (redis_store.go:102-150).
LEMMA RedisTypeCorrect == Spec => []TypeOK
<1>1. Init => TypeOK
  BY DEF Init, TypeOK
<1>2. TypeOK /\ [Next]_vars => TypeOK'
  <2> SUFFICES ASSUME TypeOK, [Next]_vars PROVE TypeOK'
    OBVIOUS
  <2> USE DEF TypeOK
  <2>1. CASE Tick
    BY <2>1 DEF Tick, saveVars
  <2>2. ASSUME NEW c \in Saves, Begin(c) PROVE TypeOK'
    BY <2>2 DEF Begin
  <2>3. ASSUME NEW c \in Saves, SetState(c) \/ SetData(c) PROVE TypeOK'
    BY <2>3 DEF SetState, SetData
  <2>4. ASSUME NEW c \in Saves, AddToIndex(c) PROVE TypeOK'
    BY <2>4 DEF AddToIndex
  <2>5. ASSUME NEW c \in Saves, pruneCheckpoints(c) PROVE TypeOK'
    <3>1. index' \subseteq index
      BY <2>5 DEF pruneCheckpoints, RanksKept, HighestRanks
    <3> QED BY <2>5, <3>1 DEF pruneCheckpoints
  <2>6. ASSUME NEW c \in Saves, Break(c) \/ ExpireData(c) PROVE TypeOK'
    BY <2>6 DEF Break, ExpireData
  <2>7. CASE ExpireState
    BY <2>7 DEF ExpireState
  <2>8. ASSUME NEW a \in Appends, Push(a) \/ LTrim(a) \/ AppendFails(a)
        PROVE  TypeOK'
    BY <2>8 DEF Push, LTrim, AppendFails, saveVars
  <2>9. CASE UNCHANGED vars
    BY <2>9 DEF vars, saveVars
  <2> QED BY <2>1, <2>2, <2>3, <2>4, <2>5, <2>6, <2>7, <2>8, <2>9 DEF Next
<1> QED BY <1>1, <1>2, PTL DEF Spec

\* The pipeline's order: state, data, index (redis_store.go:121-135).
LEMMA ProgressInductive ==
    Spec => [](Progress /\ ListedLoadable /\ StateHasCheckpoint)
<1> USE DEF Progress, ListedLoadable, StateHasCheckpoint
<1>1. Init => Progress /\ ListedLoadable /\ StateHasCheckpoint
  BY DEF Init
<1>2. TypeOK /\ Progress /\ ListedLoadable /\ StateHasCheckpoint /\ [Next]_vars
        => (Progress /\ ListedLoadable /\ StateHasCheckpoint)'
  <2> SUFFICES ASSUME TypeOK, Progress, ListedLoadable, StateHasCheckpoint,
                      [Next]_vars
               PROVE  (Progress /\ ListedLoadable /\ StateHasCheckpoint)'
    OBVIOUS
  <2> USE DEF TypeOK
  <2>1. CASE Tick
    BY <2>1 DEF Tick, saveVars
  <2>2. ASSUME NEW c \in Saves, Begin(c) \/ SetState(c)
        PROVE  (Progress /\ ListedLoadable /\ StateHasCheckpoint)'
    BY <2>2 DEF Begin, SetState
  <2>3. ASSUME NEW c \in Saves, SetData(c) \/ AddToIndex(c)
        PROVE  (Progress /\ ListedLoadable /\ StateHasCheckpoint)'
    BY <2>3 DEF SetData, AddToIndex
  <2>4. ASSUME NEW c \in Saves, pruneCheckpoints(c)
        PROVE  (Progress /\ ListedLoadable /\ StateHasCheckpoint)'
    <3>1. index' \subseteq index
      BY <2>4 DEF pruneCheckpoints, RanksKept, HighestRanks
    <3> QED BY <2>4, <3>1 DEF pruneCheckpoints
  <2>5. ASSUME NEW c \in Saves, Break(c) \/ ExpireData(c)
        PROVE  (Progress /\ ListedLoadable /\ StateHasCheckpoint)'
    BY <2>5 DEF Break, ExpireData, OutlivesState
  <2>6. CASE ExpireState
    BY <2>6 DEF ExpireState
  <2>7. ASSUME NEW a \in Appends, Push(a) \/ LTrim(a) \/ AppendFails(a)
        PROVE  (Progress /\ ListedLoadable /\ StateHasCheckpoint)'
    BY <2>7 DEF Push, LTrim, AppendFails, saveVars
  <2>8. CASE UNCHANGED vars
    BY <2>8 DEF vars, saveVars
  <2> QED BY <2>1, <2>2, <2>3, <2>4, <2>5, <2>6, <2>7, <2>8 DEF Next
<1> QED BY <1>1, <1>2, RedisTypeCorrect, PTL DEF Spec

\* A listed checkpoint has its data until that expires (redis_store.go:127-131).
THEOREM ListedCanBeLoaded == Spec => []ListedLoadable
BY ProgressInductive, PTL

\* The current state has a checkpoint from the end of its Save on, for as long
\* as it lives (redis_store.go:123-127).
THEOREM StateIsCheckpointed == Spec => []StateHasCheckpoint
BY ProgressInductive, PTL

\* Entries stand for their Saves one to one.
LEMMA EntriesFinite ==
    ASSUME TypeOK, NEW S \in SUBSET Saves
    PROVE  IsFiniteSet(Entries(S))
<1> DEFINE f == [c \in S |-> Entry(c)]
<1>1. IsFiniteSet(S)
  BY FS_Subset
<1>2. f \in Surjection(S, Entries(S))
  BY DEF Surjection, Entries
<1> QED BY <1>1, <1>2, FS_Surjection

\* The abstract specification counts as this one does.
LEMMA SameCount == \A S : Window!Cardinality(S) = Cardinality(S)
BY DEF Window!Cardinality, Cardinality

\* Enough Saves at least as new as c supersede it.
LEMMA EnoughNewer ==
    ASSUME TypeOK, NEW S \in SUBSET Saves, NEW c \in S, NEW K \in SUBSET S,
           c \notin K, \A k \in K : now[k] >= now[c],
           Cardinality(K) >= maxCheckpoints
    PROVE  Window!Superseded(Entry(c), Entries(S))
<1> DEFINE T == {a \in Entries(S) \ {Entry(c)} : a.stamp >= Entry(c).stamp}
           f == [k \in K |-> Entry(k)]
<1>1. IsFiniteSet(T)
  BY EntriesFinite, FS_Subset
<1>2. \A k \in K : Entry(k) \in T
  BY DEF Entry, Entries
<1>3. \A k, m \in K : Entry(k) = Entry(m) => k = m
  BY DEF Entry
<1>4. f \in Injection(K, T)
  BY <1>2, <1>3 DEF Injection, IsInjective
<1>5. Cardinality(K) <= Cardinality(T)
  BY <1>1, <1>4, FS_Injection
<1>6. Cardinality(T) \in Nat /\ Cardinality(K) \in Nat
  <2>1. IsFiniteSet(K)
    BY FS_Subset
  <2> QED BY <1>1, <2>1, FS_CardinalityType
<1>7. Cardinality(T) >= maxCheckpoints
  BY <1>5, <1>6
<1> QED BY <1>7, SameCount DEF Window!Superseded

\* More Saves keep what was superseded superseded.
LEMMA SupersededGrows ==
    ASSUME TypeOK, NEW S \in SUBSET Saves, NEW R \in SUBSET S, NEW e,
           Window!Superseded(e, Entries(R))
    PROVE  Window!Superseded(e, Entries(S))
<1> DEFINE A == {a \in Entries(R) \ {e} : a.stamp >= e.stamp}
           B == {a \in Entries(S) \ {e} : a.stamp >= e.stamp}
<1>1. A \subseteq B
  BY DEF Entries
<1>2. IsFiniteSet(B) /\ IsFiniteSet(A)
  BY <1>1, EntriesFinite, FS_Subset
<1>3. Cardinality(A) <= Cardinality(B)
  BY <1>1, <1>2, FS_Subset
<1>4. Cardinality(A) \in Nat /\ Cardinality(B) \in Nat
  BY <1>2, FS_CardinalityType
<1>5. Cardinality(A) >= maxCheckpoints
  BY SameCount DEF Window!Superseded
<1>6. Cardinality(B) >= maxCheckpoints
  BY <1>3, <1>4, <1>5
<1> QED BY <1>6, SameCount DEF Window!Superseded

\* ZREMRANGEBYRANK takes a checkpoint out only if it leaves maxCheckpoints that
\* are at least as new (redis_store.go:146-150).
LEMMA PruneLeavesNewest ==
    ASSUME TypeOK, NEW keep \in RanksKept, NEW d \in index \ keep
    PROVE  Window!Superseded(Entry(d), Entries(indexed))
<1>1. /\ keep \subseteq index
      /\ \A k \in keep : now[k] >= now[d]
      /\ Cardinality(keep) = IF Cardinality(index) < maxCheckpoints
                             THEN Cardinality(index) ELSE maxCheckpoints
  BY DEF RanksKept, HighestRanks
<1>2. index \subseteq indexed /\ indexed \subseteq Saves
  BY DEF TypeOK
<1>3. IsFiniteSet(index)
  BY <1>2, FS_Subset
<1>4. Cardinality(index) \in Nat
  BY <1>3, FS_CardinalityType
<1>5. Cardinality(index) # Cardinality(keep)
  BY <1>1, <1>3, FS_Subset
<1>6. Cardinality(keep) = maxCheckpoints
  BY <1>1, <1>4, <1>5
<1> QED BY <1>1, <1>2, <1>6, EnoughNewer

\* A step that neither lists nor prunes, and takes no time twice.
LEMMA WindowStutter ==
    ASSUME UNCHANGED <<index, indexed>>, index \subseteq indexed,
           \A c \in indexed : now'[c] = now[c]
    PROVE  /\ UNCHANGED <<Entries(indexed), Entries(index)>>
           /\ PrunedSuperseded => PrunedSuperseded'
<1>1. \A c \in indexed : Entry(c)' = Entry(c)
  BY DEF Entry
<1>2. Entries(indexed)' = Entries(indexed) /\ Entries(index)' = Entries(index)
  BY <1>1 DEF Entries
<1> QED BY <1>1, <1>2 DEF PrunedSuperseded, Window!Superseded

\* Every step of the store is a move of the window or none at all.
LEMMA WindowStep ==
    ASSUME TypeOK, Progress, PrunedSuperseded, [Next]_vars
    PROVE  /\ PrunedSuperseded'
           /\ Window!Move \/ UNCHANGED <<Entries(indexed), Entries(index)>>
<1>1. CASE UNCHANGED <<index, indexed, now>>
  BY <1>1, WindowStutter DEF TypeOK
<1>2. ASSUME NEW c \in Saves, Begin(c)
      PROVE  /\ PrunedSuperseded'
             /\ UNCHANGED <<Entries(indexed), Entries(index)>>
  <2>1. \A d \in indexed : now'[d] = now[d]
    BY <1>2 DEF Begin, Progress, TypeOK
  <2> QED BY <1>2, <2>1, WindowStutter DEF Begin, TypeOK
<1>3. ASSUME NEW c \in Saves, AddToIndex(c)
      PROVE  PrunedSuperseded' /\ Window!Move
  <2>1. /\ indexed' = indexed \cup {c} /\ index' = index \cup {c} /\ now' = now
        /\ c \notin indexed
    BY <1>3 DEF AddToIndex, Progress
  <2>2. indexed' \subseteq Saves /\ index \subseteq indexed
    BY <2>1 DEF TypeOK
  <2>3. /\ Entries(indexed)' = Entries(indexed')
        /\ Entries(index)' = Entries(index')
        /\ \A d \in Saves : Entry(d)' = Entry(d)
    BY <2>1 DEF Entries, Entry
  <2>4. \A d \in indexed' \ index' :
            Window!Superseded(Entry(d), Entries(indexed'))
    BY <2>1, <2>2, SupersededGrows DEF PrunedSuperseded
  <2>5. PrunedSuperseded'
    BY <2>2, <2>3, <2>4 DEF PrunedSuperseded, Window!Superseded
  <2>6. Entries(indexed) \subseteq Entries(indexed')
    BY <2>1 DEF Entries
  <2>7. Entries(index') \subseteq Entries(index) \cup (Entries(indexed') \ Entries(indexed))
    BY <2>1 DEF Entries, Entry
  <2>8. \A e \in Entries(indexed') \ Entries(index') :
            Window!Superseded(e, Entries(indexed'))
    BY <2>4 DEF Entries
  <2> QED BY <2>3, <2>5, <2>6, <2>7, <2>8 DEF Window!Move, Window!Superseded, Entries
<1>4. ASSUME NEW c \in Saves, pruneCheckpoints(c)
      PROVE  PrunedSuperseded' /\ Window!Move
  <2>1. indexed' = indexed /\ now' = now /\ index' \in RanksKept
    BY <1>4 DEF pruneCheckpoints
  <2>2. index' \subseteq index
    BY <2>1 DEF RanksKept, HighestRanks
  <2>3. /\ Entries(indexed)' = Entries(indexed)
        /\ Entries(index)' = Entries(index')
        /\ \A d \in Saves : Entry(d)' = Entry(d)
    BY <2>1 DEF Entries, Entry
  <2>4. \A d \in indexed \ index' :
            Window!Superseded(Entry(d), Entries(indexed))
    BY <2>1, PruneLeavesNewest DEF PrunedSuperseded
  <2>5. PrunedSuperseded'
    BY <2>1, <2>3, <2>4 DEF PrunedSuperseded, Window!Superseded, TypeOK
  <2>6. Entries(index') \subseteq Entries(index)
    BY <2>2 DEF Entries
  <2>7. \A e \in Entries(indexed) \ Entries(index') :
            Window!Superseded(e, Entries(indexed))
    BY <2>4 DEF Entries
  <2> QED BY <2>3, <2>5, <2>6, <2>7 DEF Window!Move, Window!Superseded, Entries
<1>5. \/ UNCHANGED <<index, indexed, now>>
      \/ \E c \in Saves : Begin(c) \/ AddToIndex(c) \/ pruneCheckpoints(c)
  BY DEF Next, vars, saveVars, Tick, SetState, SetData, Break, ExpireData,
         ExpireState, Push, LTrim, AppendFails
<1> QED BY <1>1, <1>2, <1>3, <1>4, <1>5

\* The checkpoint index implements NewestWindow (redis_store.go:130-150).
THEOREM IndexImplementsWindow == Spec => IndexIsWindow
<1>1. Init => PrunedSuperseded /\ Window!Init
  BY DEF Init, PrunedSuperseded, Window!Init
<1>2. TypeOK /\ Progress /\ PrunedSuperseded /\ [Next]_vars
        => PrunedSuperseded'
  BY WindowStep
<1>3. TypeOK /\ Progress /\ PrunedSuperseded /\ [Next]_vars
        => [Window!Move]_<<{Entry(c) : c \in indexed}, {Entry(c) : c \in index}>>
  BY WindowStep DEF Entries
<1> QED
  BY <1>1, <1>2, <1>3, RedisTypeCorrect, ProgressInductive, PTL
     DEF Spec, IndexIsWindow, Window!Spec
-----------------------------------------------------------------------------
(* The size of the index *)

\* The Saves that are listed and will prune, or would have pruned.
Owing == {c \in indexed : pc[c] \in {"prune", "broken"}}

LEMMA OwingFinite ==
    ASSUME TypeOK
    PROVE  /\ IsFiniteSet(index) /\ Cardinality(index) \in Nat
           /\ IsFiniteSet(Owing) /\ Cardinality(Owing) \in Nat
<1>1. index \subseteq Saves /\ Owing \subseteq Saves
  BY DEF TypeOK, Owing
<1>2. IsFiniteSet(index) /\ IsFiniteSet(Owing)
  BY <1>1, FS_Subset
<1> QED BY <1>2, FS_CardinalityType

\* Every ZAdd is one more that owes a prune, and the prune that pays leaves the
\* limit, whatever other Saves have added meanwhile (redis_store.go:130-150).
LEMMA BoundStep ==
    ASSUME TypeOK, TypeOK', Progress, IndexBounded, [Next]_vars
    PROVE  IndexBounded'
<1>1. IndexBounded' <=> Cardinality(index') <= maxCheckpoints + Cardinality(Owing')
  BY DEF IndexBounded, Owing
<1>2. Cardinality(index) <= maxCheckpoints + Cardinality(Owing)
  BY DEF IndexBounded, Owing
<1>3. CASE UNCHANGED index /\ Owing' = Owing
  BY <1>1, <1>2, <1>3
<1>4. ASSUME NEW c \in Saves, Begin(c) \/ SetState(c) \/ SetData(c) \/ Break(c)
      PROVE  UNCHANGED index /\ Owing' = Owing
  <2>1. UNCHANGED <<index, indexed>>
    BY <1>4 DEF Begin, SetState, SetData, Break
  <2>2. \A d \in indexed : (pc'[d] \in {"prune", "broken"}) <=> (pc[d] \in {"prune", "broken"})
    BY <1>4 DEF Begin, SetState, SetData, Break, Progress, TypeOK
  <2> QED BY <2>1, <2>2 DEF Owing
<1>5. ASSUME NEW c \in Saves, AddToIndex(c) PROVE IndexBounded'
  <2>1. index' = index \cup {c} /\ c \notin index /\ c \notin Owing
    BY <1>5 DEF AddToIndex, Progress, TypeOK, Owing
  <2>2. Owing' = Owing \cup {c}
    BY <1>5 DEF AddToIndex, Owing, Progress, TypeOK
  <2>3. Cardinality(index') = Cardinality(index) + 1
    BY <2>1, OwingFinite, FS_AddElement
  <2>4. Cardinality(Owing') = Cardinality(Owing) + 1
    BY <2>1, <2>2, OwingFinite, FS_AddElement
  <2> QED BY <1>1, <1>2, <2>3, <2>4, OwingFinite
<1>6. ASSUME NEW c \in Saves, pruneCheckpoints(c) PROVE IndexBounded'
  <2>1. Cardinality(index') = IF Cardinality(index) < maxCheckpoints
                              THEN Cardinality(index) ELSE maxCheckpoints
    BY <1>6 DEF pruneCheckpoints, RanksKept, HighestRanks
  <2>2. Cardinality(Owing') \in Nat
    <3>1. Owing' \subseteq Saves
      BY DEF Owing, TypeOK
    <3> QED BY <3>1, FS_Subset, FS_CardinalityType
  <2> QED BY <1>1, <2>1, <2>2, OwingFinite
<1>7. \/ UNCHANGED <<index, indexed, pc>>
      \/ \E c \in Saves : \/ Begin(c) \/ SetState(c) \/ SetData(c) \/ Break(c)
                          \/ AddToIndex(c) \/ pruneCheckpoints(c)
  BY DEF Next, vars, saveVars, Tick, ExpireData, ExpireState, Push, LTrim, AppendFails
<1>8. UNCHANGED <<index, indexed, pc>> => UNCHANGED index /\ Owing' = Owing
  BY DEF Owing
<1> QED BY <1>3, <1>4, <1>5, <1>6, <1>7, <1>8

\* The checkpoint index outgrows its limit only by what overlapping Saves still
\* have to prune and by broken answers (redis_store.go:130-150).
THEOREM IndexStaysBounded == Spec => []IndexBounded
<1>1. Init => IndexBounded
  <2> SUFFICES ASSUME Init PROVE IndexBounded
    OBVIOUS
  <2>1. index = {} /\ {c \in indexed : pc[c] \in {"prune", "broken"}} = {}
    BY DEF Init
  <2> QED BY <2>1, FS_EmptySet DEF IndexBounded
<1>2. TypeOK /\ TypeOK' /\ Progress /\ IndexBounded /\ [Next]_vars => IndexBounded'
  BY BoundStep
<1> QED BY <1>1, <1>2, RedisTypeCorrect, ProgressInductive, PTL DEF Spec
-----------------------------------------------------------------------------
(* The list of messages *)

Message == Appends \X Nat

\* The list and everything pushed, counted from their common end.
IsEndOf(list, all) ==
    /\ list \in Seq(Message) /\ all \in Seq(Message)
    /\ Len(list) <= Len(all)
    /\ \A i \in 1..Len(list) : list[i] = all[Len(all) - Len(list) + i]

MessageInv ==
    /\ sent \in [Appends -> Nat]
    /\ IsEndOf(messages, pushed)
    /\ Len(messages) >= maxMessages \/ Len(messages) = Len(pushed)

\* Last returns the elements from the end (redis_store.go:177).
LEMMA LastElements ==
    ASSUME NEW list \in Seq(Message), NEW n \in Nat
    PROVE  LET last == Last(list, n) IN
           /\ last \in Seq(Message)
           /\ Len(last) = IF Len(list) <= n THEN Len(list) ELSE n
           /\ \A i \in 1..Len(last) : last[i] = list[Len(list) - Len(last) + i]
<1>1. Len(list) \in Nat
  OBVIOUS
<1>2. CASE Len(list) <= n
  BY <1>1, <1>2 DEF Last
<1>3. CASE ~(Len(list) <= n)
  <2> DEFINE from == Len(list) - n + 1
  <2>1. Last(list, n) = SubSeq(list, from, Len(list))
    BY <1>3 DEF Last
  <2>2. from \in 1..(Len(list) + 1) /\ Len(list) - from + 1 = n
    BY <1>1, <1>3
  <2>3. /\ SubSeq(list, from, Len(list)) \in Seq(Message)
        /\ Len(SubSeq(list, from, Len(list))) = n
        /\ \A i \in 1..n : SubSeq(list, from, Len(list))[i] = list[from + i - 1]
    BY <1>1, <2>2
  <2> QED BY <1>1, <1>3, <2>1, <2>3
<1> QED BY <1>2, <1>3

\* A push extends both ends alike.
LEMMA PushKeepsEnd ==
    ASSUME NEW list, NEW all, IsEndOf(list, all), NEW m \in Message
    PROVE  /\ IsEndOf(Append(list, m), Append(all, m))
           /\ Len(Append(list, m)) = Len(list) + 1 /\ Len(Append(all, m)) = Len(all) + 1
<1> DEFINE longer == Append(list, m)
           more == Append(all, m)
<1>1. /\ list \in Seq(Message) /\ all \in Seq(Message) /\ Len(list) \in Nat /\ Len(all) \in Nat
      /\ Len(list) <= Len(all)
      /\ \A i \in 1..Len(list) : list[i] = all[Len(all) - Len(list) + i]
  BY DEF IsEndOf
<1>2. /\ longer \in Seq(Message) /\ Len(longer) = Len(list) + 1
      /\ \A i \in 1..Len(list) : longer[i] = list[i]
      /\ longer[Len(list) + 1] = m
  BY <1>1
<1>3. /\ more \in Seq(Message) /\ Len(more) = Len(all) + 1
      /\ \A i \in 1..Len(all) : more[i] = all[i]
      /\ more[Len(all) + 1] = m
  BY <1>1
<1> HIDE DEF longer, more
<1>4. ASSUME NEW i \in 1..Len(longer) PROVE longer[i] = more[Len(more) - Len(longer) + i]
  <2>1. Len(more) - Len(longer) + i = Len(all) - Len(list) + i
    BY <1>1, <1>2, <1>3
  <2>2. CASE i \in 1..Len(list)
    <3>1. Len(all) - Len(list) + i \in 1..Len(all)
      BY <1>1, <2>2
    <3> QED BY <1>1, <1>2, <1>3, <2>1, <2>2, <3>1
  <2>3. CASE i = Len(list) + 1
    <3>1. Len(all) - Len(list) + i = Len(all) + 1
      BY <1>1, <2>3
    <3> QED BY <1>2, <1>3, <2>1, <2>3, <3>1
  <2> QED BY <1>1, <1>2, <2>2, <2>3
<1>5. IsEndOf(longer, more)
  BY <1>1, <1>2, <1>3, <1>4 DEF IsEndOf
<1> QED BY <1>2, <1>3, <1>5 DEF longer, more

\* A trim leaves an end of the list, hence of everything pushed.
LEMMA TrimKeepsEnd ==
    ASSUME NEW list, NEW all, IsEndOf(list, all), NEW n \in Nat
    PROVE  IsEndOf(Last(list, n), all)
<1> DEFINE last == Last(list, n)
<1>1. /\ list \in Seq(Message) /\ all \in Seq(Message) /\ Len(list) \in Nat /\ Len(all) \in Nat
      /\ Len(list) <= Len(all)
      /\ \A i \in 1..Len(list) : list[i] = all[Len(all) - Len(list) + i]
  BY DEF IsEndOf
<1>2. /\ last \in Seq(Message) /\ Len(last) \in Nat /\ Len(last) <= Len(list)
      /\ \A i \in 1..Len(last) : last[i] = list[Len(list) - Len(last) + i]
  BY <1>1, LastElements
<1> HIDE DEF last
<1>3. ASSUME NEW i \in 1..Len(last) PROVE last[i] = all[Len(all) - Len(last) + i]
  <2>1. Len(list) - Len(last) + i \in 1..Len(list)
    BY <1>1, <1>2
  <2>2. Len(all) - Len(list) + (Len(list) - Len(last) + i) = Len(all) - Len(last) + i
    BY <1>1, <1>2
  <2> QED BY <1>1, <1>2, <2>1, <2>2
<1>4. IsEndOf(last, all)
  BY <1>1, <1>2, <1>3 DEF IsEndOf
<1> QED BY <1>4 DEF last

\* Pushes and trims of any calls, in any order (redis_store.go:157-180).
LEMMA MessagesInductive == Spec => []MessageInv
<1>1. Init => MessageInv
  BY DEF Init, MessageInv, IsEndOf
<1>2. MessageInv /\ [Next]_vars => MessageInv'
  <2> SUFFICES ASSUME MessageInv, [Next]_vars PROVE MessageInv'
    OBVIOUS
  <2>1. CASE UNCHANGED <<sent, messages, pushed>>
    BY <2>1 DEF MessageInv, IsEndOf
  <2>2. ASSUME NEW a \in Appends, Push(a) PROVE MessageInv'
    <3> DEFINE m == <<a, sent[a] + 1>>
    <3>1. m \in Message
      BY DEF MessageInv, Message
    <3>2. messages' = Append(messages, m) /\ pushed' = Append(pushed, m)
      BY <2>2 DEF Push
    <3>3. sent' \in [Appends -> Nat]
      BY <2>2 DEF Push, MessageInv
    <3>4. Len(messages) \in Nat /\ Len(pushed) \in Nat
      BY DEF MessageInv, IsEndOf
    <3> HIDE DEF m
    <3>5. /\ IsEndOf(messages', pushed')
          /\ Len(messages') = Len(messages) + 1 /\ Len(pushed') = Len(pushed) + 1
      BY <3>1, <3>2, PushKeepsEnd DEF MessageInv
    <3> QED BY <3>3, <3>4, <3>5 DEF MessageInv
  <2>3. ASSUME NEW a \in Appends, LTrim(a) PROVE MessageInv'
    <3>1. messages' = Last(messages, maxMessages) /\ UNCHANGED <<sent, pushed>>
      BY <2>3 DEF LTrim, Trimmed
    <3>2. messages \in Seq(Message) /\ maxMessages \in Nat /\ Len(messages) \in Nat
      BY DEF MessageInv, IsEndOf
    <3>3. Len(messages') = IF Len(messages) <= maxMessages THEN Len(messages) ELSE maxMessages
      BY <3>1, <3>2, LastElements
    <3>4. IsEndOf(messages', pushed')
      BY <3>1, <3>2, TrimKeepsEnd DEF MessageInv
    <3> QED BY <3>1, <3>2, <3>3, <3>4 DEF MessageInv
  <2>4. \/ UNCHANGED <<sent, messages, pushed>>
        \/ \E a \in Appends : Push(a) \/ LTrim(a)
    BY DEF Next, vars, messageVars, Tick, Begin, SetState, SetData, AddToIndex,
           pruneCheckpoints, Break, ExpireData, ExpireState, AppendFails
  <2> QED BY <2>1, <2>2, <2>3, <2>4
<1> QED BY <1>1, <1>2, PTL DEF Spec

\* The list holds the newest messages of all calls together, and is short of
\* the limit only when nothing was ever trimmed (redis_store.go:157-180).
THEOREM MessagesStayNewest == Spec => []MessagesAreNewest
<1>1. MessageInv => MessagesAreNewest
  <2> SUFFICES ASSUME MessageInv PROVE MessagesAreNewest
    OBVIOUS
  <2> DEFINE last == Last(pushed, Len(messages))
  <2>1. /\ messages \in Seq(Message) /\ pushed \in Seq(Message)
        /\ Len(messages) \in Nat /\ Len(pushed) \in Nat /\ Len(messages) <= Len(pushed)
        /\ \A i \in 1..Len(messages) : messages[i] = pushed[Len(pushed) - Len(messages) + i]
    BY DEF MessageInv, IsEndOf
  <2>2. /\ last \in Seq(Message)
        /\ Len(last) = IF Len(pushed) <= Len(messages) THEN Len(pushed) ELSE Len(messages)
        /\ \A i \in 1..Len(last) : last[i] = pushed[Len(pushed) - Len(last) + i]
    BY <2>1, LastElements
  <2> HIDE DEF last
  <2>3. Len(last) = Len(messages)
    BY <2>1, <2>2
  <2>4. messages = last
    <3>1. \A i \in 1..Len(messages) : messages[i] = last[i]
      BY <2>1, <2>2, <2>3
    <3>2. messages \in Seq(Message) /\ last \in Seq(Message) /\ Len(last) = Len(messages)
      BY <2>1, <2>2, <2>3
    <3> QED BY <3>1, <3>2, SMTT(60)
  <2>5. Len(messages) = Len(pushed) => messages = pushed
    <3>1. Len(messages) = Len(pushed) => \A i \in 1..Len(messages) : messages[i] = pushed[i]
      BY <2>1
    <3> QED BY <2>1, <3>1
  <2> QED BY <2>4, <2>5 DEF last, MessageInv, MessagesAreNewest
<1> QED BY <1>1, MessagesInductive, PTL
=============================================================================
