--------------------- MODULE PostgresMemoryStoreProofs ----------------------
(***************************************************************************)
(* For any number of overlapping Saves and appends, any limits and any     *)
(* pool: versions of storage/postgres_store.go count committed Saves, its  *)
(* checkpoints and messages are windows on the newest, messages exceed     *)
(* their limit by what the pool allows at most, and the state that Load    *)
(* returns is in the timeline.                                             *)
(***************************************************************************)
EXTENDS PostgresMemoryStore, FiniteSetTheorems, TLAPS

USE PostgresAssumption

Stages == {"new", "begun", "session", "state", "trimming", "trimmed", "done", "failed"}

\* The shape of the variables that the proofs look at.
Shape ==
    /\ stage \in [Calls -> Stages]
    /\ stamp \in [Calls -> Nat]
    /\ bump \in [Calls -> Nat]
    /\ pruning \in [Savers -> {"none", "due", "deleting"}]
    /\ doomed = [c \in Calls |-> doomed[c]]
    /\ own = [c \in Calls |-> own[c]]
    /\ state.version \in Nat

\* The lock on the session's row makes a transaction that is about to write a
\* version the only one, and the version it has read is current.
VersionInv ==
    /\ \A c \in Calls : stage[c] \in {"session", "state"} => c \in Savers /\ lock = c
    /\ \A c \in Calls : stage[c] = "state" => bump[c] = state.version + 1
    /\ IsFiniteSet(saved)
    /\ \A r \in saved : /\ r.id \in Savers
                        /\ stage[r.id] \in {"done", "failed"}
                        /\ r = [id |-> r.id, stamp |-> stamp[r.id]]
    /\ VersionCountsSaves
    /\ state.by # NoOne => [id |-> state.by, stamp |-> stamp[state.by]] \in saved

\* k of the rows S besides e are at least as new as e.
Outdated(k, e, S) == Cardinality({a \in S \ {e} : a.stamp >= e.stamp}) >= k

\* Checkpoints that are gone, or that a prune has selected, are superseded.
CheckpointInv ==
    /\ ckpts \subseteq saved
    /\ \A e \in saved \ ckpts : Outdated(MaxCheckpoints, e, saved)
    /\ \A c \in Savers : \A e \in doomed[c] : Outdated(MaxCheckpoints, e, saved)

\* Messages that are gone are superseded by committed ones, and messages that
\* a trim has selected by those together with its own.
MessageInv ==
    /\ IsFiniteSet(appended)
    /\ messages \subseteq appended
    /\ \A r \in appended : r.id[1] \in Appenders /\ stage[r.id[1]] = "done"
    /\ \A e \in appended \ messages : Outdated(MaxMessages, e, appended)
    /\ \A c \in Appenders :
          /\ IsFiniteSet(own[c])
          /\ \A r \in own[c] : r.id[1] = c
          /\ \A e \in doomed[c] : Outdated(MaxMessages, e, appended \cup own[c])
-----------------------------------------------------------------------------
\* Every statement keeps the shape of the state (postgres_store.go:81-266).
LEMMA ShapeInductive == Spec => []Shape
<1> USE DEF Shape, Stages, Calls
<1>1. Init => Shape
  BY DEF Init
<1>2. Shape /\ [Next]_vars => Shape'
  <2> SUFFICES ASSUME Shape, [Next]_vars PROVE Shape'
    OBVIOUS
  <2> USE DEF At
  <2>1. ASSUME NEW c \in Calls, BeginTx(c) PROVE Shape'
    BY <2>1 DEF BeginTx
  <2>2. ASSUME NEW c \in Calls, Fail(c) PROVE Shape'
    BY <2>2 DEF Fail
  <2>3. ASSUME NEW c \in Savers, UpsertSession(c) PROVE Shape'
    BY <2>3 DEF UpsertSession
  <2>4. ASSUME NEW c \in Savers, UpsertState(c) PROVE Shape'
    BY <2>4 DEF UpsertState
  <2>5. ASSUME NEW c \in Savers, NEW answered \in BOOLEAN, CommitSave(c, answered)
        PROVE  Shape'
    BY <2>5 DEF CommitSave
  <2>6. ASSUME NEW c \in Savers, PruneSelect(c) PROVE Shape'
    BY <2>6 DEF PruneSelect
  <2>7. ASSUME NEW c \in Savers, PruneDelete(c) PROVE Shape'
    BY <2>7 DEF PruneDelete
  <2>8. ASSUME NEW c \in Appenders, InsertMessage(c) PROVE Shape'
    BY <2>8 DEF InsertMessage
  <2>9. ASSUME NEW c \in Appenders, TrimSelect(c) PROVE Shape'
    BY <2>9 DEF TrimSelect
  <2>10. ASSUME NEW c \in Appenders, TrimDelete(c) PROVE Shape'
    BY <2>10 DEF TrimDelete
  <2>11. ASSUME NEW c \in Appenders, CommitAppend(c) PROVE Shape'
    BY <2>11 DEF CommitAppend
  <2>12. CASE UNCHANGED vars
    BY <2>12 DEF vars
  <2> QED
    BY <2>1, <2>2, <2>3, <2>4, <2>5, <2>6, <2>7, <2>8, <2>9, <2>10, <2>11, <2>12
       DEF Next, SaveStep, AppendStep
<1> QED BY <1>1, <1>2, PTL DEF Spec

\* A call that is neither in the middle of a Save nor through with one moves on
\* without touching the state, the Saves or the lock.
LEMMA VersionElsewhere ==
    ASSUME Shape, VersionInv, NEW c \in Calls, NEW s \in Stages,
           stage[c] \notin {"session", "state", "done", "failed"},
           s \notin {"session", "state"},
           At(c, s), UNCHANGED <<lock, state, bump, saved>>,
           \A d \in Calls : d # c => stamp'[d] = stamp[d]
    PROVE  VersionInv'
<1> USE DEF Shape, VersionInv, VersionCountsSaves, At
<1>1. \A r \in saved : r.id # c
  OBVIOUS
<1>2. \A r \in saved : r.id \in Calls
  BY DEF Calls
<1>3. state.by # NoOne => state.by # c /\ state.by \in Calls
  BY <1>1, <1>2
<1> QED BY <1>1, <1>2, <1>3

\* Save holds the lock from its first statement to its end, and so reads, bumps
\* and writes the version alone (postgres_store.go:96-131).
LEMMA VersionInductive == Spec => []VersionInv
<1>1. Init => VersionInv
  BY FS_EmptySet DEF Init, VersionInv, VersionCountsSaves
<1>2. Shape /\ VersionInv /\ [Next]_vars => VersionInv'
  <2> SUFFICES ASSUME Shape, VersionInv, [Next]_vars PROVE VersionInv'
    OBVIOUS
  <2>1. ASSUME NEW c \in Calls, BeginTx(c) PROVE VersionInv'
    BY <2>1, VersionElsewhere, "begun" \in Stages DEF BeginTx, Shape, Stages
  <2>2. ASSUME NEW c \in Calls, Fail(c) PROVE VersionInv'
    BY <2>2 DEF Fail, Busy, At, Shape, VersionInv, VersionCountsSaves, Calls
  <2>3. ASSUME NEW c \in Savers, UpsertSession(c) PROVE VersionInv'
    BY <2>3 DEF UpsertSession, At, Shape, VersionInv, VersionCountsSaves, Calls
  <2>4. ASSUME NEW c \in Savers, UpsertState(c) PROVE VersionInv'
    BY <2>4 DEF UpsertState, At, Shape, VersionInv, VersionCountsSaves, Calls
  <2>5. ASSUME NEW c \in Savers, NEW answered \in BOOLEAN, CommitSave(c, answered)
        PROVE  VersionInv'
    <3> DEFINE row == [id |-> c, stamp |-> stamp[c]]
    <3>1. row \notin saved
      BY <2>5 DEF CommitSave, VersionInv
    <3>2. saved' = saved \cup {row} /\ state'.by = c /\ state'.version = bump[c]
      BY <2>5 DEF CommitSave
    <3>3. IsFiniteSet(saved') /\ Cardinality(saved') = Cardinality(saved) + 1
      BY <3>1, <3>2, FS_AddElement DEF VersionInv
    <3>4. bump[c] = state.version + 1 /\ lock = c
      BY <2>5 DEF CommitSave, VersionInv, Calls
    <3>5. VersionCountsSaves'
      <4>1. c # NoOne /\ saved' # {}
        BY <3>2 DEF Calls
      <4> QED BY <3>2, <3>3, <3>4, <4>1 DEF VersionInv, VersionCountsSaves
    <3>6. \A d \in Calls : stage'[d] \notin {"session", "state"}
      BY <2>5, <3>4 DEF CommitSave, At, Shape, VersionInv, Calls
    <3>7. \A r \in saved' : /\ r.id \in Savers
                            /\ stage'[r.id] \in {"done", "failed"}
                            /\ r = [id |-> r.id, stamp |-> stamp'[r.id]]
      BY <2>5, <3>2 DEF CommitSave, At, Shape, VersionInv, Calls
    <3>8. [id |-> state'.by, stamp |-> stamp'[state'.by]] \in saved'
      BY <2>5, <3>2 DEF CommitSave
    <3> QED BY <3>3, <3>5, <3>6, <3>7, <3>8 DEF VersionInv
  <2>6. ASSUME NEW c \in Savers, PruneSelect(c) \/ PruneDelete(c) PROVE VersionInv'
    BY <2>6 DEF PruneSelect, PruneDelete, VersionInv, VersionCountsSaves
  <2>7. ASSUME NEW c \in Appenders, InsertMessage(c) PROVE VersionInv'
    BY <2>7 DEF InsertMessage, VersionInv, VersionCountsSaves
  <2>8. ASSUME NEW c \in Appenders, TrimSelect(c) PROVE VersionInv'
    BY <2>8, VersionElsewhere DEF TrimSelect, Stages, Calls
  <2>9. ASSUME NEW c \in Appenders, TrimDelete(c) PROVE VersionInv'
    BY <2>9, VersionElsewhere DEF TrimDelete, Stages, Calls
  <2>10. ASSUME NEW c \in Appenders, CommitAppend(c) PROVE VersionInv'
    BY <2>10, VersionElsewhere DEF CommitAppend, Stages, Calls
  <2>11. CASE UNCHANGED vars
    BY <2>11 DEF vars, VersionInv, VersionCountsSaves
  <2> QED
    BY <2>1, <2>2, <2>3, <2>4, <2>5, <2>6, <2>7, <2>8, <2>9, <2>10, <2>11
       DEF Next, SaveStep, AppendStep, Calls
<1> QED BY <1>1, <1>2, ShapeInductive, PTL DEF Spec

\* The version of a session's row is the number of Saves that were committed,
\* whatever overlaps, fails or loses its answer (postgres_store.go:108-131).
THEOREM VersionIsSaves == Spec => []VersionCountsSaves
BY VersionInductive, PTL DEF VersionInv
-----------------------------------------------------------------------------
\* The abstract specification counts as this one does.
LEMMA SameCount ==
    \A S : /\ Checkpoints!Cardinality(S) = Cardinality(S)
           /\ Messages!Cardinality(S) = Cardinality(S)
BY DEF Checkpoints!Cardinality, Messages!Cardinality, Cardinality

\* Outdated is what NewestWindow calls superseded.
LEMMA OutdatedIsSuperseded ==
    \A e, S : /\ Outdated(MaxCheckpoints, e, S) => Checkpoints!Superseded(e, S)
              /\ Outdated(MaxMessages, e, S) => Messages!Superseded(e, S)
BY SameCount DEF Outdated, Checkpoints!Superseded, Messages!Superseded

\* More rows keep what was outdated outdated.
LEMMA OutdatedGrows ==
    ASSUME NEW k \in Nat, NEW S, IsFiniteSet(S), NEW R \in SUBSET S, NEW e,
           Outdated(k, e, R)
    PROVE  Outdated(k, e, S)
<1> DEFINE A == {a \in R \ {e} : a.stamp >= e.stamp}
           B == {a \in S \ {e} : a.stamp >= e.stamp}
<1>1. A \subseteq B /\ B \subseteq S
  OBVIOUS
<1>2. IsFiniteSet(B) /\ IsFiniteSet(A)
  BY <1>1, FS_Subset
<1>3. Cardinality(A) <= Cardinality(B)
  BY <1>1, <1>2, FS_Subset
<1>4. Cardinality(A) \in Nat /\ Cardinality(B) \in Nat
  BY <1>2, FS_CardinalityType
<1>5. Cardinality(A) >= k
  BY DEF Outdated
<1>6. Cardinality(B) >= k
  BY <1>3, <1>4, <1>5
<1> QED BY <1>6 DEF Outdated

\* What a delete selects beside the k newest rows has k newer ones, and so has
\* what a list of the k newest leaves out (postgres_store.go:141-151, 253-261).
LEMMA NewestOutdates ==
    ASSUME NEW k \in Nat, NEW rows, IsFiniteSet(rows), NEW keep \in Newest(k, rows),
           NEW e \in rows \ keep
    PROVE  Outdated(k, e, rows)
<1> DEFINE T == {a \in rows \ {e} : a.stamp >= e.stamp}
<1>1. /\ keep \subseteq rows
      /\ \A r \in keep : r.stamp >= e.stamp
      /\ Cardinality(keep) = IF Cardinality(rows) < k THEN Cardinality(rows) ELSE k
  BY DEF Newest
<1>2. Cardinality(keep) # Cardinality(rows)
  BY <1>1, FS_Subset
<1>3. Cardinality(keep) = k
  BY <1>1, <1>2
<1>4. keep \subseteq T /\ T \subseteq rows
  BY <1>1
<1>5. IsFiniteSet(T) /\ Cardinality(keep) <= Cardinality(T)
  BY <1>4, FS_Subset
<1>6. Cardinality(T) \in Nat
  BY <1>5, FS_CardinalityType
<1>7. Cardinality(T) >= k
  BY <1>3, <1>5, <1>6
<1> QED BY <1>7 DEF Outdated

\* Every step keeps CheckpointInv and moves the window of the checkpoints as
\* NewestWindow allows, or not at all (postgres_store.go:122-151).
LEMMA CheckpointStep ==
    ASSUME Shape, VersionInv, CheckpointInv, [Next]_vars
    PROVE  CheckpointInv' /\ (Checkpoints!Move \/ UNCHANGED <<saved, ckpts>>)
<1>1. IsFiniteSet(saved) /\ IsFiniteSet(ckpts) /\ MaxCheckpoints \in Nat
  BY FS_Subset DEF VersionInv, CheckpointInv
<1>2. ASSUME UNCHANGED <<saved, ckpts>>,
             \A c \in Savers : doomed'[c] \subseteq doomed[c]
      PROVE  CheckpointInv'
  BY <1>2 DEF CheckpointInv
<1>3. ASSUME NEW c \in Calls, Fail(c)
      PROVE  CheckpointInv' /\ UNCHANGED <<saved, ckpts>>
  <2>1. \A d \in Savers : doomed'[d] \subseteq doomed[d]
    BY <1>3 DEF Fail, Shape, Calls
  <2> QED BY <1>2, <1>3, <2>1 DEF Fail
<1>4. ASSUME NEW c \in Savers, NEW answered \in BOOLEAN, CommitSave(c, answered)
      PROVE  CheckpointInv' /\ Checkpoints!Move
  <2> DEFINE row == [id |-> c, stamp |-> stamp[c]]
  <2>1. saved' = saved \cup {row} /\ ckpts' = ckpts \cup {row} /\ doomed' = doomed
    BY <1>4 DEF CommitSave
  <2>2. row \notin saved
    BY <1>4 DEF CommitSave, VersionInv
  <2>3. IsFiniteSet(saved')
    BY <1>1, <2>1, FS_AddElement
  <2>4. \A e : Outdated(MaxCheckpoints, e, saved) => Outdated(MaxCheckpoints, e, saved')
    BY <1>1, <2>1, <2>3, OutdatedGrows
  <2>5. CheckpointInv'
    BY <2>1, <2>4 DEF CheckpointInv
  <2>6. ckpts' \subseteq ckpts \cup (saved' \ saved)
    BY <2>1, <2>2
  <2> QED BY <2>1, <2>5, <2>6, OutdatedIsSuperseded DEF CheckpointInv, Checkpoints!Move
<1>5. ASSUME NEW c \in Savers, PruneSelect(c)
      PROVE  CheckpointInv' /\ UNCHANGED <<saved, ckpts>>
  <2>1. PICK keep \in Newest(MaxCheckpoints, ckpts) :
            doomed' = [doomed EXCEPT ![c] = ckpts \ keep]
    BY <1>5 DEF PruneSelect
  <2>2. \A e \in ckpts \ keep : Outdated(MaxCheckpoints, e, ckpts)
    BY <1>1, NewestOutdates
  <2>3. \A e \in ckpts \ keep : Outdated(MaxCheckpoints, e, saved)
    BY <1>1, <2>2, OutdatedGrows DEF CheckpointInv
  <2>4. \A d \in Savers : \A e \in doomed'[d] : Outdated(MaxCheckpoints, e, saved)
    BY <2>1, <2>3 DEF CheckpointInv, Shape, Calls
  <2> QED BY <1>5, <2>4 DEF PruneSelect, CheckpointInv
<1>6. ASSUME NEW c \in Savers, PruneDelete(c)
      PROVE  CheckpointInv' /\ (Checkpoints!Move \/ UNCHANGED <<saved, ckpts>>)
  <2>1. /\ saved' = saved
        /\ ckpts' = ckpts \ doomed[c] \/ ckpts' = ckpts
        /\ \A d \in Savers : doomed'[d] \subseteq doomed[d]
    BY <1>6 DEF PruneDelete, Shape, Calls
  <2>2. \A e \in saved' \ ckpts' : Outdated(MaxCheckpoints, e, saved')
    BY <2>1 DEF CheckpointInv
  <2>3. CheckpointInv'
    BY <2>1, <2>2 DEF CheckpointInv
  <2> QED BY <2>1, <2>2, <2>3, OutdatedIsSuperseded DEF Checkpoints!Move
<1>7. ASSUME NEW c \in Appenders,
             \/ InsertMessage(c) \/ TrimSelect(c) \/ TrimDelete(c) \/ CommitAppend(c)
      PROVE  CheckpointInv' /\ UNCHANGED <<saved, ckpts>>
  <2>1. \A d \in Savers : doomed'[d] = doomed[d]
    BY <1>7 DEF InsertMessage, TrimSelect, TrimDelete, CommitAppend, Shape, Calls
  <2> QED BY <1>2, <1>7, <2>1 DEF InsertMessage, TrimSelect, TrimDelete, CommitAppend
<1>8. ASSUME NEW c \in Calls, BeginTx(c) \/ UpsertSession(c) \/ UpsertState(c)
      PROVE  CheckpointInv' /\ UNCHANGED <<saved, ckpts>>
  BY <1>2, <1>8 DEF BeginTx, UpsertSession, UpsertState
<1>9. CASE UNCHANGED vars
  BY <1>2, <1>9 DEF vars
<1> QED
  BY <1>3, <1>4, <1>5, <1>6, <1>7, <1>8, <1>9 DEF Next, SaveStep, AppendStep, Calls
\* A call that is not done goes on without committing messages.
LEMMA MessageElsewhere ==
    ASSUME Shape, MessageInv, NEW c \in Calls, NEW s, stage[c] # "done",
           At(c, s) \/ UNCHANGED stage, UNCHANGED <<messages, appended>>,
           \A a \in Appenders : doomed'[a] = {} \/ (/\ doomed'[a] = doomed[a]
                                                   /\ own'[a] = own[a]),
           \A a \in Appenders : own'[a] = {} \/ own'[a] = own[a]
    PROVE  MessageInv'
<1>1. \A r \in appended : r.id[1] \in Appenders /\ stage'[r.id[1]] = "done"
  BY DEF MessageInv, At, Shape, Calls
<1>2. \A a \in Appenders : /\ IsFiniteSet(own'[a])
                           /\ \A r \in own'[a] : r.id[1] = a
  BY FS_EmptySet DEF MessageInv
<1>3. \A a \in Appenders : \A e \in doomed'[a] :
          Outdated(MaxMessages, e, appended \cup own'[a])
  BY DEF MessageInv
<1> QED BY <1>1, <1>2, <1>3 DEF MessageInv

\* Every step keeps MessageInv and moves the window of the messages as
\* NewestWindow allows, or not at all (postgres_store.go:210-266).
LEMMA MessageStep ==
    ASSUME Shape, MessageInv, [Next]_vars
    PROVE  MessageInv' /\ (Messages!Move \/ UNCHANGED <<appended, messages>>)
<1>1. ASSUME NEW c \in Calls, BeginTx(c) \/ UpsertSession(c) \/ UpsertState(c)
      PROVE  MessageInv' /\ UNCHANGED <<appended, messages>>
  BY <1>1, MessageElsewhere DEF BeginTx, UpsertSession, UpsertState
<1>2. ASSUME NEW c \in Calls, Fail(c)
      PROVE  MessageInv' /\ UNCHANGED <<appended, messages>>
  <2>1. \A a \in Appenders : \/ doomed'[a] = {} /\ own'[a] = {}
                             \/ doomed'[a] = doomed[a] /\ own'[a] = own[a]
    BY <1>2 DEF Fail, Shape, Calls
  <2> QED BY <1>2, <2>1, MessageElsewhere DEF Fail, Busy
<1>3. ASSUME NEW c \in Savers, NEW answered \in BOOLEAN, CommitSave(c, answered)
      PROVE  MessageInv' /\ UNCHANGED <<appended, messages>>
  BY <1>3, MessageElsewhere DEF CommitSave, Calls
<1>4. ASSUME NEW c \in Savers, PruneSelect(c) \/ PruneDelete(c)
      PROVE  MessageInv' /\ UNCHANGED <<appended, messages>>
  <2>1. \A a \in Appenders : doomed'[a] = doomed[a]
    BY <1>4 DEF PruneSelect, PruneDelete, Shape, Calls
  <2> QED BY <1>4, <2>1 DEF PruneSelect, PruneDelete, MessageInv
<1>5. ASSUME NEW c \in Appenders, InsertMessage(c)
      PROVE  MessageInv' /\ UNCHANGED <<appended, messages>>
  <2>1. UNCHANGED <<stage, appended, messages, doomed>>
    BY <1>5 DEF InsertMessage
  <2>2. PICK row : row.id[1] = c /\ own' = [own EXCEPT ![c] = @ \cup {row}]
    BY <1>5 DEF InsertMessage
  <2>3. /\ own'[c] = own[c] \cup {row}
        /\ \A a \in Appenders \ {c} : own'[a] = own[a]
    BY <2>2 DEF Shape, Calls
  <2>4. IsFiniteSet(own'[c]) /\ IsFiniteSet(appended \cup own'[c])
    <3>1. IsFiniteSet(own[c]) /\ IsFiniteSet(appended)
      BY DEF MessageInv
    <3>2. IsFiniteSet(own[c] \cup {row})
      BY <3>1, FS_AddElement
    <3>3. IsFiniteSet(own'[c])
      BY <2>3, <3>2
    <3> QED BY <3>1, <3>3, FS_Union
  <2>5. \A e \in doomed[c] : Outdated(MaxMessages, e, appended \cup own'[c])
    <3>1. appended \cup own[c] \in SUBSET (appended \cup own'[c])
      BY <2>3
    <3> QED BY <2>4, <3>1, OutdatedGrows DEF MessageInv
  <2>6. \A a \in Appenders :
          /\ IsFiniteSet(own'[a])
          /\ \A r \in own'[a] : r.id[1] = a
          /\ \A e \in doomed'[a] : Outdated(MaxMessages, e, appended \cup own'[a])
    <3> TAKE a \in Appenders
    <3>1. CASE a = c
      <4>1. \A r \in own'[c] : r.id[1] = c
        BY <2>2, <2>3 DEF MessageInv
      <4> QED BY ONLY <2>1, <2>4, <2>5, <3>1, <4>1
    <3>2. CASE a # c
      <4>1. own'[a] = own[a] /\ doomed'[a] = doomed[a]
        BY <2>1, <2>3, <3>2
      <4> QED BY ONLY <4>1, MessageInv, a \in Appenders DEF MessageInv
    <3> QED BY <3>1, <3>2
  <2> QED BY <2>1, <2>6 DEF MessageInv
<1>6. ASSUME NEW c \in Appenders, TrimSelect(c)
      PROVE  MessageInv' /\ UNCHANGED <<appended, messages>>
  <2> DEFINE seen == messages \cup own[c]
  <2>1. /\ UNCHANGED <<appended, messages, own>>
        /\ At(c, "trimming") /\ stage[c] = "begun"
    BY <1>6 DEF TrimSelect
  <2>2. PICK keep \in Newest(MaxMessages, seen) :
            doomed' = [doomed EXCEPT ![c] = seen \ keep]
    BY <1>6 DEF TrimSelect
  <2>3. /\ seen \in SUBSET (appended \cup own[c])
        /\ IsFiniteSet(appended \cup own[c]) /\ IsFiniteSet(seen)
    BY FS_Union, FS_Subset DEF MessageInv
  <2>4. \A e \in seen \ keep : Outdated(MaxMessages, e, seen)
    BY <2>3, NewestOutdates
  <2>5. \A e \in seen \ keep : Outdated(MaxMessages, e, appended \cup own[c])
    BY <2>3, <2>4, OutdatedGrows
  <2>6. \A a \in Appenders : \A e \in doomed'[a] :
            Outdated(MaxMessages, e, appended \cup own[a])
    BY <2>2, <2>5 DEF MessageInv, Shape, Calls
  <2>7. \A r \in appended : stage'[r.id[1]] = "done"
    BY <2>1 DEF MessageInv, At, Shape, Calls
  <2> QED BY <2>1, <2>6, <2>7 DEF MessageInv
<1>7. ASSUME NEW c \in Appenders, TrimDelete(c)
      PROVE  MessageInv' /\ UNCHANGED <<appended, messages>>
  BY <1>7, MessageElsewhere DEF TrimDelete, Calls
<1>8. ASSUME NEW c \in Appenders, CommitAppend(c)
      PROVE  MessageInv' /\ Messages!Move
  <2>1. /\ messages' = (messages \cup own[c]) \ doomed[c]
        /\ appended' = appended \cup own[c]
        /\ own'[c] = {} /\ doomed'[c] = {}
        /\ \A a \in Appenders \ {c} : own'[a] = own[a] /\ doomed'[a] = doomed[a]
        /\ stage[c] = "trimmed"
        /\ stage'[c] = "done" /\ \A d \in Appenders \ {c} : stage'[d] = stage[d]
    BY <1>8 DEF CommitAppend, At, Shape, Calls
  <2>2. own[c] \cap appended = {}
    BY <2>1 DEF MessageInv
  <2>3. IsFiniteSet(appended')
    BY <2>1, FS_Union DEF MessageInv
  <2>4. \A e : Outdated(MaxMessages, e, appended) => Outdated(MaxMessages, e, appended')
    BY <2>1, <2>3, OutdatedGrows
  <2>5. \A e \in appended' \ messages' : Outdated(MaxMessages, e, appended')
    BY <2>1, <2>4 DEF MessageInv
  <2>6. ASSUME NEW a \in Appenders, NEW e \in doomed'[a]
        PROVE  Outdated(MaxMessages, e, appended' \cup own'[a])
    <3>1. a # c /\ own'[a] = own[a] /\ doomed'[a] = doomed[a]
      BY <2>1, <2>6
    <3>2. IsFiniteSet(appended' \cup own[a])
      BY <2>3, FS_Union DEF MessageInv
    <3>3. Outdated(MaxMessages, e, appended \cup own[a])
      BY <2>6, <3>1 DEF MessageInv
    <3>4. appended \cup own[a] \in SUBSET (appended' \cup own[a])
      BY <2>1
    <3> QED BY <3>1, <3>2, <3>3, <3>4, OutdatedGrows
  <2>7. \A a \in Appenders : IsFiniteSet(own'[a]) /\ \A r \in own'[a] : r.id[1] = a
    BY <2>1, FS_EmptySet DEF MessageInv
  <2>8. \A r \in appended' : r.id[1] \in Appenders /\ stage'[r.id[1]] = "done"
    <3>1. \A r \in own[c] : r.id[1] = c
      BY DEF MessageInv
    <3>2. \A r \in appended : r.id[1] \in Appenders /\ stage[r.id[1]] = "done"
      BY DEF MessageInv
    <3> QED BY ONLY <2>1, <3>1, <3>2, c \in Appenders
  <2>9. MessageInv'
    BY <2>1, <2>3, <2>5, <2>6, <2>7, <2>8 DEF MessageInv
  <2>10. messages' \subseteq messages \cup (appended' \ appended)
    BY <2>1, <2>2
  <2> QED BY <2>1, <2>5, <2>9, <2>10, OutdatedIsSuperseded DEF Messages!Move
<1>9. CASE UNCHANGED vars
  BY <1>9 DEF vars, MessageInv
<1> QED
  BY <1>1, <1>2, <1>3, <1>4, <1>5, <1>6, <1>7, <1>8, <1>9
     DEF Next, SaveStep, AppendStep, Calls

LEMMA WindowsInductive == Spec => [](CheckpointInv /\ MessageInv)
<1>1. Init => CheckpointInv /\ MessageInv
  BY FS_EmptySet DEF Init, CheckpointInv, MessageInv, Calls
<1>2. /\ Shape /\ VersionInv /\ CheckpointInv /\ MessageInv /\ [Next]_vars
      => (CheckpointInv /\ MessageInv)'
  BY CheckpointStep, MessageStep
<1> QED BY <1>1, <1>2, ShapeInductive, VersionInductive, PTL DEF Spec

\* Checkpoints and messages implement NewestWindow: overlapping prunes and trims
\* delete nothing that is among the newest (postgres_store.go:122-151, 210-266).
THEOREM WindowsImplemented == Spec => WindowsHold
<1>1. Init => Checkpoints!Init /\ Messages!Init
  BY DEF Init, Checkpoints!Init, Messages!Init
<1>2. Shape /\ VersionInv /\ CheckpointInv /\ MessageInv /\ [Next]_vars
        => /\ [Checkpoints!Move]_<<saved, ckpts>>
           /\ [Messages!Move]_<<appended, messages>>
  BY CheckpointStep, MessageStep
<1> QED
  BY <1>1, <1>2, ShapeInductive, VersionInductive, WindowsInductive, PTL
     DEF Spec, WindowsHold, Checkpoints!Spec, Messages!Spec

\* The state that Load returns is listed and can be loaded as a checkpoint, or
\* enough other Saves with the same or a later time were committed, whatever
\* the clock of the database does (postgres_store.go:124, 141-206).
THEOREM CurrentInTimeline == Spec => []CurrentIsListed
<1>1. VersionInv /\ CheckpointInv => CurrentIsListed
  <2> SUFFICES ASSUME VersionInv, CheckpointInv PROVE CurrentIsListed
    OBVIOUS
  <2> DEFINE newer == {r \in saved : r.id # Load /\ r.stamp >= stamp[Load]}
  <2> SUFFICES ASSUME Load # NoOne, ~(Cardinality(newer) >= MaxCheckpoints)
               PROVE  /\ LoadCheckpoint(Load)
                      /\ \A list \in ListCheckpoints : \E r \in list : r.id = Load
    BY DEF CurrentIsListed
  <2> DEFINE row == [id |-> Load, stamp |-> stamp[Load]]
  <2>1. row \in saved /\ row.id = Load /\ row.stamp = stamp[Load]
    BY DEF Load, VersionInv
  <2>2. \A r \in saved \ {row} : r.id # Load
    BY DEF VersionInv
  <2>3. ~Outdated(MaxCheckpoints, row, saved)
    <3> DEFINE T == {a \in saved \ {row} : a.stamp >= row.stamp}
    <3>1. T \subseteq newer /\ IsFiniteSet(newer)
      BY <2>1, <2>2, FS_Subset DEF VersionInv
    <3>2. IsFiniteSet(T) /\ Cardinality(T) <= Cardinality(newer)
      BY <3>1, FS_Subset
    <3>3. Cardinality(T) \in Nat /\ Cardinality(newer) \in Nat
      BY <3>1, <3>2, FS_CardinalityType
    <3>4. ~(Cardinality(T) >= MaxCheckpoints)
      BY <3>2, <3>3
    <3> QED BY <3>4 DEF Outdated
  <2>4. row \in ckpts
    BY <2>1, <2>3 DEF CheckpointInv
  <2>5. ASSUME NEW list \in ListCheckpoints PROVE row \in list
    <3>1. IsFiniteSet(saved) /\ IsFiniteSet(ckpts) /\ ckpts \in SUBSET saved
      BY FS_Subset DEF VersionInv, CheckpointInv
    <3>2. SUFFICES ASSUME row \notin list PROVE FALSE
      OBVIOUS
    <3>3. Outdated(MaxCheckpoints, row, ckpts)
      BY <2>4, <2>5, <3>1, <3>2, NewestOutdates DEF ListCheckpoints
    <3>4. Outdated(MaxCheckpoints, row, saved)
      BY <3>1, <3>3, OutdatedGrows
    <3> QED BY <2>3, <3>4
  <2> QED BY <2>1, <2>4, <2>5 DEF LoadCheckpoint
<1> QED
  BY <1>1, VersionInductive, WindowsInductive, PTL
-----------------------------------------------------------------------------
(* How many messages there can be *)

\* No more connections are used than the pool has.
PoolInv ==
    /\ IsFiniteSet(Busy) /\ IsFiniteSet(Pruning)
    /\ Cardinality(Busy) + Cardinality(Pruning) <= MaxConns

\* Calls that have selected what they trim and are not committed yet.
Trimming == {c \in Appenders : stage[c] \in {"trimming", "trimmed"}}

\* The messages that none of some calls had before it when it selected.
Beyond(seen, D) == {m \in messages : \A d \in D : m \notin seen[d]}

\* seen[c] is what c had before it when it selected: of that it leaves the limit
\* at most.  What some of the calls have not seen fits into the others' share.
Shares(seen) ==
    /\ \A c \in Trimming :
          /\ own[c] \subseteq seen[c]
          /\ IsFiniteSet(seen[c] \ doomed[c])
          /\ Cardinality(seen[c] \ doomed[c]) <= MaxMessages
    /\ \A D \in SUBSET Trimming :
          Cardinality(Beyond(seen, D)) <= MaxMessages * (MaxConns - Cardinality(D))

ShareInv == \E seen : Shares(seen)

LEMMA ShareSplits ==
    ASSUME NEW k \in Nat
    PROVE  /\ MaxMessages * k \in Nat
           /\ MaxMessages * (k + 1) = MaxMessages * k + MaxMessages
OBVIOUS

\* Begin and Exec take a connection from the pool and wait when there is none
\* (pgx_driver.go:21, 45-59).
LEMMA PoolInductive == Spec => []PoolInv
<1>1. Init => PoolInv
  <2> SUFFICES ASSUME Init PROVE PoolInv
    OBVIOUS
  <2>1. Busy = {} /\ Pruning = {}
    BY DEF Init, Busy, Pruning, Calls
  <2> QED BY <2>1, FS_EmptySet DEF PoolInv
<1>2. Shape /\ PoolInv /\ [Next]_vars => PoolInv'
  <2> SUFFICES ASSUME Shape, PoolInv, [Next]_vars PROVE PoolInv'
    OBVIOUS
  <2>0. Cardinality(Busy) \in Nat /\ Cardinality(Pruning) \in Nat
    BY FS_CardinalityType DEF PoolInv
  <2>1. CASE Busy' \subseteq Busy /\ Pruning' \subseteq Pruning
    <3>1. /\ IsFiniteSet(Busy') /\ Cardinality(Busy') <= Cardinality(Busy)
          /\ IsFiniteSet(Pruning') /\ Cardinality(Pruning') <= Cardinality(Pruning)
      BY <2>1, FS_Subset DEF PoolInv
    <3>2. Cardinality(Busy') \in Nat /\ Cardinality(Pruning') \in Nat
      BY <3>1, FS_CardinalityType
    <3> QED BY <2>0, <3>1, <3>2 DEF PoolInv
  <2>2. ASSUME NEW c \in Calls, BeginTx(c) PROVE PoolInv'
    <3>1. /\ Busy' = Busy \cup {c} /\ c \notin Busy /\ Pruning' = Pruning
          /\ Cardinality(Busy) + Cardinality(Pruning) < MaxConns
      BY <2>2 DEF BeginTx, At, Busy, Pruning, Shape
    <3>2. IsFiniteSet(Busy') /\ Cardinality(Busy') = Cardinality(Busy) + 1
      BY <3>1, FS_AddElement DEF PoolInv
    <3> QED BY <2>0, <3>1, <3>2 DEF PoolInv
  <2>3. ASSUME NEW c \in Savers, PruneSelect(c) PROVE PoolInv'
    <3>1. /\ Pruning' = Pruning \cup {c} /\ c \notin Pruning /\ Busy' = Busy
          /\ Cardinality(Busy) + Cardinality(Pruning) < MaxConns
      BY <2>3 DEF PruneSelect, Busy, Pruning, Shape
    <3>2. IsFiniteSet(Pruning') /\ Cardinality(Pruning') = Cardinality(Pruning) + 1
      BY <3>1, FS_AddElement DEF PoolInv
    <3> QED BY <2>0, <3>1, <3>2 DEF PoolInv
  <2>4. ASSUME NEW c \in Calls,
               \/ Fail(c) \/ UpsertSession(c) \/ UpsertState(c)
               \/ InsertMessage(c) \/ TrimSelect(c) \/ TrimDelete(c) \/ CommitAppend(c)
        PROVE  Busy' \subseteq Busy /\ Pruning' \subseteq Pruning
    <3>1. UNCHANGED pruning /\ \A d \in Calls : stage'[d] = stage[d] \/ d \in Busy
      BY <2>4 DEF Fail, UpsertSession, UpsertState, InsertMessage, TrimSelect, TrimDelete,
                  CommitAppend, At, Busy, Shape
    <3> QED BY <3>1 DEF Busy, Pruning
  <2>5. ASSUME NEW c \in Savers, NEW answered \in BOOLEAN, CommitSave(c, answered)
        PROVE  Busy' \subseteq Busy /\ Pruning' \subseteq Pruning
    BY <2>5 DEF CommitSave, At, Busy, Pruning, Shape, Calls
  <2>6. ASSUME NEW c \in Savers, PruneDelete(c)
        PROVE  Busy' \subseteq Busy /\ Pruning' \subseteq Pruning
    BY <2>6 DEF PruneDelete, Busy, Pruning, Shape
  <2>7. UNCHANGED vars => Busy' \subseteq Busy /\ Pruning' \subseteq Pruning
    BY DEF vars, Busy, Pruning
  <2> QED BY <2>1, <2>2, <2>3, <2>4, <2>5, <2>6, <2>7 DEF Next, SaveStep, AppendStep, Calls
<1> QED BY <1>1, <1>2, ShapeInductive, PTL DEF Spec

\* A step that commits no messages and selects none.
LEMMA ShareElsewhere ==
    ASSUME ShareInv, messages' = messages, Trimming' \subseteq Trimming,
           \A c \in Trimming' : own'[c] = own[c] /\ doomed'[c] = doomed[c]
    PROVE  ShareInv'
<1>1. PICK seen : Shares(seen)
  BY DEF ShareInv
<1>2. \A D : Beyond(seen, D)' = Beyond(seen, D)
  BY DEF Beyond
<1>3. Shares(seen)'
  <2>1. \A c \in Trimming' :
          /\ own'[c] \subseteq seen[c]
          /\ IsFiniteSet(seen[c] \ doomed'[c])
          /\ Cardinality(seen[c] \ doomed'[c]) <= MaxMessages
    BY <1>1 DEF Shares
  <2>2. \A D \in SUBSET Trimming' :
          Cardinality(Beyond(seen, D)') <= MaxMessages * (MaxConns - Cardinality(D))
    BY <1>1, <1>2 DEF Shares
  <2> QED BY <2>1, <2>2 DEF Shares
<1> QED BY <1>3 DEF ShareInv

\* The calls that trim are at most as many as there are connections.
LEMMA TrimmingFits ==
    ASSUME PoolInv, NEW D \in SUBSET Trimming
    PROVE  IsFiniteSet(D) /\ Cardinality(D) \in Nat /\ MaxConns - Cardinality(D) \in Nat
<1>1. D \subseteq Busy
  BY DEF Trimming, Busy, Calls
<1>2. IsFiniteSet(D) /\ Cardinality(D) <= Cardinality(Busy)
  BY <1>1, FS_Subset DEF PoolInv
<1>3. Cardinality(D) \in Nat /\ Cardinality(Busy) \in Nat /\ Cardinality(Pruning) \in Nat
  BY <1>2, FS_CardinalityType DEF PoolInv
<1> QED BY <1>2, <1>3 DEF PoolInv

\* A selection leaves the limit of what it sees, and nothing is beyond it.
LEMMA SelectShares ==
    ASSUME Shape, PoolInv', MessageInv, ShareInv, NEW c \in Appenders, TrimSelect(c)
    PROVE  ShareInv'
<1> DEFINE view == messages \cup own[c]
<1>1. PICK seen : Shares(seen)
  BY DEF ShareInv
<1>0. PICK with : with = [d \in Appenders |-> IF d = c THEN view ELSE seen[d]]
  OBVIOUS
<1>2. /\ UNCHANGED <<messages, own>>
      /\ Trimming' = Trimming \cup {c} /\ c \notin Trimming
  BY DEF TrimSelect, At, Trimming, Shape, Calls
<1>3. PICK keep \in Newest(MaxMessages, view) :
          doomed' = [doomed EXCEPT ![c] = view \ keep]
  BY DEF TrimSelect
<1>4. /\ doomed'[c] = view \ keep
      /\ \A d \in Appenders \ {c} : doomed'[d] = doomed[d]
  BY <1>3 DEF Shape, Calls
<1>5. IsFiniteSet(messages) /\ IsFiniteSet(view)
  BY FS_Union, FS_Subset DEF MessageInv
<1>6. /\ view \ doomed'[c] = keep /\ IsFiniteSet(keep)
      /\ Cardinality(keep) <= MaxMessages
  <2>1. keep \subseteq view
    BY <1>3 DEF Newest
  <2>2. Cardinality(view) \in Nat
    BY <1>5, FS_CardinalityType
  <2>3. Cardinality(keep) <= MaxMessages
    BY <1>3, <2>2 DEF Newest
  <2> QED BY <1>4, <1>5, <2>1, <2>3, FS_Subset
<1>7. \A d \in Trimming' :
          /\ own'[d] \subseteq with[d]
          /\ IsFiniteSet(with[d] \ doomed'[d])
          /\ Cardinality(with[d] \ doomed'[d]) <= MaxMessages
  <2> SUFFICES ASSUME NEW d \in Trimming'
               PROVE  /\ own[d] \subseteq with[d]
                      /\ IsFiniteSet(with[d] \ doomed'[d])
                      /\ Cardinality(with[d] \ doomed'[d]) <= MaxMessages
    BY <1>2
  <2>1. CASE d = c
    BY <1>0, <1>6, <2>1
  <2>2. CASE d # c
    <3>1. d \in Trimming /\ d \in Appenders
      BY <1>2, <2>2 DEF Trimming
    <3>2. with[d] = seen[d] /\ doomed'[d] = doomed[d]
      BY <1>0, <1>4, <2>2, <3>1
    <3> QED BY <1>1, <3>1, <3>2 DEF Shares
  <2> QED BY <2>1, <2>2
<1>8. ASSUME NEW D \in SUBSET Trimming'
      PROVE  Cardinality(Beyond(with, D)') <= MaxMessages * (MaxConns - Cardinality(D))
  <2>1. CASE c \in D
    <3>1. Beyond(with, D)' = {}
      BY <1>0, <1>2, <2>1 DEF Beyond
    <3>2. Cardinality(Beyond(with, D)') = 0
      BY <3>1, FS_EmptySet
    <3>3. MaxConns - Cardinality(D) \in Nat
      <4>1. D \subseteq Busy'
        BY DEF Trimming, Busy, Calls
      <4>2. IsFiniteSet(Busy') /\ IsFiniteSet(Pruning')
            /\ Cardinality(Busy') + Cardinality(Pruning') <= MaxConns
        BY DEF PoolInv
      <4>3. IsFiniteSet(D) /\ Cardinality(D) <= Cardinality(Busy')
        BY <4>1, <4>2, FS_Subset
      <4>4. /\ Cardinality(D) \in Nat /\ Cardinality(Busy') \in Nat
            /\ Cardinality(Pruning') \in Nat
        BY <4>2, <4>3, FS_CardinalityType
      <4> QED BY <4>2, <4>3, <4>4
    <3> QED BY <3>2, <3>3, ShareSplits
  <2>2. CASE c \notin D
    <3>1. D \in SUBSET Trimming
      BY <1>2, <2>2
    <3>2. \A d \in D : with[d] = seen[d]
      BY <1>0, <2>2, <3>1 DEF Trimming
    <3>3. Beyond(with, D)' = Beyond(seen, D)
      BY <1>2, <3>2 DEF Beyond
    <3> QED BY <1>1, <3>1, <3>3 DEF Shares
  <2> QED BY <2>1, <2>2
<1>9. Shares(with)'
  BY <1>7, <1>8 DEF Shares
<1> QED BY <1>9 DEF ShareInv

\* A commit leaves its own share and what it has not seen.
LEMMA CommitShares ==
    ASSUME Shape, PoolInv, MessageInv, ShareInv, NEW c \in Appenders, CommitAppend(c)
    PROVE  ShareInv'
<1>1. PICK seen : Shares(seen)
  BY DEF ShareInv
<1>2. /\ messages' = (messages \cup own[c]) \ doomed[c]
      /\ c \in Trimming /\ Trimming' = Trimming \ {c}
      /\ \A d \in Trimming' : own'[d] = own[d] /\ doomed'[d] = doomed[d]
  <2>1. /\ messages' = (messages \cup own[c]) \ doomed[c]
        /\ stage[c] = "trimmed" /\ stage' = [stage EXCEPT ![c] = "done"]
        /\ own' = [own EXCEPT ![c] = {}] /\ doomed' = [doomed EXCEPT ![c] = {}]
    BY DEF CommitAppend, At
  <2>2. stage'[c] = "done" /\ \A d \in Appenders \ {c} : stage'[d] = stage[d]
    BY <2>1 DEF Shape, Calls
  <2>3. c \in Trimming /\ Trimming' = Trimming \ {c}
    BY <2>1, <2>2 DEF Trimming
  <2>4. \A d \in Appenders \ {c} : own'[d] = own[d] /\ doomed'[d] = doomed[d]
    BY <2>1 DEF Shape, Calls
  <2> QED BY <2>1, <2>3, <2>4 DEF Trimming
<1>3. IsFiniteSet(messages)
  BY FS_Subset DEF MessageInv
<1>4. \A d \in Trimming' :
          /\ own'[d] \subseteq seen[d]
          /\ IsFiniteSet(seen[d] \ doomed'[d])
          /\ Cardinality(seen[d] \ doomed'[d]) <= MaxMessages
  BY <1>1, <1>2 DEF Shares
<1>5. ASSUME NEW D \in SUBSET Trimming'
      PROVE  Cardinality(Beyond(seen, D)') <= MaxMessages * (MaxConns - Cardinality(D))
  <2> DEFINE all == D \cup {c}
             left == seen[c] \ doomed[c]
             rest == Beyond(seen, all)
  <2>1. all \in SUBSET Trimming /\ c \notin D /\ D \in SUBSET Trimming
    BY <1>2
  <2>2. Beyond(seen, D)' \subseteq left \cup rest
    BY <1>1, <1>2 DEF Beyond, Shares
  <2>3. IsFiniteSet(left) /\ Cardinality(left) <= MaxMessages
    BY <1>1, <1>2 DEF Shares
  <2>4. /\ IsFiniteSet(rest)
        /\ Cardinality(rest) <= MaxMessages * (MaxConns - Cardinality(all))
    BY <1>1, <1>3, <2>1, FS_Subset DEF Shares, Beyond
  <2>5. /\ IsFiniteSet(left \cup rest)
        /\ Cardinality(left \cup rest) <= Cardinality(left) + Cardinality(rest)
    <3> HIDE DEF left, rest
    <3>1. /\ IsFiniteSet(left \cup rest)
          /\ Cardinality(left \cup rest)
                = Cardinality(left) + Cardinality(rest) - Cardinality(left \cap rest)
      BY <2>3, <2>4, FS_Union
    <3>2. IsFiniteSet(left \cap rest)
      BY <2>3, FS_Subset
    <3>3. /\ Cardinality(left \cap rest) \in Nat /\ Cardinality(left) \in Nat
          /\ Cardinality(rest) \in Nat
      BY <2>3, <2>4, <3>2, FS_CardinalityType
    <3> QED BY <3>1, <3>3
  <2>6. /\ Cardinality(Beyond(seen, D)') <= Cardinality(left \cup rest)
        /\ IsFiniteSet(Beyond(seen, D)')
    BY <2>2, <2>5, FS_Subset
  <2>7. Cardinality(all) = Cardinality(D) + 1 /\ Cardinality(D) \in Nat
    BY <2>1, TrimmingFits, FS_AddElement
  <2>8. MaxConns - Cardinality(all) \in Nat
    BY <2>1, TrimmingFits
  <2>9. MaxMessages * (MaxConns - Cardinality(D))
          = MaxMessages * (MaxConns - Cardinality(all)) + MaxMessages
    <3>1. MaxConns - Cardinality(D) = (MaxConns - Cardinality(all)) + 1
      BY <2>7
    <3> QED BY <2>8, <3>1, ShareSplits
  <2>10. /\ Cardinality(left) \in Nat /\ Cardinality(rest) \in Nat
         /\ Cardinality(left \cup rest) \in Nat /\ Cardinality(Beyond(seen, D)') \in Nat
         /\ MaxMessages * (MaxConns - Cardinality(all)) \in Nat
    BY <2>3, <2>4, <2>5, <2>6, <2>8, ShareSplits, FS_CardinalityType
  <2> HIDE DEF all, left, rest
  <2> QED BY <2>3, <2>4, <2>5, <2>6, <2>9, <2>10
<1>6. Shares(seen)'
  BY <1>4, <1>5 DEF Shares
<1> QED BY <1>6 DEF ShareInv

\* Every statement keeps the shares (postgres_store.go:210-266).
LEMMA ShareInductive == Spec => []ShareInv
<1>1. Init => ShareInv
  <2> SUFFICES ASSUME Init PROVE ShareInv
    OBVIOUS
  <2>1. Trimming = {}
    BY DEF Init, Trimming, Calls
  <2>2. ASSUME NEW seen, NEW D \in SUBSET Trimming
        PROVE  Cardinality(Beyond(seen, D)) <= MaxMessages * (MaxConns - Cardinality(D))
    <3>1. Beyond(seen, D) = {} /\ D = {}
      BY <2>1 DEF Init, Beyond
    <3>2. Cardinality(Beyond(seen, D)) = 0 /\ MaxConns - Cardinality(D) = MaxConns
      BY <3>1, FS_EmptySet
    <3> QED BY <3>2, ShareSplits
  <2> QED BY <2>1, <2>2 DEF ShareInv, Shares
<1>2. Shape /\ PoolInv /\ PoolInv' /\ MessageInv /\ ShareInv /\ [Next]_vars => ShareInv'
  <2> SUFFICES ASSUME Shape, PoolInv, PoolInv', MessageInv, ShareInv, [Next]_vars
               PROVE  ShareInv'
    OBVIOUS
  <2>1. ASSUME NEW c \in Calls,
               BeginTx(c) \/ UpsertSession(c) \/ UpsertState(c) \/ TrimDelete(c) \/ Fail(c)
        PROVE  ShareInv'
    <3>1. messages' = messages
      BY <2>1 DEF BeginTx, UpsertSession, UpsertState, TrimDelete, Fail
    <3>2. /\ Trimming' \subseteq Trimming
          /\ \A d \in Trimming' : own'[d] = own[d] /\ doomed'[d] = doomed[d]
      BY <2>1 DEF BeginTx, UpsertSession, UpsertState, TrimDelete, Fail, At, Trimming, Shape, Calls
    <3> QED BY <3>1, <3>2, ShareElsewhere
  <2>2. ASSUME NEW c \in Savers, NEW answered \in BOOLEAN,
               CommitSave(c, answered) \/ PruneSelect(c) \/ PruneDelete(c)
        PROVE  ShareInv'
    <3>1. messages' = messages /\ own' = own
      BY <2>2 DEF CommitSave, PruneSelect, PruneDelete
    <3>2. /\ Trimming' \subseteq Trimming
          /\ \A d \in Trimming' : doomed'[d] = doomed[d]
      BY <2>2 DEF CommitSave, PruneSelect, PruneDelete, At, Trimming, Shape, Calls
    <3> QED BY <3>1, <3>2, ShareElsewhere
  <2>3. ASSUME NEW c \in Appenders, InsertMessage(c) PROVE ShareInv'
    <3>1. UNCHANGED <<messages, stage, doomed>> /\ stage[c] = "begun"
      BY <2>3 DEF InsertMessage
    <3>2. \A d \in Appenders \ {c} : own'[d] = own[d]
      BY <2>3 DEF InsertMessage, Shape, Calls
    <3>3. Trimming' = Trimming /\ Trimming \subseteq Appenders \ {c}
      BY <3>1 DEF Trimming
    <3> QED BY <3>1, <3>2, <3>3, ShareElsewhere
  <2>4. CASE UNCHANGED vars
    <3>1. messages' = messages /\ Trimming' = Trimming /\ own' = own /\ doomed' = doomed
      BY <2>4 DEF vars, Trimming
    <3> QED BY <3>1, ShareElsewhere
  <2> QED
    BY <2>1, <2>2, <2>3, <2>4, SelectShares, CommitShares
       DEF Next, SaveStep, AppendStep, Calls
<1> QED BY <1>1, <1>2, ShapeInductive, PoolInductive, WindowsInductive, PTL DEF Spec

\* Overlapping AppendMessages leave no more than the limit for each connection
\* of the pool, though none sees the rows of the others (postgres_store.go:210-266).
THEOREM MessagesStayBounded == Spec => []MessagesBounded
<1>1. PoolInv /\ ShareInv => MessagesBounded
  <2> SUFFICES ASSUME PoolInv, ShareInv PROVE MessagesBounded
    OBVIOUS
  <2>1. PICK seen : Shares(seen)
    BY DEF ShareInv
  <2>2. Beyond(seen, {}) = messages /\ Cardinality({}) = 0 /\ {} \in SUBSET Trimming
    BY FS_EmptySet DEF Beyond
  <2>3. Cardinality(messages) <= MaxMessages * (MaxConns - 0)
    BY <2>1, <2>2 DEF Shares
  <2> QED BY <2>3 DEF MessagesBounded
<1> QED BY <1>1, PoolInductive, ShareInductive, PTL
=============================================================================
