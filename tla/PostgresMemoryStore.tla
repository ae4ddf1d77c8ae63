------------------------ MODULE PostgresMemoryStore -------------------------
(***************************************************************************)
(* storage/postgres_store.go and storage/pgx_driver.go: Save and           *)
(* AppendMessages of one session, statement by statement, each in a        *)
(* transaction of its own, and the prune that Save leaves to a goroutine.  *)
(* PostgreSQL (external) runs them READ COMMITTED: a statement sees what   *)
(* was committed when it began and what its own transaction wrote, and it  *)
(* waits for a row another transaction has written.  NOW() is the time at  *)
(* which the transaction began by the wall clock, in microseconds: the     *)
(* times of two transactions may be equal, and the clock may be set back.  *)
(***************************************************************************)
EXTENDS Naturals, Sequences, FiniteSets

CONSTANTS
    Savers,         \* calls of Save
    Appenders,      \* calls of AppendMessages
    Batch,          \* Batch[a]: the roles of the messages of call a
    MaxCheckpoints, \* PostgresMemoryStore.maxCheckpoints
    MaxMessages,    \* PostgresMemoryStore.maxMessages
    MaxConns,       \* connections of the pool of the one process that is modelled
    Times,          \* times that the wall clock of the database may show
    NoOne           \* not a call

Calls == Savers \cup Appenders

ASSUME PostgresAssumption ==
    /\ Savers \cap Appenders = {}
    /\ NoOne \notin Calls
    /\ Batch \in [Appenders -> Seq({"User", "Assistant"})]
    /\ MaxCheckpoints \in Nat \ {0}
    /\ MaxMessages \in Nat \ {0}
    /\ MaxConns \in Nat \ {0}
    /\ Times \subseteq Nat

VARIABLES
    stage,      \* where each call is
    stamp,      \* NOW() of each call's transaction
    sessions,   \* the row of the session is there
    lock,       \* the call whose transaction has written that row, or NoOne
    state,      \* the row of agent_states: the call that wrote it, and version
    bump,       \* the version a transaction has written and not committed
    ckpts,      \* rows of checkpoints
    pruning,    \* the prune of each Save
    doomed,     \* rows a delete has selected and not committed
    messages,   \* rows of messages
    own,        \* rows a transaction has inserted and not committed
    saved,      \* checkpoints ever committed (history)
    appended    \* messages ever committed (history)

vars == <<stage, stamp, sessions, lock, state, bump, ckpts, pruning, doomed,
          messages, own, saved, appended>>

Init ==
    /\ stage = [c \in Calls |-> "new"]
    /\ stamp = [c \in Calls |-> 0]
    /\ sessions = FALSE
    /\ lock = NoOne
    /\ state = [by |-> NoOne, version |-> 0]
    /\ bump = [c \in Calls |-> 0]
    /\ ckpts = {}
    /\ pruning = [c \in Savers |-> "none"]
    /\ doomed = [c \in Calls |-> {}]
    /\ messages = {}
    /\ own = [c \in Calls |-> {}]
    /\ saved = {}
    /\ appended = {}

At(c, s) == stage' = [stage EXCEPT ![c] = s]

\* Transactions that hold a connection of the pool, and prunes that do.
Busy == {c \in Calls : stage[c] \notin {"new", "done", "failed"}}
Pruning == {c \in Savers : pruning[c] = "deleting"}

\* Begin waits for a free connection.
BeginTx(c) ==
    /\ stage[c] = "new"
    /\ Cardinality(Busy) + Cardinality(Pruning) < MaxConns
    /\ At(c, "begun")
    /\ \E now \in Times : stamp' = [stamp EXCEPT ![c] = now]
    /\ UNCHANGED <<sessions, lock, state, bump, ckpts, pruning, doomed, messages, own,
                   saved, appended>>

\* A statement or the commit fails, and the deferred Rollback runs.
Fail(c) ==
    /\ c \in Busy
    /\ At(c, "failed")
    /\ lock' = IF lock = c THEN NoOne ELSE lock
    /\ bump' = [bump EXCEPT ![c] = 0]
    /\ own' = [own EXCEPT ![c] = {}]
    /\ doomed' = [doomed EXCEPT ![c] = {}]
    /\ UNCHANGED <<stamp, sessions, state, ckpts, pruning, messages, saved, appended>>
-----------------------------------------------------------------------------
(* Save *)

\* INSERT ... ON CONFLICT waits for a transaction that has written the row.
UpsertSession(c) ==
    /\ stage[c] = "begun"
    /\ lock = NoOne
    /\ lock' = c
    /\ At(c, "session")
    /\ UNCHANGED <<stamp, sessions, state, bump, ckpts, pruning, doomed, messages,
                   own, saved, appended>>

\* Mutant: the version of the row is overwritten instead of counted up.
UpsertStateFresh(c) ==
    /\ stage[c] = "session"
    /\ bump' = [bump EXCEPT ![c] = 1]
    /\ At(c, "state")
    /\ UNCHANGED <<stamp, sessions, lock, state, ckpts, pruning, doomed, messages,
                   own, saved, appended>>

\* version = agent_states.version + 1; the version read earlier by whoever made
\* the new state is not compared.
UpsertState(c) ==
    /\ stage[c] = "session"
    /\ bump' = [bump EXCEPT ![c] = state.version + 1]
    /\ At(c, "state")
    /\ UNCHANGED <<stamp, sessions, lock, state, ckpts, pruning, doomed, messages,
                   own, saved, appended>>

\* The checkpoint row is inserted and the transaction committed.  When the answer
\* to the commit is lost Save reports an error and starts no prune.
CommitSave(c, answered) ==
    /\ stage[c] = "state"
    /\ At(c, IF answered THEN "done" ELSE "failed")
    /\ sessions' = TRUE
    /\ lock' = NoOne
    /\ state' = [by |-> c, version |-> bump[c]]
    /\ bump' = [bump EXCEPT ![c] = 0]
    /\ ckpts' = ckpts \cup {[id |-> c, stamp |-> stamp[c]]}
    /\ saved' = saved \cup {[id |-> c, stamp |-> stamp[c]]}
    /\ pruning' = [pruning EXCEPT ![c] = IF answered THEN "due" ELSE "none"]
    /\ UNCHANGED <<stamp, doomed, messages, own, appended>>

\* Mutant: ORDER BY created_at without DESC.
OldestKept(k, rows) ==
    {keep \in SUBSET rows :
        /\ Cardinality(keep) = IF Cardinality(rows) < k THEN Cardinality(rows) ELSE k
        /\ \A r \in keep, d \in rows \ keep : r.stamp <= d.stamp}

\* The k newest of some rows by created_at; rows of one transaction tie, those of
\* two may, and the database may keep any of them.
Newest(k, rows) ==
    {keep \in SUBSET rows :
        /\ Cardinality(keep) = IF Cardinality(rows) < k THEN Cardinality(rows) ELSE k
        /\ \A r \in keep, d \in rows \ keep : r.stamp >= d.stamp}

\* pruneCheckpoints: the delete selects its rows ...
PruneSelect(c) ==
    /\ pruning[c] = "due"
    /\ Cardinality(Busy) + Cardinality(Pruning) < MaxConns
    /\ \E keep \in Newest(MaxCheckpoints, ckpts) :
           doomed' = [doomed EXCEPT ![c] = ckpts \ keep]
    /\ pruning' = [pruning EXCEPT ![c] = "deleting"]
    /\ UNCHANGED <<stage, stamp, sessions, lock, state, bump, ckpts, messages, own,
                   saved, appended>>

\* ... and deletes those that are still there, or fails, which nobody notices.
PruneDelete(c) ==
    /\ pruning[c] = "deleting"
    /\ pruning' = [pruning EXCEPT ![c] = "none"]
    /\ doomed' = [doomed EXCEPT ![c] = {}]
    /\ \/ ckpts' = ckpts \ doomed[c]
       \/ UNCHANGED ckpts
    /\ UNCHANGED <<stage, stamp, sessions, lock, state, bump, messages, own, saved,
                   appended>>
-----------------------------------------------------------------------------
(* AppendMessages *)

\* EmbedText for a user message may fail for any reason; the message is then
\* stored without a vector.
EmbedText(role) == IF role = "User" THEN BOOLEAN ELSE {FALSE}

\* The next message of the batch is inserted; that fails while the session has
\* no row of its own.
InsertMessage(c) ==
    LET n == Cardinality(own[c]) + 1 IN
    /\ stage[c] = "begun"
    /\ n <= Len(Batch[c])
    /\ sessions
    /\ \E vector \in EmbedText(Batch[c][n]) :
           own' = [own EXCEPT ![c] = @ \cup {[id |-> <<c, n>>, stamp |-> stamp[c],
                                              embedded |-> vector]}]
    /\ UNCHANGED <<stage, stamp, sessions, lock, state, bump, ckpts, pruning,
                   doomed, messages, saved, appended>>

\* Mutant: the trim runs before the inserts.
TrimBlind(c) ==
    /\ stage[c] = "begun"
    /\ Cardinality(own[c]) = Len(Batch[c])
    /\ \E keep \in Newest(MaxMessages, messages) :
           doomed' = [doomed EXCEPT ![c] = messages \ keep]
    /\ At(c, "trimming")
    /\ UNCHANGED <<stamp, sessions, lock, state, bump, ckpts, pruning, messages, own,
                   saved, appended>>

\* The trim selects the rows it will delete among those it sees ...
TrimSelect(c) ==
    LET seen == messages \cup own[c] IN
    /\ stage[c] = "begun"
    /\ Cardinality(own[c]) = Len(Batch[c])
    /\ \E keep \in Newest(MaxMessages, seen) :
           doomed' = [doomed EXCEPT ![c] = seen \ keep]
    /\ At(c, "trimming")
    /\ UNCHANGED <<stamp, sessions, lock, state, bump, ckpts, pruning, messages, own,
                   saved, appended>>

\* ... and waits for rows that another transaction is deleting.
TrimDelete(c) ==
    /\ stage[c] = "trimming"
    /\ \A d \in Appenders : stage[d] = "trimmed" => doomed[d] \cap doomed[c] = {}
    /\ At(c, "trimmed")
    /\ UNCHANGED <<stamp, sessions, lock, state, bump, ckpts, pruning, doomed,
                   messages, own, saved, appended>>

CommitAppend(c) ==
    /\ stage[c] = "trimmed"
    /\ At(c, "done")
    /\ messages' = (messages \cup own[c]) \ doomed[c]
    /\ appended' = appended \cup own[c]
    /\ own' = [own EXCEPT ![c] = {}]
    /\ doomed' = [doomed EXCEPT ![c] = {}]
    /\ UNCHANGED <<stamp, sessions, lock, state, bump, ckpts, pruning, saved>>
-----------------------------------------------------------------------------
(* What the reading operations return *)

\* The call whose state Load returns, NoOne when the session is not found.
Load == state.by

\* Whether LoadCheckpoint finds the checkpoint of a call.
LoadCheckpoint(c) == \E r \in ckpts : r.id = c

\* The sets of rows ListCheckpoints may return.
ListCheckpoints == Newest(MaxCheckpoints, ckpts)
-----------------------------------------------------------------------------
SaveStep(c) ==
    \/ BeginTx(c) \/ UpsertSession(c) \/ UpsertState(c)
    \/ \E answered \in BOOLEAN : CommitSave(c, answered)
    \/ PruneSelect(c) \/ PruneDelete(c)

AppendStep(c) ==
    \/ BeginTx(c) \/ InsertMessage(c) \/ TrimSelect(c) \/ TrimDelete(c) \/ CommitAppend(c)

Next ==
    \/ \E c \in Savers : SaveStep(c)
    \/ \E c \in Appenders : AppendStep(c)
    \/ \E c \in Calls : Fail(c)

Spec == Init /\ [][Next]_vars
-----------------------------------------------------------------------------
(* Properties *)

\* The version in agent_states counts the Saves that were committed, whatever
\* overlaps, is rolled back or loses its answer: no bump is lost and none is
\* left of a transaction that failed.
VersionCountsSaves ==
    /\ state.version = Cardinality(saved)
    /\ state.by = NoOne <=> saved = {}

Checkpoints == INSTANCE NewestWindow WITH
    Max <- MaxCheckpoints, accepted <- saved, kept <- ckpts

Messages == INSTANCE NewestWindow WITH
    Max <- MaxMessages, accepted <- appended, kept <- messages

\* The checkpoints are a window on the newest Saves by the time they began,
\* though prunes come late and overlap with Saves and with each other: none is
\* deleted before maxCheckpoints others at least as new were committed.  The
\* same holds for messages, whose trims only see what was committed before them;
\* messages of one batch count as equally new, and a trim may keep any of them.
WindowsHold == Checkpoints!Spec /\ Messages!Spec

\* What Load returns can be found in the timeline, before and after prunes: its
\* checkpoint is listed and can be loaded, unless maxCheckpoints other Saves
\* were committed whose time is the same or later, because they began after it
\* and overtook it, or because the clock stood still or was set back
\* (postgres_store.go:124, 145-150, 187-191).
CurrentIsListed ==
    Load # NoOne =>
        \/ /\ LoadCheckpoint(Load)
           /\ \A list \in ListCheckpoints : \E r \in list : r.id = Load
        \/ Cardinality({r \in saved : r.id # Load /\ r.stamp >= stamp[Load]})
              >= MaxCheckpoints

\* Overlapping AppendMessages do not see each other's rows, so that together
\* they leave more than maxMessages; the pool of the process limits how many
\* overlap (processes that share a database have a pool each).
MessagesBounded == Cardinality(messages) <= MaxMessages * MaxConns
=============================================================================
