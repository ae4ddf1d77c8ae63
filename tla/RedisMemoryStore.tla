-------------------------- MODULE RedisMemoryStore --------------------------
(***************************************************************************)
(* storage/redis_store.go over storage/redis_driver.go, for one session:   *)
(* the keys of different sessions are disjoint.  TxExec is a pipeline, so   *)
(* every Redis command is a step of its own, and a broken connection leaves *)
(* the commands executed so far.  Each Save call writes a state of its own; *)
(* the call stands for the state, and for the fresh checkpoint id.  Redis   *)
(* is assumed to execute every command that reaches it.                    *)
(***************************************************************************)
EXTENDS Integers, Sequences, FiniteSets

CONSTANTS
    Saves,          \* calls of Save
    Appends,        \* calls of AppendMessages
    Batch,          \* Batch[a]: how many messages call a appends
    NoState,        \* no value under the session's state key
    maxCheckpoints, \* RedisMemoryStore.maxCheckpoints
    maxMessages,    \* RedisMemoryStore.maxMessages
    MaxClock        \* model bound: milliseconds that pass

ASSUME RedisAssumption ==
    /\ IsFiniteSet(Saves)
    /\ NoState \notin Saves
    /\ maxCheckpoints \in Nat \ {0}
    /\ maxMessages \in Nat \ {0}
    /\ Batch \in [Appends -> Nat]
    /\ MaxClock \in Nat

VARIABLES
    clock,      \* milliseconds
    pc,         \* pc[c]: the next command of Save call c
    now,        \* now[c]: the time Save took when it was called
    stateKey,   \* the value of the state key
    ckptData,   \* checkpoints whose data key exists
    index,      \* the sorted set of checkpoints, scored by now
    indexed,    \* checkpoints that were ever added to it (history)
    expired,    \* checkpoints whose data key ran out (history)
    sent,       \* sent[a]: messages that AppendMessages call a has pushed
    ended,      \* calls of AppendMessages that have returned
    messages,   \* the list of messages
    pushed      \* every message pushed, in order (history)

saveVars == <<pc, now, stateKey, ckptData, index, indexed, expired>>
messageVars == <<sent, ended, messages, pushed>>
vars == <<clock, saveVars, messageVars>>

Init ==
    /\ clock = 0
    /\ pc = [c \in Saves |-> "new"]
    /\ now = [c \in Saves |-> 0]
    /\ stateKey = NoState
    /\ ckptData = {}
    /\ index = {}
    /\ indexed = {}
    /\ expired = {}
    /\ sent = [a \in Appends |-> 0]
    /\ ended = {}
    /\ messages = <<>>
    /\ pushed = <<>>

Tick ==
    /\ clock < MaxClock
    /\ clock' = clock + 1
    /\ UNCHANGED <<saveVars, messageVars>>
-----------------------------------------------------------------------------
(***************************************************************************)
(* Save: the state, the checkpoint's data, the index, and then a goroutine *)
(* that prunes.                                                            *)
(***************************************************************************)
Begin(c) ==
    /\ pc[c] = "new"
    /\ pc' = [pc EXCEPT ![c] = "set"]
    /\ now' = [now EXCEPT ![c] = clock]
    /\ UNCHANGED <<clock, stateKey, ckptData, index, indexed, expired, messageVars>>

SetState(c) ==
    /\ pc[c] = "set"
    /\ pc' = [pc EXCEPT ![c] = "data"]
    /\ stateKey' = c
    /\ UNCHANGED <<clock, now, ckptData, index, indexed, expired, messageVars>>

\* Mutant: the checkpoint's data is forgotten.
SetNothing(c) ==
    /\ pc[c] = "data"
    /\ pc' = [pc EXCEPT ![c] = "index"]
    /\ UNCHANGED <<clock, now, stateKey, ckptData, index, indexed, expired, messageVars>>

SetData(c) ==
    /\ pc[c] = "data"
    /\ pc' = [pc EXCEPT ![c] = "index"]
    /\ ckptData' = ckptData \cup {c}
    /\ UNCHANGED <<clock, now, stateKey, index, indexed, expired, messageVars>>

AddToIndex(c) ==
    /\ pc[c] = "index"
    /\ pc' = [pc EXCEPT ![c] = "prune"]
    /\ index' = index \cup {c}
    /\ indexed' = indexed \cup {c}
    /\ UNCHANGED <<clock, now, stateKey, ckptData, expired, messageVars>>

\* ZREMRANGEBYRANK leaves the highest ranks.  The members of one score are
\* ordered by their random ids, so which of them rank higher is open.
HighestRanks(n) ==
    {keep \in SUBSET index :
        /\ Cardinality(keep) = IF Cardinality(index) < n THEN Cardinality(index) ELSE n
        /\ \A k \in keep, d \in index \ keep : now[k] >= now[d]}

\* Mutant: the last rank is removed too.
RanksKeptShort == HighestRanks(maxCheckpoints - 1)

\* What the ranks 0 .. -maxCheckpoints-1 leave.
RanksKept == HighestRanks(maxCheckpoints)

\* Mutant: the goroutine is not started.
PruneNever(c) ==
    /\ pc[c] = "prune"
    /\ pc' = [pc EXCEPT ![c] = "done"]
    /\ UNCHANGED <<clock, now, stateKey, ckptData, index, indexed, expired, messageVars>>

pruneCheckpoints(c) ==
    /\ pc[c] = "prune"
    /\ pc' = [pc EXCEPT ![c] = "done"]
    /\ index' \in RanksKept
    /\ UNCHANGED <<clock, now, stateKey, ckptData, indexed, expired, messageVars>>

\* The connection breaks: Save returns an error, after AddToIndex the answer is
\* lost.  Nothing is pruned.  A command runs at most once here; go-redis by
\* default sends a failed pipeline again (redis_driver.go:16-24 leaves
\* MaxRetries alone), so that its commands may run twice.
Break(c) ==
    /\ pc[c] \in {"set", "data", "index", "prune"}
    /\ pc' = [pc EXCEPT ![c] = "broken"]
    /\ UNCHANGED <<clock, now, stateKey, ckptData, index, indexed, expired, messageVars>>

ExpireState ==
    /\ stateKey # NoState
    /\ stateKey' = NoState
    /\ UNCHANGED <<clock, pc, now, ckptData, index, indexed, expired, messageVars>>

\* Mutant: both keys live equally long.
OutlivesNothing(c) == c = c

\* Data keys live twice as long as the state key that is written just before.
OutlivesState(c) == stateKey # c

ExpireData(c) ==
    /\ c \in ckptData
    /\ OutlivesState(c)
    /\ ckptData' = ckptData \ {c}
    /\ expired' = expired \cup {c}
    /\ UNCHANGED <<clock, pc, now, stateKey, index, indexed, messageVars>>
-----------------------------------------------------------------------------
(***************************************************************************)
(* AppendMessages: one RPush per message, then LTrim.                      *)
(***************************************************************************)
Push(a) ==
    /\ a \notin ended
    /\ sent[a] < Batch[a]
    /\ sent' = [sent EXCEPT ![a] = @ + 1]
    /\ LET m == <<a, sent[a] + 1>> IN
          /\ messages' = Append(messages, m)
          /\ pushed' = Append(pushed, m)
    /\ UNCHANGED <<clock, saveVars, ended>>

Last(seq, n) == IF Len(seq) <= n THEN seq ELSE SubSeq(seq, Len(seq) - n + 1, Len(seq))

\* Mutant: the oldest messages are kept.
TrimmedAtEnd == SubSeq(messages, 1, IF Len(messages) < maxMessages THEN Len(messages)
                                    ELSE maxMessages)

Trimmed == Last(messages, maxMessages)

LTrim(a) ==
    /\ a \notin ended
    /\ sent[a] = Batch[a]
    /\ messages' = Trimmed
    /\ ended' = ended \cup {a}
    /\ UNCHANGED <<clock, saveVars, sent, pushed>>

\* RPush or LTrim fails and AppendMessages returns.
AppendFails(a) ==
    /\ a \notin ended
    /\ ended' = ended \cup {a}
    /\ UNCHANGED <<clock, saveVars, sent, messages, pushed>>

Next ==
    \/ Tick
    \/ \E c \in Saves : \/ Begin(c) \/ SetState(c) \/ SetData(c) \/ AddToIndex(c)
                        \/ pruneCheckpoints(c) \/ Break(c) \/ ExpireData(c)
    \/ ExpireState
    \/ \E a \in Appends : Push(a) \/ LTrim(a) \/ AppendFails(a)

Spec == Init /\ [][Next]_vars
-----------------------------------------------------------------------------
(***************************************************************************)
(* Properties.                                                             *)
(***************************************************************************)
\* The shape of the state; the proofs use it.
TypeOK ==
    /\ clock \in Nat
    /\ pc \in [Saves -> {"new", "set", "data", "index", "prune", "done", "broken"}]
    /\ now \in [Saves -> Nat]
    /\ stateKey \in Saves \cup {NoState}
    /\ ckptData \subseteq Saves
    /\ index \subseteq indexed
    /\ indexed \subseteq Saves
    /\ expired \subseteq Saves

Entry(c) == [id |-> c, stamp |-> now[c]]

\* The checkpoint index is a window on the newest Saves, though Saves overlap,
\* clocks stand still, pipelines break and prunes come late.
Window == INSTANCE NewestWindow WITH
    Max <- maxCheckpoints,
    accepted <- {Entry(c) : c \in indexed},
    kept <- {Entry(c) : c \in index}

IndexIsWindow == Window!Spec

\* A checkpoint that is listed can be loaded, unless its time to live is over:
\* the timeline only leaves out what has expired (inspector.go:42-45).
ListedLoadable == index \subseteq ckptData \cup expired

\* What Load returns can be found as a checkpoint too, except in the middle of
\* its Save: the data key neither comes too late nor expires before it.
StateHasCheckpoint ==
    stateKey = NoState \/ stateKey \in ckptData \/ pc[stateKey] \in {"data", "broken"}

\* The index never outgrows its limit by more than the Saves whose goroutine is
\* still to prune, or whose answer was lost.
IndexBounded ==
    Cardinality(index) <=
        maxCheckpoints + Cardinality({c \in indexed : pc[c] \in {"prune", "broken"}})

\* The list is the end of what was pushed, and never shorter than the limit
\* allows: a trim of one caller takes no recent message of another.
MessagesAreNewest ==
    /\ messages = Last(pushed, Len(messages))
    /\ Len(messages) >= maxMessages \/ messages = pushed
=============================================================================
