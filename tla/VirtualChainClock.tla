------------------------- MODULE VirtualChainClock -------------------------
(***************************************************************************)
(* The wall-clock side of VirtualChain (src/chains/adapter.go) and of     *)
(* ChainLogDB.GetLatestBlockInfo (src/store/store.go): when a block is    *)
(* produced, what time it carries, and how a (re)started process decides  *)
(* how long to wait before its first block.  Time is a counter of whole   *)
(* seconds the environment advances; which rounds find transactions is    *)
(* left open, so the contents of blocks are not modelled (VirtualChain    *)
(* models them).  The process may die at any moment and is restarted.     *)
(***************************************************************************)
EXTENDS Naturals, Sequences

CONSTANTS
    BlockInterval,  \* v.BlockInterval, in seconds
    MaxTime         \* the last second of a behaviour

ASSUME BlockInterval \in Nat \ {0} /\ MaxTime \in Nat

VARIABLES
    now,        \* time.Now().Unix()
    pc,         \* "stopped", "first" (Start: sleeping before the forced round), "running" (ticker loop)
    wakeAt,     \* when the sleep of Start ends
    nextTick,   \* when the ticker delivers its next tick
    blocks      \* stored blocks, oldest first: [ts : Timestamp, size : Size, first : made by Start's round]

vars == <<now, pc, wakeAt, nextTick, blocks>>

\* An empty database: the first process has not produced a block.
Init ==
    /\ now = 0
    /\ pc = "stopped"
    /\ wakeAt = 0
    /\ nextTick = 0
    /\ blocks = <<>>

\* GetLatestBlockInfo's timestamp: time.Now() for an empty database, else
\* the Timestamp field of the head block.
GetLatestBlockInfoTimestamp ==
    IF blocks = <<>> THEN now ELSE blocks[Len(blocks)].ts

\* GenerateNewBlock: currentBlockTimestamp := time.Now().Unix(); the block
\* carries Timestamp 0 and the time in Size, and is stored.
NewBlock(first) ==
    blocks' = Append(blocks, [ts |-> 0, size |-> now, first |-> first])

-----------------------------------------------------------------------------

\* A second passes.
Tick ==
    /\ now < MaxTime
    /\ now' = now + 1
    /\ UNCHANGED <<pc, wakeAt, nextTick, blocks>>

\* Start: RecoveryFromDB reads the head's timestamp; a timestamp in the
\* future panics; the forced round runs at once if the downtime is at
\* least the interval, else after sleeping the remainder.
Start ==
    /\ pc = "stopped"
    /\ LET ts == GetLatestBlockInfoTimestamp
           downtime == now - ts
       IN /\ now >= ts
          /\ pc' = "first"
          /\ wakeAt' = IF downtime >= BlockInterval THEN now
                       ELSE now + (BlockInterval - downtime)
    /\ UNCHANGED <<now, nextTick, blocks>>

\* After the sleep: GenerateNewBlock(true), which always stores a block,
\* then the ticker is created.
FirstBlock ==
    /\ pc = "first"
    /\ now >= wakeAt
    /\ NewBlock(TRUE)
    /\ nextTick' = now + BlockInterval
    /\ pc' = "running"
    /\ UNCHANGED <<now, wakeAt>>

\* A tick of the ticker: GenerateNewBlock, which stores a block on a forced
\* round or when the scanner found transactions, and otherwise returns.
TickerFire ==
    /\ pc = "running"
    /\ now >= nextTick
    /\ nextTick' = nextTick + BlockInterval
    /\ \/ NewBlock(FALSE)
       \/ UNCHANGED blocks
    /\ UNCHANGED <<now, pc, wakeAt>>

\* The process dies (a panic, SIGTERM) and its supervisor restarts it later.
Crash ==
    /\ pc # "stopped"
    /\ pc' = "stopped"
    /\ UNCHANGED <<now, wakeAt, nextTick, blocks>>

Next == Tick \/ Start \/ FirstBlock \/ TickerFire \/ Crash

Spec == Init /\ [][Next]_vars

-----------------------------------------------------------------------------

\* Spec 4.4: on start, the head's production time is recovered and the
\* first block comes only once a whole interval has passed since it ("sleep
\* the remainder of the interval"); spec 3 says that time is kept in the
\* repurposed field.  So the first block of every (re)started process is
\* produced at least BlockInterval after the block before it.
RestartWaitsInterval ==
    \A k \in 2..Len(blocks) :
        blocks[k].first => blocks[k].size - blocks[k - 1].size >= BlockInterval

=============================================================================
