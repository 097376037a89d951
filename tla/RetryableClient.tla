--------------------------- MODULE RetryableClient ---------------------------
(***************************************************************************)
(* The retry wrapper of src/bch/client.go around the source node's RPCs,  *)
(* seen through its caller BchScanner.GetConfirmations (src/scanner/      *)
(* bch.go), which turns an error into -1.  Every wrapper is the same loop: *)
(* for i := 0; i < maxRetry; i++ { call; if err == nil return; Delay() }; *)
(* return the last error.  A step is one attempt or one Delay, so the     *)
(* node may change between any two.  An attempt either reaches the node,  *)
(* which knows the tx (its depth) or answers "not found", or fails in the *)
(* network; the network fails at most MaxNetFails attempts of a call.     *)
(* The node (not code of this repository) accepts, mines, buries and      *)
(* evicts txs.                                                            *)
(***************************************************************************)
EXTENDS Naturals, Integers

CONSTANTS
    Callers,        \* goroutines calling GetConfirmations (API handlers)
    Txids,          \* txs asked about
    MaxRetry,       \* maxRetry (999 in NewBchScanner)
    MaxNetFails,    \* network failures the environment injects into one call
    MaxDepth        \* deepest confirmation count the node reaches

ASSUME MaxRetry \in Nat \ {0} /\ MaxNetFails \in Nat /\ MaxDepth \in Nat \ {0}

VARIABLES
    conf,   \* conf[t]: the node's view of t: NotFound, 0 in the mempool, k mined k deep
    pc,     \* pc[c]: "idle", "attempt" (about to call), "delay" (in r.Delay()), "done"
    arg,    \* arg[c]: the tx of c's call
    i,      \* i[c]: the loop counter of the wrapper
    nfail,  \* nfail[c]: network failures so far in c's call
    res,    \* res[c]: what GetConfirmations returned
    seen    \* seen[c]: the answers the node would have given at some instant of c's call

vars == <<conf, pc, arg, i, nfail, res, seen>>

\* The node's "No information available about transaction" error (-5).
NotFound == -1

Answers == {NotFound} \cup 0..MaxDepth

TypeOK ==
    /\ conf \in [Txids -> Answers]
    /\ pc \in [Callers -> {"idle", "attempt", "delay", "done"}]
    /\ arg \in [Callers -> Txids]
    /\ i \in [Callers -> 0..MaxRetry]
    /\ nfail \in [Callers -> 0..MaxNetFails]
    /\ res \in [Callers -> Answers]
    /\ seen \in [Callers -> SUBSET Answers]

Init ==
    /\ conf \in [Txids -> Answers]
    /\ pc = [c \in Callers |-> "idle"]
    /\ arg \in [Callers -> Txids]
    /\ i = [c \in Callers |-> 0]
    /\ nfail = [c \in Callers |-> 0]
    /\ res = [c \in Callers |-> NotFound]
    /\ seen = [c \in Callers |-> {}]

-----------------------------------------------------------------------------
(* The source node *)

\* A node step sets conf'; every call in progress records the new answer.
NodeStep(newConf) ==
    /\ conf' = newConf
    /\ seen' = [c \in Callers |-> IF pc[c] \in {"attempt", "delay"}
                                  THEN seen[c] \cup {newConf[arg[c]]} ELSE seen[c]]
    /\ UNCHANGED <<pc, arg, i, nfail, res>>

\* t enters the mempool (broadcast, or re-broadcast after an eviction).
Accept(t) == conf[t] = NotFound /\ NodeStep([conf EXCEPT ![t] = 0])

\* t leaves the mempool unmined (double spent, expired).
Evict(t) == conf[t] = 0 /\ NodeStep([conf EXCEPT ![t] = NotFound])

\* A block is mined with the mempool txs S; every mined tx gets one deeper.
MineBlock(S) ==
    /\ \A t \in S : conf[t] = 0
    /\ \A t \in Txids : conf[t] > 0 => conf[t] < MaxDepth
    /\ NodeStep([t \in Txids |-> IF t \in S \/ conf[t] > 0 THEN conf[t] + 1 ELSE conf[t]])

-----------------------------------------------------------------------------
(* GetConfirmations over the retry wrapper *)

\* GetConfirmations(t): the call of Client.GetRawTransactionVerbose starts
\* its loop with i = 0.
GetConfirmations(c, t) ==
    /\ pc[c] \in {"idle", "done"}
    /\ pc' = [pc EXCEPT ![c] = "attempt"]
    /\ arg' = [arg EXCEPT ![c] = t]
    /\ i' = [i EXCEPT ![c] = 0]
    /\ nfail' = [nfail EXCEPT ![c] = 0]
    /\ seen' = [seen EXCEPT ![c] = {conf[t]}]
    /\ UNCHANGED <<conf, res>>

\* An attempt the node answers with the tx: err == nil, the wrapper
\* returns, GetConfirmations returns int32(res.Confirmations).
AttemptFound(c) ==
    /\ pc[c] = "attempt"
    /\ conf[arg[c]] # NotFound
    /\ res' = [res EXCEPT ![c] = conf[arg[c]]]
    /\ pc' = [pc EXCEPT ![c] = "done"]
    /\ UNCHANGED <<conf, arg, i, nfail, seen>>

\* An attempt that returns an error, the node's "not found" or a network
\* failure: r.Delay() follows, then i++.
Failed(c) ==
    /\ pc' = [pc EXCEPT ![c] = "delay"]
    /\ i' = [i EXCEPT ![c] = @ + 1]
    /\ UNCHANGED <<conf, arg, res, seen>>

\* Mutant: a "not found" answer is not counted as a failed attempt.
AttemptNotFoundUncounted(c) ==
    /\ pc[c] = "attempt"
    /\ conf[arg[c]] = NotFound
    /\ pc' = [pc EXCEPT ![c] = "delay"]
    /\ UNCHANGED <<conf, arg, i, nfail, res, seen>>

AttemptNotFound(c) ==
    /\ pc[c] = "attempt"
    /\ conf[arg[c]] = NotFound
    /\ Failed(c)
    /\ UNCHANGED nfail

AttemptNetErr(c) ==
    /\ pc[c] = "attempt"
    /\ nfail[c] < MaxNetFails
    /\ nfail' = [nfail EXCEPT ![c] = @ + 1]
    /\ Failed(c)

\* Mutant: the loop condition is lost; the wrapper retries until success.
RetryUnbounded(c) ==
    /\ pc[c] = "delay"
    /\ pc' = [pc EXCEPT ![c] = "attempt"]
    /\ UNCHANGED <<conf, arg, i, nfail, res, seen>>

\* Mutant: the loop stops one attempt early.
RetryOneShort(c) ==
    /\ pc[c] = "delay"
    /\ IF i[c] + 1 < MaxRetry
       THEN pc' = [pc EXCEPT ![c] = "attempt"] /\ UNCHANGED res
       ELSE /\ pc' = [pc EXCEPT ![c] = "done"]
            /\ res' = [res EXCEPT ![c] = -1]
    /\ UNCHANGED <<conf, arg, i, nfail, seen>>

\* After the Delay, the loop condition i < maxRetry: attempt again, or
\* return the last error, which GetConfirmations turns into -1.
Retry(c) ==
    /\ pc[c] = "delay"
    /\ IF i[c] < MaxRetry
       THEN pc' = [pc EXCEPT ![c] = "attempt"] /\ UNCHANGED res
       ELSE /\ pc' = [pc EXCEPT ![c] = "done"]
            /\ res' = [res EXCEPT ![c] = -1]
    /\ UNCHANGED <<conf, arg, i, nfail, seen>>

Next ==
    \/ \E t \in Txids : Accept(t) \/ Evict(t)
    \/ \E S \in SUBSET Txids : MineBlock(S)
    \/ \E c \in Callers :
         \/ \E t \in Txids : GetConfirmations(c, t)
         \/ AttemptFound(c) \/ AttemptNotFound(c) \/ AttemptNetErr(c)
         \/ Retry(c)

\* A calling goroutine keeps running; the node and the network are not fair.
Spec == Init /\ [][Next]_vars
             /\ \A c \in Callers : WF_vars(AttemptFound(c) \/ AttemptNotFound(c) \/ Retry(c))

-----------------------------------------------------------------------------
(* Properties *)

\* GetConfirmations is linearizable (spec 4.3: "not-found => -1, found =>
\* reported depth"): what a finished call returned, -1 included, is what
\* the node would have answered at some instant between the call and its
\* return, however the node changed and the network failed in between.
ConfirmationsLinearizable ==
    \A c \in Callers : pc[c] = "done" => res[c] \in seen[c]

\* Every GetConfirmations call returns: the retry loop ends whatever the
\* node answers, so an API handler asking about a dropped tx is not held
\* for ever.
CallReturns == \A c \in Callers : pc[c] = "attempt" ~> pc[c] = "done"

=============================================================================
