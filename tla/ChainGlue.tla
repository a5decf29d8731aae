----------------------------- MODULE ChainGlue -----------------------------
(***************************************************************************)
(* The chain glue of the tools (common.js) on top of the nodes: calls of   *)
(* signAndSend that run side by side, each with its promise and its watch  *)
(* on the extrinsic, and a waitFor loop, all over one connection to one    *)
(* node.  polkadot-js (external) reads nonce and anchor, signs, submits    *)
(* and passes the pool's status reports on.                                *)
(***************************************************************************)
EXTENDS Node

CONSTANTS
    Rpc,                    \* the node behind DEFAULT_WS
    MaxCalls,               \* bound: the most calls of signAndSend in a script
    TimeoutSlots            \* timeoutMs of waitFor, in slots

ASSUME GlueAssumption ==
    /\ Rpc \in Nodes /\ MaxCalls \in Nat /\ TimeoutSlots \in Nat
    /\ \A x \in Budgets : Len(x.script) <= MaxCalls

VARIABLES
    calls,                  \* [Caller -> the state of a call's promise and watch]
    wait                    \* the waitFor loop

glueVars == <<nodeVars, calls, wait>>

Caller == 1..MaxCalls
Started == 1..Len(budget.script)       \* the calls this behaviour makes

None == "none"
NoCall == [phase |-> "idle", tx |-> None, watch |-> FALSE, report |-> <<>>]
NoWait == [phase |-> "idle", deadline |-> 0, height |-> 0]

GlueInit == NodeInit /\ calls = [c \in Caller |-> NoCall] /\ wait = NoWait

-----------------------------------------------------------------------------
(* signAndSend *)

\* The nonce of a call: opts.nonce, counted on from an earlier call as the demo's
\* faucet does, or what polkadot-js asks the node for.
Nonces(c, who) ==
    {accountNextIndex(Rpc, who)}
        \cup {calls[d].tx.nonce + 1 : d \in {e \in 1..(c - 1) : calls[e].tx.signer = who}}

\* polkadot-js anchors the era at the finalized or, when finality lags, at the best
\* block.
Sign(c) ==
    /\ c \in Started /\ calls[c].phase = "idle" /\ Rpc \in running
    /\ \A d \in 1..(c - 1) : calls[d].phase # "idle"
    /\ \E anchor \in {Finalized(Rpc), Best(Rpc)}, nonce \in Nonces(c, budget.script[c].signer) :
        calls' = [calls EXCEPT ![c].phase = "signed",
                    ![c].tx = SignedExtrinsic(anchor, budget.script[c].signer,
                                              budget.script[c].call, nonce)]
    /\ UNCHANGED <<nodeVars, wait>>

\* The chain up to the block with the extrinsic.
BlockOf(tx, chain) ==
    CHOOSE b \in Prefixes(chain) : b # <<>> /\ tx \in ToSet(Last(b).extrinsics)

\* What the pool of Rpc tells the watcher of `call` about a step of the nodes: the
\* first block with the extrinsic, or nothing more once it is invalid (the
\* callback ignores that status) or the node is gone; the tools do not watch
\* again when the connection comes back.
Watched(call) ==
    IF ~call.watch THEN call
    ELSE IF Rpc \notin running' THEN [call EXCEPT !.watch = FALSE, !.report = <<>>]
    ELSE IF call.report = <<>> /\ call.tx \in OnChain(db'[Rpc].best)
    THEN [call EXCEPT !.report = BlockOf(call.tx, db'[Rpc].best)]
    ELSE IF call.tx \notin pool'[Rpc] \cup OnChain(db'[Rpc].best)
    THEN [call EXCEPT !.watch = FALSE]
    ELSE call

\* An extrinsic the pool refuses or drops at once, or a closed connection, goes to
\* .catch(reject).  One that is accepted may push another out.
Submit(c) ==
    /\ calls[c].phase = "signed"
    /\ \/ /\ Rpc \in running /\ PoolAccepts(Rpc, calls[c].tx)
          /\ \E kept \in Added(Rpc, calls[c].tx) :
                /\ calls[c].tx \in kept
                /\ pool' = [pool EXCEPT ![Rpc] = kept]
          /\ UNCHANGED <<genesis, slot, db, grandpaVars, running, worked, budget, commands>>
          /\ calls' = [d \in Caller |-> IF d = c THEN [calls[c] EXCEPT !.phase = "sent", !.watch = TRUE]
                                        ELSE Watched(calls[d])]
       \/ /\ \/ Rpc \notin running
             \/ ~PoolAccepts(Rpc, calls[c].tx)
             \/ \E kept \in Added(Rpc, calls[c].tx) : calls[c].tx \notin kept
          /\ calls' = [calls EXCEPT ![c].phase = "rejected"]
          /\ UNCHANGED nodeVars
    /\ UNCHANGED wait

\* The result the events of the block show for the extrinsic.
ResultIn(b, tx) ==
    LET txs == Last(b).extrinsics
        i == CHOOSE k \in DOMAIN txs : txs[k] = tx
        st == ApplyAll(StateOf(genesis, Front(b)), SubSeq(txs, 1, i - 1))
    IN  DispatchResult(Charged(st, tx), tx)

\* Mutant: the result of a sudo call is not looked at.
OutcomeOfWrapper(b, tx) == IF ResultIn(b, tx) = "DispatchError" THEN "rejected" ELSE "resolved"

\* dispatchError rejects, a Sudid event with an error rejects, the rest resolves.
Outcome(b, tx) == IF ResultIn(b, tx) # "Ok" THEN "rejected" ELSE "resolved"

\* Mutant: only isFinalized settles the promise.
CallbackWhenFinal(c) ==
    /\ calls[c].phase = "sent" /\ calls[c].report # <<>>
    /\ IsPrefix(calls[c].report, Finalized(Rpc))
    /\ calls' = [calls EXCEPT ![c].phase = Outcome(calls[c].report, calls[c].tx),
                              ![c].watch = FALSE]
    /\ UNCHANGED <<nodeVars, wait>>

\* The status callback.  A promise settles once, so it does not matter that unsub
\* may still be a no-op and the callback run again.
Callback(c) ==
    /\ calls[c].phase = "sent" /\ calls[c].report # <<>>
    /\ calls' = [calls EXCEPT ![c].phase = Outcome(calls[c].report, calls[c].tx),
                              ![c].watch = FALSE]
    /\ UNCHANGED <<nodeVars, wait>>

Settled(c) == calls[c].phase \in {"resolved", "rejected"}

-----------------------------------------------------------------------------
(* waitFor, here for the next block as the demo waits for an enactment *)

WaitStart ==
    /\ wait.phase = "idle" /\ Rpc \in running
    /\ \A c \in Started : Settled(c)
    /\ slot + TimeoutSlots < budget.slots
    /\ wait' = [phase |-> "asking", deadline |-> slot + TimeoutSlots,
                height |-> Len(Best(Rpc)) + 1]
    /\ UNCHANGED <<nodeVars, calls>>

\* The node answers the query; a query on a closed connection throws.
WaitAnswer ==
    /\ wait.phase = "asking"
    /\ wait' = [wait EXCEPT !.phase =
                    IF Rpc \notin running THEN "failed"
                    ELSE IF Len(Best(Rpc)) >= wait.height THEN "true" ELSE "false"]
    /\ UNCHANGED <<nodeVars, calls>>

\* Mutant: the loop never looks at the deadline.
WaitResumeForever ==
    /\ wait.phase \in {"true", "false"}
    /\ wait' = [wait EXCEPT !.phase = IF wait.phase = "true" THEN "found" ELSE "sleeping"]
    /\ UNCHANGED <<nodeVars, calls>>

\* After the await: return, throw when the deadline has passed, or sleep.
WaitResume ==
    /\ wait.phase \in {"true", "false"}
    /\ wait' = [wait EXCEPT !.phase = IF wait.phase = "true" THEN "found"
                                      ELSE IF slot > wait.deadline THEN "timed out"
                                      ELSE "sleeping"]
    /\ UNCHANGED <<nodeVars, calls>>

WaitWake ==
    /\ wait.phase = "sleeping"
    /\ wait' = [wait EXCEPT !.phase = "asking"]
    /\ UNCHANGED <<nodeVars, calls>>

-----------------------------------------------------------------------------
NodesStep == /\ NodeNext
             /\ calls' = [c \in Caller |-> Watched(calls[c])]
             /\ UNCHANGED wait

GlueNext ==
    \/ NodesStep
    \/ \E c \in Caller : Sign(c) \/ Submit(c) \/ Callback(c)
    \/ WaitStart \/ WaitAnswer \/ WaitResume \/ WaitWake

\* The clock goes on, the event loop of the tools runs callbacks and timers, and a
\* connection answers or breaks.  Nothing makes a node produce or finalize.
Fairness ==
    /\ WF_glueVars(NextSlot /\ NodesStep)
    /\ \A c \in Caller : WF_glueVars(Callback(c))
    /\ WF_glueVars(WaitAnswer) /\ WF_glueVars(WaitResume) /\ WF_glueVars(WaitWake)

GlueSpec == GlueInit /\ [][GlueNext]_glueVars /\ Fairness

-----------------------------------------------------------------------------
(* Correctness *)

\* With one authority and no revert or purge, what a resolved promise stands for is
\* on the best chain of the node the demo asks next, and stays there: its block,
\* and for every projectGenesis the project, although the wrapper of a sudo call
\* succeeds when the call does not, the promise does not wait for finality, and
\* the node may have been stopped since.
ResolvedStands ==
    Len(genesis.authorities) = 1 /\ (\A x \in commands : x[1] = "import-blocks") =>
        LET done == {c \in Caller : calls[c].phase = "resolved"}
        IN  /\ \A c \in done : IsPrefix(calls[c].report, Best(Rpc))
            /\ Cardinality({c \in done : calls[c].tx.call = "projectGenesis"})
                 <= BestState(Rpc).projects

\* Once the node has told that the extrinsic is in a block, the promise settles,
\* finality or not, unless the connection breaks first.
ReportSettles ==
    \A c \in Caller : calls[c].report # <<>> ~> Settled(c) \/ ~calls[c].watch

\* waitFor always comes to an end: its condition, its deadline, or an error.
WaitEnds == wait.phase = "asking" ~> wait.phase \in {"found", "timed out", "failed"}
=============================================================================
