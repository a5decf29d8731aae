---------------------------- MODULE ReleaseLedger ----------------------------
(***************************************************************************)
(* What the pallet promises to the users of the Official Release Log, with *)
(* votes, stake and money left out.  A proposal names one artifact for     *)
(* good; it is scheduled only for a time still to come, and published only *)
(* while scheduled and exactly at that time; time does not pass a          *)
(* scheduled proposal by; the log only ever grows, by one published        *)
(* artifact at a time; and a published, rejected or expired proposal never *)
(* changes again.                                                          *)
(***************************************************************************)
EXTENDS Integers, Sequences

CONSTANTS
    Project,
    Proposal,
    Artifact,
    Time

VARIABLES
    clock,
    ledger,     \* known proposals: their project, artifact, phase and due time
    log         \* per project, the published artifacts in order

ledgerVars == <<clock, ledger, log>>

Entry == [project : Project, artifact : Artifact, due : Time,
          phase : {"Voting", "Approved", "Enacted", "Rejected", "Expired"}]

LedgerInit ==
    /\ clock = 1
    /\ ledger = [p \in {} |-> <<>>]
    /\ log = [j \in Project |-> <<>>]

Phase(p) == ledger[p].phase

SetPhase(p, phase, due) == ledger' = [ledger EXCEPT ![p].phase = phase, ![p].due = due]

\* A proposal appears open, or already scheduled when its proposer's own vote
\* is enough.
Propose(p, entry) ==
    /\ p \notin DOMAIN ledger
    /\ entry.phase \in {"Voting", "Approved"}
    /\ entry.phase = "Approved" => clock < entry.due
    /\ ledger' = [q \in DOMAIN ledger \cup {p} |-> IF q = p THEN entry ELSE ledger[q]]
    /\ UNCHANGED <<clock, log>>

Schedule(p, due) ==
    /\ Phase(p) = "Voting"
    /\ clock < due
    /\ SetPhase(p, "Approved", due)
    /\ UNCHANGED <<clock, log>>

Reopen(p) ==
    /\ Phase(p) = "Approved"
    /\ SetPhase(p, "Voting", 0)
    /\ UNCHANGED <<clock, log>>

Publish(p) ==
    /\ Phase(p) = "Approved"
    /\ ledger[p].due = clock
    /\ SetPhase(p, "Enacted", 0)
    /\ log' = [log EXCEPT ![ledger[p].project] =
                 Append(@, [proposal |-> p, artifact |-> ledger[p].artifact])]
    /\ UNCHANGED clock

Reject(p) ==
    /\ Phase(p) \in {"Voting", "Approved"}
    /\ SetPhase(p, "Rejected", 0)
    /\ UNCHANGED <<clock, log>>

Expire(p) ==
    /\ Phase(p) = "Voting"
    /\ SetPhase(p, "Expired", 0)
    /\ UNCHANGED <<clock, log>>

Tick ==
    /\ \A p \in DOMAIN ledger : Phase(p) = "Approved" => clock < ledger[p].due
    /\ clock' = clock + 1
    /\ UNCHANGED <<ledger, log>>

LedgerNext ==
    \/ \E p \in Proposal : \E entry \in Entry : Propose(p, entry)
    \/ \E p \in DOMAIN ledger :
          \/ \E due \in Time : Schedule(p, due)
          \/ Reopen(p)
          \/ Publish(p)
          \/ Reject(p)
          \/ Expire(p)
    \/ Tick

LedgerSpec == LedgerInit /\ [][LedgerNext]_ledgerVars

-----------------------------------------------------------------------------
(* What readers of the log may rely on *)

\* The log of a project holds exactly its published proposals, each once and
\* with the artifact it was proposed with.
LogExact ==
    /\ \A j \in Project : \A i \in 1..Len(log[j]) :
         LET p == log[j][i].proposal
         IN  /\ p \in DOMAIN ledger /\ Phase(p) = "Enacted"
             /\ ledger[p].project = j /\ ledger[p].artifact = log[j][i].artifact
             /\ \A k \in 1..Len(log[j]) : log[j][k].proposal = p => k = i
    /\ \A p \in DOMAIN ledger : Phase(p) = "Enacted" =>
         \E i \in 1..Len(log[ledger[p].project]) : log[ledger[p].project][i].proposal = p

\* What is scheduled is not overdue.
NotOverdue == \A p \in DOMAIN ledger : Phase(p) = "Approved" => clock <= ledger[p].due

LogStands ==
    \A j \in Project : \A i \in 1..Len(log[j]) :
        i \in 1..Len(log'[j]) /\ log'[j][i] = log[j][i]

EntriesStand ==
    \A p \in DOMAIN ledger :
        /\ p \in DOMAIN ledger'
        /\ ledger'[p].project = ledger[p].project /\ ledger'[p].artifact = ledger[p].artifact
        /\ Phase(p) \in {"Enacted", "Rejected", "Expired"} => ledger'[p] = ledger[p]

\* Published artifacts keep their place in the log, a proposal keeps its project
\* and its artifact, and a closed one changes no more.
HistoryStands == [][LogStands /\ EntriesStand]_ledgerVars
=============================================================================
