------------------------ MODULE ReleaseLedgerProofs -------------------------
(***************************************************************************)
(* What the abstract release ledger promises follows from its steps alone, *)
(* so a reader of the log who trusts the refinement needs nothing else.    *)
(***************************************************************************)
EXTENDS ReleaseLedger, TLAPS

LogEntry == [proposal : Proposal, artifact : Artifact]

LedgerTypeOK ==
    /\ clock \in Int
    /\ DOMAIN ledger \subseteq Proposal
    /\ ledger \in [DOMAIN ledger -> Entry]
    /\ log \in [Project -> Seq(LogEntry)]

\* Times are numbers, and 0 stands for none.
TimesAreNumbers == Time \subseteq Int /\ 0 \in Time

-----------------------------------------------------------------------------
(* The steps, one proposal at a time *)

\* The phases a step may move a proposal through, and the schedule it may set.
Moved(p) ==
    /\ p \in DOMAIN ledger /\ DOMAIN ledger' = DOMAIN ledger
    /\ \A q \in DOMAIN ledger : q # p => ledger'[q] = ledger[q]
    /\ ledger'[p] \in Entry
    /\ ledger'[p].project = ledger[p].project /\ ledger'[p].artifact = ledger[p].artifact
    /\ Phase(p) \in {"Voting", "Approved"}
    /\ Phase(p)' = "Approved" => clock < ledger'[p].due
    /\ ledger' \in [DOMAIN ledger -> Entry]
    /\ UNCHANGED clock

\* A change of phase changes nothing else of the ledger.
LEMMA SetPhaseMoves ==
    ASSUME TimesAreNumbers, LedgerTypeOK, NEW p \in DOMAIN ledger,
           NEW phase \in {"Voting", "Approved", "Enacted", "Rejected", "Expired"}, NEW due \in Time,
           SetPhase(p, phase, due), Phase(p) \in {"Voting", "Approved"},
           phase = "Approved" => clock < due, UNCHANGED clock
    PROVE  Moved(p) /\ Phase(p)' = phase
<1>1. ledger[p] \in Entry
  BY DEF LedgerTypeOK
<1>2. /\ DOMAIN ledger' = DOMAIN ledger
      /\ \A q \in DOMAIN ledger : q # p => ledger'[q] = ledger[q]
  BY DEF SetPhase
<1>3. /\ ledger'[p].project = ledger[p].project /\ ledger'[p].artifact = ledger[p].artifact
      /\ ledger'[p].phase = phase /\ ledger'[p].due = due /\ ledger'[p] \in Entry
  <2>1. PICK e : e = [ledger[p] EXCEPT !.phase = phase]
    OBVIOUS
  <2>2. /\ e \in Entry /\ e.project = ledger[p].project /\ e.artifact = ledger[p].artifact
        /\ e.phase = phase
    BY <1>1, <2>1 DEF Entry
  <2>3. ledger'[p] = [e EXCEPT !.due = due]
    BY <2>1 DEF SetPhase
  <2> QED
    BY <2>2, <2>3 DEF Entry
<1>4. ledger' \in [DOMAIN ledger -> Entry]
  <2>1. \A q \in DOMAIN ledger : ledger'[q] \in Entry
    BY <1>2, <1>3 DEF LedgerTypeOK
  <2>2. ledger' = [q \in DOMAIN ledger |-> ledger'[q]]
    BY DEF SetPhase
  <2> QED
    BY <2>1, <2>2
<1> QED
  BY <1>2, <1>3, <1>4 DEF Moved, Phase

\* A new proposal, open or scheduled for later.
Added(p) ==
    /\ p \in Proposal \ DOMAIN ledger /\ DOMAIN ledger' = DOMAIN ledger \cup {p}
    /\ \A q \in DOMAIN ledger : ledger'[q] = ledger[q]
    /\ Phase(p)' \in {"Voting", "Approved"}
    /\ Phase(p)' = "Approved" => clock < ledger'[p].due
    /\ ledger' \in [DOMAIN ledger' -> Entry]
    /\ UNCHANGED <<clock, log>>

\* The published proposal goes to the end of its project's log.
Logged(p) ==
    /\ Phase(p)' = "Enacted"
    /\ log' = [log EXCEPT ![ledger[p].project] =
                 Append(@, [proposal |-> p, artifact |-> ledger[p].artifact])]

\* Time moves on, past nothing that is scheduled.
Ticked ==
    /\ \A p \in DOMAIN ledger : Phase(p) = "Approved" => clock < ledger[p].due
    /\ clock' = clock + 1 /\ UNCHANGED <<ledger, log>>

\* Every step of the ledger is one of four.
LEMMA LedgerSteps ==
    ASSUME TimesAreNumbers, LedgerTypeOK, [LedgerNext]_ledgerVars
    PROVE  \/ \E p : Added(p)
           \/ \E p : Moved(p) /\ Logged(p)
           \/ \E p : Moved(p) /\ Phase(p)' # "Enacted" /\ UNCHANGED log
           \/ Ticked
           \/ UNCHANGED ledgerVars
<1>1. ASSUME NEW p \in Proposal, NEW entry \in Entry, Propose(p, entry) PROVE Added(p)
  <2>1. /\ p \notin DOMAIN ledger
        /\ ledger' = [q \in DOMAIN ledger \cup {p} |-> IF q = p THEN entry ELSE ledger[q]]
        /\ entry.phase \in {"Voting", "Approved"}
        /\ entry.phase = "Approved" => clock < entry.due
        /\ UNCHANGED <<clock, log>>
    BY <1>1 DEF Propose
  <2>2. /\ DOMAIN ledger' = DOMAIN ledger \cup {p} /\ ledger'[p] = entry
        /\ \A q \in DOMAIN ledger : ledger'[q] = ledger[q]
    BY <2>1
  <2>3. ledger' \in [DOMAIN ledger' -> Entry]
    BY <2>1, <2>2 DEF LedgerTypeOK
  <2> QED
    BY <2>1, <2>2, <2>3 DEF Added, Phase
<1>2. ASSUME NEW p \in DOMAIN ledger, NEW due \in Time, Schedule(p, due)
      PROVE  Moved(p) /\ Phase(p)' # "Enacted" /\ UNCHANGED log
  BY <1>2, SetPhaseMoves DEF Schedule
<1>3. ASSUME NEW p \in DOMAIN ledger, Reopen(p)
      PROVE  Moved(p) /\ Phase(p)' # "Enacted" /\ UNCHANGED log
  BY <1>3, SetPhaseMoves DEF Reopen, TimesAreNumbers
<1>4. ASSUME NEW p \in DOMAIN ledger, Publish(p) PROVE Moved(p) /\ Logged(p)
  <2>1. /\ Phase(p) = "Approved" /\ SetPhase(p, "Enacted", 0) /\ UNCHANGED clock /\ 0 \in Time
        /\ log' = [log EXCEPT ![ledger[p].project] =
                     Append(@, [proposal |-> p, artifact |-> ledger[p].artifact])]
    BY <1>4 DEF Publish, TimesAreNumbers
  <2>2. Moved(p) /\ Phase(p)' = "Enacted"
    BY <2>1, SetPhaseMoves
  <2> QED
    BY <2>1, <2>2 DEF Logged
<1>5. ASSUME NEW p \in DOMAIN ledger, Reject(p)
      PROVE  Moved(p) /\ Phase(p)' # "Enacted" /\ UNCHANGED log
  BY <1>5, SetPhaseMoves DEF Reject, TimesAreNumbers
<1>6. ASSUME NEW p \in DOMAIN ledger, Expire(p)
      PROVE  Moved(p) /\ Phase(p)' # "Enacted" /\ UNCHANGED log
  BY <1>6, SetPhaseMoves DEF Expire, TimesAreNumbers
<1>7. ASSUME Tick PROVE Ticked
  BY <1>7 DEF Tick, Ticked
<1>8. CASE LedgerNext
  BY <1>1, <1>2, <1>3, <1>4, <1>5, <1>6, <1>7, <1>8 DEF LedgerNext
<1> QED
  BY <1>8

\* The log of p's project, n entries long, has one more for p.
Grown(p, j, n) ==
    /\ j = ledger[p].project /\ n = Len(log[j])
    /\ log' \in [Project -> Seq(LogEntry)]
    /\ Len(log'[j]) = n + 1
    /\ log'[j][n + 1].proposal = p /\ log'[j][n + 1].artifact = ledger[p].artifact
    /\ \A i \in 1..n : log'[j][i] = log[j][i]
    /\ \A k \in Project : k # j => log'[k] = log[k]

\* What publishing does to the logs.
LEMMA LogGrows ==
    ASSUME LedgerTypeOK, NEW p, Moved(p), Logged(p)
    PROVE  \E j \in Project, n \in Nat : Grown(p, j, n)
<1>1. PICK j \in Project : j = ledger[p].project
  BY DEF Moved, LedgerTypeOK, Entry
<1>2. PICK e \in LogEntry : e = [proposal |-> p, artifact |-> ledger[p].artifact]
  BY DEF Moved, LedgerTypeOK, Entry, LogEntry
<1>3. PICK s \in Seq(LogEntry) : s = log[j]
  BY DEF LedgerTypeOK
<1>4. /\ log'[j] = Append(s, e) /\ \A k \in Project : k # j => log'[k] = log[k]
      /\ DOMAIN log' = Project /\ log' = [k \in Project |-> log'[k]]
  BY <1>1, <1>2, <1>3 DEF Logged, LedgerTypeOK
<1>5. /\ Append(s, e) \in Seq(LogEntry) /\ Len(Append(s, e)) = Len(s) + 1 /\ Len(s) \in Nat
      /\ Append(s, e)[Len(s) + 1] = e /\ \A i \in 1..Len(s) : Append(s, e)[i] = s[i]
  OBVIOUS
<1>6. log' \in [Project -> Seq(LogEntry)]
  <2>1. \A k \in Project : log'[k] \in Seq(LogEntry)
    BY <1>4, <1>5 DEF LedgerTypeOK
  <2> QED
    BY <1>4, <2>1
<1>7. PICK n \in Nat : n = Len(s)
  OBVIOUS
<1>8. /\ n = Len(log[j]) /\ Len(log'[j]) = n + 1
      /\ log'[j][n + 1].proposal = p /\ log'[j][n + 1].artifact = ledger[p].artifact
      /\ \A i \in 1..n : log'[j][i] = log[j][i]
  BY <1>2, <1>3, <1>4, <1>5, <1>7
<1>9. Grown(p, j, n)
  BY <1>1, <1>4, <1>6, <1>8 DEF Grown
<1> QED
  BY <1>9

-----------------------------------------------------------------------------
(* The promises *)

\* The ledger stays well formed.
LEMMA LedgerTypeStep ==
    ASSUME TimesAreNumbers
    PROVE  LedgerTypeOK /\ [LedgerNext]_ledgerVars => LedgerTypeOK'
<1> SUFFICES ASSUME LedgerTypeOK, [LedgerNext]_ledgerVars PROVE LedgerTypeOK'
  OBVIOUS
<1>1. ASSUME NEW p, Added(p) PROVE LedgerTypeOK'
  BY <1>1 DEF Added, LedgerTypeOK
<1>2. ASSUME NEW p, Moved(p), Logged(p) PROVE LedgerTypeOK'
  <2>1. log' \in [Project -> Seq(LogEntry)]
    BY <1>2, LogGrows DEF Grown
  <2> QED
    BY <1>2, <2>1 DEF Moved, LedgerTypeOK
<1>3. ASSUME NEW p, Moved(p), UNCHANGED log PROVE LedgerTypeOK'
  BY <1>3 DEF Moved, LedgerTypeOK
<1>4. CASE Ticked
  BY <1>4 DEF Ticked, LedgerTypeOK
<1>5. CASE UNCHANGED ledgerVars
  BY <1>5 DEF ledgerVars, LedgerTypeOK
<1> QED
  BY <1>1, <1>2, <1>3, <1>4, <1>5, LedgerSteps

\* It starts so.
LEMMA LedgerTypeInit == LedgerInit => LedgerTypeOK
<1> SUFFICES ASSUME LedgerInit PROVE LedgerTypeOK
  OBVIOUS
<1>1. DOMAIN ledger = {} /\ ledger \in [DOMAIN ledger -> Entry]
  BY DEF LedgerInit
<1>2. log \in [Project -> Seq(LogEntry)]
  BY DEF LedgerInit
<1> QED
  BY <1>1, <1>2 DEF LedgerInit, LedgerTypeOK

\* Time reaches the due time of what is scheduled, and stops there until the
\* proposal is published, reopened or rejected: with a schedule always in the
\* future, every approval can be seen for a while before its publication, and
\* none is forgotten.
THEOREM LedgerNotOverdue ==
    ASSUME TimesAreNumbers
    PROVE  LedgerSpec => []NotOverdue
<1>1. LedgerInit => NotOverdue
  BY DEF LedgerInit, NotOverdue
<1>2. LedgerTypeOK /\ NotOverdue /\ [LedgerNext]_ledgerVars => NotOverdue'
  <2> SUFFICES ASSUME LedgerTypeOK, NotOverdue, [LedgerNext]_ledgerVars,
                      NEW q \in DOMAIN ledger', Phase(q)' = "Approved"
               PROVE  clock' <= ledger'[q].due
    BY DEF NotOverdue
  <2>1. clock \in Int /\ clock' \in Int /\ ledger'[q].due \in Int
    BY LedgerTypeStep DEF LedgerTypeOK, Entry, TimesAreNumbers
  <2>2. ASSUME NEW p, Added(p) PROVE clock' <= ledger'[q].due
    BY <2>1, <2>2 DEF Added, NotOverdue, Phase
  <2>3. ASSUME NEW p, Moved(p) PROVE clock' <= ledger'[q].due
    BY <2>1, <2>3 DEF Moved, NotOverdue, Phase
  <2>4. CASE Ticked
    BY <2>1, <2>4 DEF Ticked, NotOverdue, Phase
  <2>5. CASE UNCHANGED ledgerVars
    BY <2>5 DEF ledgerVars, NotOverdue, Phase
  <2> QED
    BY <2>2, <2>3, <2>4, <2>5, LedgerSteps
<1>3. LedgerTypeOK /\ [LedgerNext]_ledgerVars => LedgerTypeOK'
  BY LedgerTypeStep
<1> QED
  BY <1>1, <1>2, <1>3, LedgerTypeInit, PTL DEF LedgerSpec

\* One entry of a log and the one proposal it is about.
EntryExact(j, i) ==
    LET p == log[j][i].proposal
    IN  /\ p \in DOMAIN ledger /\ Phase(p) = "Enacted"
        /\ ledger[p].project = j /\ ledger[p].artifact = log[j][i].artifact
        /\ \A k \in 1..Len(log[j]) : log[j][k].proposal = p => k = i

InLog(p) == \E i \in 1..Len(log[ledger[p].project]) : log[ledger[p].project][i].proposal = p

\* The log is exact entry by entry and proposal by proposal.
LEMMA ExactParts ==
    LogExact <=> /\ \A j \in Project : \A i \in 1..Len(log[j]) : EntryExact(j, i)
                 /\ \A p \in DOMAIN ledger : Phase(p) = "Enacted" => InLog(p)
  BY DEF LogExact, EntryExact, InLog

\* A step that publishes nothing keeps the log exact: what is published stays.
LEMMA ExactKept ==
    ASSUME LogExact, UNCHANGED log,
           \A q \in DOMAIN ledger : /\ q \in DOMAIN ledger'
                                    /\ Phase(q) = "Enacted" => ledger'[q] = ledger[q],
           \A q \in DOMAIN ledger' : Phase(q)' = "Enacted" => /\ q \in DOMAIN ledger
                                                              /\ ledger'[q] = ledger[q]
    PROVE  LogExact'
<1>1. ASSUME NEW j \in Project, NEW i \in 1..Len(log[j]) PROVE EntryExact(j, i)'
  BY ExactParts DEF EntryExact, Phase
<1>2. ASSUME NEW q \in DOMAIN ledger', Phase(q)' = "Enacted" PROVE InLog(q)'
  BY <1>2, ExactParts DEF InLog, Phase
<1> QED
  BY <1>1, <1>2 DEF LogExact, EntryExact, InLog

\* Publishing a proposal that was open adds the one entry about it.
LEMMA ExactGrows ==
    ASSUME LedgerTypeOK, LogExact, NEW p, Moved(p), Logged(p)
    PROVE  LogExact'
<1>0. PICK j \in Project, n \in Nat : Grown(p, j, n)
  BY LogGrows
<1>1. /\ j = ledger[p].project /\ n = Len(log[j])
      /\ Len(log'[j]) = n + 1
      /\ log'[j][n + 1].proposal = p /\ log'[j][n + 1].artifact = ledger[p].artifact
      /\ \A i \in 1..n : log'[j][i] = log[j][i]
      /\ \A k \in Project : k # j => log'[k] = log[k]
  BY <1>0 DEF Grown
<1>2. /\ p \in DOMAIN ledger /\ DOMAIN ledger' = DOMAIN ledger /\ Phase(p) # "Enacted"
      /\ \A q \in DOMAIN ledger : q # p => ledger'[q] = ledger[q]
      /\ ledger'[p].project = j /\ ledger'[p].artifact = ledger[p].artifact
      /\ ledger'[p].phase = "Enacted"
  BY <1>1 DEF Moved, Logged, Phase
<1>3. ASSUME NEW k \in Project, NEW i \in 1..Len(log[k])
      PROVE  /\ log[k][i].proposal \in DOMAIN ledger /\ log[k][i].proposal # p
             /\ ledger'[log[k][i].proposal] = ledger[log[k][i].proposal]
  BY <1>2, ExactParts DEF EntryExact
<1>4. ASSUME NEW k \in Project, k # j, NEW i \in 1..Len(log[k]) PROVE EntryExact(k, i)'
  <2>1. EntryExact(k, i)
    BY ExactParts
  <2>2. log'[k] = log[k]
    BY <1>1, <1>4
  <2> QED
    BY <1>2, <1>3, <2>1, <2>2 DEF EntryExact, Phase
<1>5. ASSUME NEW i \in 1..n PROVE EntryExact(j, i)'
  <2>0. i \in 1..Len(log[j]) /\ log'[j][i] = log[j][i]
    BY <1>1
  <2>1. PICK q : q = log[j][i].proposal
    OBVIOUS
  <2>2. EntryExact(j, i) /\ q \in DOMAIN ledger /\ q # p /\ ledger'[q] = ledger[q]
    BY <1>3, <2>0, <2>1, ExactParts
  <2>3. ASSUME NEW k \in 1..(n + 1), log'[j][k].proposal = q PROVE k = i
    <3>1. k # n + 1
      BY <1>1, <2>2, <2>3
    <3>2. k \in 1..n
      BY <3>1
    <3>3. k \in 1..Len(log[j]) /\ log[j][k].proposal = q
      BY <1>1, <2>3, <3>2
    <3> QED
      BY <2>1, <2>2, <3>3 DEF EntryExact
  <2>4. q = log'[j][i].proposal /\ log'[j][i].artifact = log[j][i].artifact
    BY <2>0, <2>1
  <2>5. /\ ledger[q].phase = "Enacted" /\ ledger[q].project = j
        /\ ledger[q].artifact = log[j][i].artifact
    BY <2>1, <2>2 DEF EntryExact, Phase
  <2>6. q \in DOMAIN ledger' /\ Len(log'[j]) = n + 1
    BY <1>1, <1>2, <2>2
  <2> QED
    BY <2>2, <2>3, <2>4, <2>5, <2>6 DEF EntryExact, Phase
<1>6. EntryExact(j, n + 1)'
  <2>1. ASSUME NEW k \in 1..(n + 1), log'[j][k].proposal = p PROVE k = n + 1
    <3>1. ASSUME k \in 1..n PROVE FALSE
      <4>1. k \in 1..Len(log[j]) /\ log[j][k].proposal = p
        BY <1>1, <2>1, <3>1
      <4> QED
        BY <1>3, <4>1
    <3> QED
      BY <3>1
  <2> QED
    BY <1>1, <1>2, <2>1 DEF EntryExact, Phase
<1>7. ASSUME NEW k \in Project, NEW i \in 1..Len(log'[k]) PROVE EntryExact(k, i)'
  <2>1. CASE k # j
    BY <1>1, <1>4, <2>1
  <2>2. CASE k = j
    <3>1. i \in 1..n \/ i = n + 1
      BY <1>1, <2>2
    <3> QED
      BY <1>5, <1>6, <2>2, <3>1
  <2> QED
    BY <2>1, <2>2
<1>8. ASSUME NEW q \in DOMAIN ledger', Phase(q)' = "Enacted" PROVE InLog(q)'
  <2>1. CASE q = p
    <3>1. n + 1 \in 1..Len(log'[j])
      BY <1>1
    <3> QED
      BY <1>1, <1>2, <2>1, <3>1 DEF InLog
  <2>2. CASE q # p
    <3>1. /\ q \in DOMAIN ledger /\ ledger'[q] = ledger[q] /\ Phase(q) = "Enacted"
      BY <1>2, <1>8, <2>2 DEF Phase
    <3>2. PICK k \in Project : k = ledger[q].project
      BY <3>1 DEF LedgerTypeOK, Entry
    <3>3. PICK i \in 1..Len(log[k]) : log[k][i].proposal = q
      BY <3>1, <3>2, ExactParts DEF InLog
    <3>4. i \in 1..Len(log'[k]) /\ log'[k][i] = log[k][i]
      <4>1. CASE k = j
        BY <1>1, <4>1
      <4>2. CASE k # j
        BY <1>1, <4>2
      <4> QED
        BY <4>1, <4>2
    <3> QED
      BY <3>1, <3>2, <3>3, <3>4 DEF InLog
  <2> QED
    BY <2>1, <2>2
<1> QED
  BY <1>7, <1>8 DEF LogExact, EntryExact, InLog

\* The log of a project holds exactly its published proposals, each once and
\* with the artifact it was proposed with, whatever is proposed, scheduled,
\* reopened, rejected and expired in between.
THEOREM LedgerLogExact ==
    ASSUME TimesAreNumbers
    PROVE  LedgerSpec => []LogExact
<1>1. LedgerInit => LogExact
  BY DEF LedgerInit, LogExact
<1>2. LedgerTypeOK /\ LogExact /\ [LedgerNext]_ledgerVars => LogExact'
  <2> SUFFICES ASSUME LedgerTypeOK, LogExact, [LedgerNext]_ledgerVars PROVE LogExact'
    OBVIOUS
  <2>1. ASSUME NEW p, Added(p) PROVE LogExact'
    BY <2>1, ExactKept DEF Added, Phase
  <2>2. ASSUME NEW p, Moved(p), Logged(p) PROVE LogExact'
    BY <2>2, ExactGrows
  <2>3. ASSUME NEW p, Moved(p), Phase(p)' # "Enacted", UNCHANGED log PROVE LogExact'
    BY <2>3, ExactKept DEF Moved, Phase
  <2>4. ASSUME UNCHANGED <<ledger, log>> PROVE LogExact'
    BY <2>4, ExactKept DEF Phase
  <2> QED
    BY <2>1, <2>2, <2>3, <2>4, LedgerSteps DEF Ticked, ledgerVars
<1>3. LedgerTypeOK /\ [LedgerNext]_ledgerVars => LedgerTypeOK'
  BY LedgerTypeStep
<1> QED
  BY <1>1, <1>2, <1>3, LedgerTypeInit, PTL DEF LedgerSpec

\* Published artifacts keep their place in the log, a proposal keeps its project
\* and its artifact, and a published, rejected or expired one changes no more.
THEOREM LedgerHistoryStands ==
    ASSUME TimesAreNumbers
    PROVE  LedgerSpec => HistoryStands
<1>1. LedgerTypeOK /\ [LedgerNext]_ledgerVars => [LogStands /\ EntriesStand]_ledgerVars
  <2> SUFFICES ASSUME LedgerTypeOK, [LedgerNext]_ledgerVars PROVE LogStands /\ EntriesStand
    OBVIOUS
  <2>1. ASSUME NEW p, Added(p) PROVE LogStands /\ EntriesStand
    BY <2>1 DEF Added, LogStands, EntriesStand
  <2>2. ASSUME NEW p, Moved(p) PROVE EntriesStand
    BY <2>2 DEF Moved, Phase, EntriesStand
  <2>3. ASSUME NEW p, Moved(p), Logged(p) PROVE LogStands
    <3>1. PICK j \in Project, n \in Nat : Grown(p, j, n)
      BY <2>3, LogGrows
    <3>2. \A i \in 1..Len(log[j]) : i \in 1..Len(log'[j]) /\ log'[j][i] = log[j][i]
      BY <3>1 DEF Grown
    <3> QED
      BY <3>1, <3>2 DEF Grown, LogStands
  <2>4. ASSUME UNCHANGED log PROVE LogStands
    BY <2>4 DEF LogStands
  <2>5. ASSUME UNCHANGED ledger PROVE EntriesStand
    BY <2>5 DEF EntriesStand
  <2> QED
    BY <2>1, <2>2, <2>3, <2>4, <2>5, LedgerSteps DEF Ticked, ledgerVars
<1>2. LedgerTypeOK /\ [LedgerNext]_ledgerVars => LedgerTypeOK'
  BY LedgerTypeStep
<1> QED
  BY <1>1, <1>2, LedgerTypeInit, PTL DEF LedgerSpec, HistoryStands
=============================================================================
