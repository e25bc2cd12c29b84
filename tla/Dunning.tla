------------------------------- MODULE Dunning --------------------------------
(* The chasing of overdue accounts (src/modules/finance/dunning): the rules of *)
(* one organization, each with the days after the due date from which it       *)
(* applies, and the runs (the daily job, or a click) that send, for each open  *)
(* account, the e-mail of the last rule that applies, unless dunning_logs has  *)
(* it. A run awaits between its reads, looking at the log, sending and logging;  *)
(* runs may overlap, and due dates may move. Texts are left out.               *)
EXTENDS Integers, SequencesExt

CONSTANTS
    Receivables, Rules,
    Offsets,            \* what a rule may say, in days from the due date
    DefaultOffset,      \* of the rules that seedDefaults creates
    Dues,               \* the days accounts may fall due
    Runs,               \* runs that may be under way at once
    MaxDay, MaxEdits, MaxRuns,   \* bounds of the model
    Nil

\* A step in hand: the e-mail of a rule about an account, and what became of it.
Hand == [about : Receivables, rule : Rules, mail : Nat, result : {"unsent", "sent", "failed", "skipped"}]

ASSUME DunningAssumption ==
    /\ Offsets \subseteq Int /\ Dues \subseteq Int /\ DefaultOffset \in [Rules -> Offsets]
    /\ MaxDay \in Nat /\ MaxEdits \in Nat /\ MaxRuns \in Nat
    /\ Nil \notin {"sent", "failed", "skipped"} \cup Hand

Unused == [state |-> "unused"]
Removed == [state |-> "removed"]
Rule == [state : {"kept"}, offset : Offsets, active : BOOLEAN]

VARIABLES
    day,        \* today
    due,        \* accounts_receivable.due_date
    rule,       \* dunning_rules
    edits,      \* changes of the rules so far
    begun,      \* history: runs that have read the accounts so far
    open,       \* accounts_receivable with status issued, partial or overdue
    reachable,  \* the accounts whose customer has an e-mail address
    log,        \* dunning_logs: what became of a rule for an account
    run,        \* what a run read, what it has in hand, what it still has to look at
    mails       \* history: e-mails sent about each account, with what their run had read

accountVars == <<day, due, open, reachable>>
dunningVars == <<accountVars, rule, edits, begun, log, run, mails>>

DunningInit ==
    /\ day = 0 /\ edits = 0 /\ begun = 0 /\ due \in [Receivables -> Dues]
    /\ rule = [k \in Rules |-> Unused]
    /\ open \in SUBSET Receivables /\ reachable \in SUBSET Receivables
    /\ log = [p \in Receivables \X Rules |-> Nil]
    /\ run = [u \in Runs |-> Nil]
    /\ mails = [r \in Receivables |-> <<>>]

--------------------------------------------------------------------------------
Kept(k) == rule[k] \notin {Unused, Removed}
Change(new) ==
    /\ edits < MaxEdits /\ edits' = edits + 1
    /\ rule' = new
    /\ UNCHANGED <<accountVars, begun, run, mails>>

CreateRule(k, offset, active) ==
    rule[k] = Unused /\ Change([rule EXCEPT ![k] = [state |-> "kept", offset |-> offset, active |-> active]]) /\ UNCHANGED log
UpdateRule(k, offset, active) ==
    Kept(k) /\ Change([rule EXCEPT ![k].offset = offset, ![k].active = active]) /\ UNCHANGED log
\* The log of the rule goes with it.
RemoveRule(k) ==
    Kept(k) /\ Change([rule EXCEPT ![k] = Removed])
    /\ log' = [p \in Receivables \X Rules |-> IF p[2] = k THEN Nil ELSE log[p]]
SeedDefaults ==
    /\ \A k \in Rules : ~Kept(k)
    /\ Change([k \in Rules |-> IF rule[k] = Unused
                               THEN [state |-> "kept", offset |-> DefaultOffset[k], active |-> TRUE] ELSE rule[k]])
    /\ UNCHANGED log

--------------------------------------------------------------------------------
\* runForOrg reads the active rules; a run that has read no accounts yet has number 0.
Active == {k \in Rules : Kept(k) /\ rule[k].active}
BeginRun(u) ==
    /\ run[u] = Nil /\ Active # {}
    /\ run' = [run EXCEPT ![u] = [offsets |-> [k \in Active |-> rule[k].offset], edits |-> edits, number |-> 0,
                                 day |-> day, due |-> due, todo |-> {}, to |-> {}, hand |-> Nil]]
    /\ UNCHANGED <<accountVars, rule, edits, begun, log, mails>>

\* Then the open accounts with their due dates and addresses, and the day.
ReadAccounts(u) ==
    /\ run[u] # Nil /\ run[u].number = 0 /\ begun < MaxRuns
    /\ begun' = begun + 1
    /\ run' = [run EXCEPT ![u].number = begun + 1, ![u].day = day, ![u].due = due, ![u].todo = open, ![u].to = reachable]
    /\ UNCHANGED <<accountVars, rule, edits, log, mails>>

\* The rule with the greatest offset that is due; of several, the first the database returned.
DaysLate(m, r) == m.day - m.due[r]
Due(m, r) == {k \in DOMAIN m.offsets : m.offsets[k] <= DaysLate(m, r)}
Steps(m, r) == {k \in Due(m, r) : \A j \in Due(m, r) : m.offsets[j] <= m.offsets[k]}

\* Faulty variant: whatever is in the log, the step is taken.
AlreadyNever(r, k) == FALSE
Already(r, k) == log[<<r, k>>] # Nil

Consider(u, r) ==
    LET m == run[u]
    IN  /\ m # Nil /\ m.hand = Nil /\ r \in m.todo
        /\ \/ /\ Due(m, r) = {} \/ \E k \in Steps(m, r) : Already(r, k)
              /\ run' = [run EXCEPT ![u].todo = @ \ {r}]
           \/ \E k \in Steps(m, r) :
                 /\ ~Already(r, k)
                 /\ run' = [run EXCEPT ![u].todo = @ \ {r},
                                       ![u].hand = [about |-> r, rule |-> k,
                                                    mail |-> 0,
                                                    result |-> IF r \in m.to THEN "unsent" ELSE "skipped"]]
        /\ UNCHANGED <<accountVars, rule, edits, begun, log, mails>>

\* sendTransactional: without SMTP settings, or when the server refuses, it returns without an exception.
Send(u, sent) ==
    LET m == run[u]
    IN  /\ m # Nil /\ m.hand # Nil /\ m.hand.result = "unsent"
        /\ run' = [run EXCEPT ![u].hand.result = IF sent THEN "sent" ELSE "failed",
                              ![u].hand.mail = Len(mails[m.hand.about]) + 1]
        /\ mails' = IF ~sent THEN mails
                    ELSE [mails EXCEPT ![m.hand.about] =
                            Append(@, [rule |-> m.hand.rule, offset |-> m.offsets[m.hand.rule], edits |-> m.edits,
                                       run |-> m.number, day |-> m.day, due |-> m.due[m.hand.about], logged |-> 0])]
        /\ UNCHANGED <<accountVars, rule, edits, begun, log>>

\* The insert fails when another run logged the step, or the rule is gone: an exception ends the run.
InsertLog(u) ==
    LET m == run[u]
        pair == <<m.hand.about, m.hand.rule>>
    IN  /\ m # Nil /\ m.hand # Nil /\ m.hand.result # "unsent"
        /\ IF log[pair] # Nil \/ rule[m.hand.rule] = Removed
           THEN run' = [run EXCEPT ![u] = Nil] /\ UNCHANGED <<log, mails>>
           ELSE /\ log' = [log EXCEPT ![pair] = m.hand.result]
                /\ run' = [run EXCEPT ![u].hand = Nil]
                /\ mails' = IF m.hand.result # "sent" THEN mails
                            ELSE [mails EXCEPT ![m.hand.about][m.hand.mail].logged = begun]
        /\ UNCHANGED <<accountVars, rule, edits, begun>>

EndRun(u) ==
    /\ run[u] # Nil /\ run[u].number # 0 /\ run[u].hand = Nil /\ run[u].todo = {}
    /\ run' = [run EXCEPT ![u] = Nil]
    /\ UNCHANGED <<accountVars, rule, edits, begun, log, mails>>

\* A query fails or the process stops.
BreakOff(u) ==
    /\ run[u] # Nil /\ run' = [run EXCEPT ![u] = Nil]
    /\ UNCHANGED <<accountVars, rule, edits, begun, log, mails>>

--------------------------------------------------------------------------------
NextDay == day < MaxDay /\ day' = day + 1 /\ UNCHANGED <<due, open, reachable, rule, edits, begun, log, run, mails>>
\* PUT of the account with another due date.
MoveDue(r, d) == due' = [due EXCEPT ![r] = d] /\ UNCHANGED <<day, open, reachable, rule, edits, begun, log, run, mails>>
\* Paid, cancelled, or open again (a payment removed, or the status set by hand).
Settle(r) ==
    open' = (open \ {r}) \cup ({r} \ open) /\ UNCHANGED <<day, due, reachable, rule, edits, begun, log, run, mails>>
\* The customer is given an address, or loses it.
ChangeAddress(r) ==
    /\ reachable' = (reachable \ {r}) \cup ({r} \ reachable)
    /\ UNCHANGED <<day, due, open, rule, edits, begun, log, run, mails>>

Chase ==
    \/ \E k \in Rules, offset \in Offsets, active \in BOOLEAN : CreateRule(k, offset, active) \/ UpdateRule(k, offset, active)
    \/ \E k \in Rules : RemoveRule(k)
    \/ SeedDefaults \/ NextDay
    \/ \E u \in Runs : BeginRun(u) \/ ReadAccounts(u) \/ InsertLog(u) \/ EndRun(u) \/ BreakOff(u)
    \/ \E u \in Runs, r \in Receivables : Consider(u, r)
    \/ \E u \in Runs, sent \in BOOLEAN : Send(u, sent)
    \/ \E r \in Receivables : Settle(r) \/ ChangeAddress(r)
    \/ \E r \in Receivables, d \in Dues : MoveDue(r, d)

DunningSpec == DunningInit /\ [][Chase]_dunningVars

--------------------------------------------------------------------------------
DunningTypeOK ==
    /\ day \in 0..MaxDay /\ edits \in 0..MaxEdits /\ begun \in 0..MaxRuns
    /\ due \in [Receivables -> Dues]
    /\ rule \in [Rules -> Rule \cup {Unused, Removed}]
    /\ open \subseteq Receivables /\ reachable \subseteq Receivables
    /\ log \in [Receivables \X Rules -> {"sent", "failed", "skipped", Nil}]

Logged(e) == e.logged # 0

\* The unique index of dunning_logs: overlapping runs log a step once.
LoggedOnce ==
    \A r \in Receivables : \A i, j \in DOMAIN mails[r] :
        i # j /\ Logged(mails[r][i]) /\ Logged(mails[r][j]) => mails[r][i].rule # mails[r][j].rule
\* A run leaves at most one e-mail that the log lacks: the one it failed on.
OneUnlogged ==
    \A r, s \in Receivables : \A i \in DOMAIN mails[r], j \in DOMAIN mails[s] :
        mails[r][i].run = mails[s][j].run /\ ~Logged(mails[r][i]) /\ ~Logged(mails[s][j]) => r = s /\ i = j
\* A run that read the accounts after a step was logged does not repeat it, unless the rule's log was removed with it.
NoRepeat ==
    \A r \in Receivables : \A i, j \in DOMAIN mails[r] :
        LET first == mails[r][i]
            later == mails[r][j]
        IN  i < j /\ first.rule = later.rule /\ Logged(first) /\ first.logged < later.run => rule[first.rule] = Removed
\* Under the same rules a run that did not read the accounts earlier is no milder, unless the due date was put off.
MorePressing ==
    \A r \in Receivables : \A i, j \in DOMAIN mails[r] :
        LET first == mails[r][i]
            later == mails[r][j]
        IN  i < j /\ first.edits = later.edits /\ first.run <= later.run /\ later.due <= first.due =>
            first.offset <= later.offset

(* However runs overlap, break off, and accounts, due dates and rules change  *)
(* meanwhile: a step is logged once for an account, a run leaves at most one  *)
(* e-mail out of the log, what was logged before a run began is not sent      *)
(* again, and e-mails grow no milder under the same rules and due date        *)
(* (dunning.service.ts:241-346).                                              *)
ChasingEscalates == LoggedOnce /\ OneUnlogged /\ NoRepeat /\ MorePressing

================================================================================
