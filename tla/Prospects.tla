------------------------------- MODULE Prospects -------------------------------
(* Prospecting (src/modules/prospecting: credits, people, companies, apollo,   *)
(* import): a request pays a credit, asks the data source through a cache,     *)
(* gets the credit back when the cache answered, and stores what it learnt;    *)
(* what is stored of a person may be imported as a lead. Roles, filters and    *)
(* the fields of a person or a company are left out.                           *)
EXTENDS Integers, FiniteSets

CONSTANTS
    Users,             \* requests that may be under way at once
    People, Companies, \* those the data source knows by id
    Employer,          \* the company a person comes with
    Quotas,            \* what setQuota may be given
    DefaultQuota, Cost,
    LastMonth,         \* bound: months
    MaxLeads           \* bound: leads

ASSUME ProspectsAssumption ==
    /\ Quotas \subseteq Nat /\ DefaultQuota \in Nat /\ Cost \in Nat \ {0} /\ LastMonth \in Nat
    /\ MaxLeads \in Nat /\ Employer \in [People -> Companies] /\ IsFiniteSet(Users)

Subjects == People \cup Companies

VARIABLES
    month,       \* the clock
    credit,      \* prospect_credits of the organization
    cached,      \* prospect_apollo_cache
    stored,      \* prospect_people and prospect_companies
    leads,       \* leads, by number, with the person whose e-mail they have
    links,       \* prospect_lead_links: (person, lead)
    request,     \* what each user's request is about to do
    \* History.
    kept,        \* requests of this period whose credit was not given back
    clean,       \* FALSE: a charge of this period was lost when the month turned
    peak         \* largest quota so far

prospectVars == <<month, credit, cached, stored, leads, links, request, kept, clean, peak>>
history == <<kept, clean, peak>>
book == <<stored, leads, links>>

NoCredit == [state |-> "none"]
\* rollover_credits is never written but to lower it, and starts at 0: it stays 0.
CreditsRow == [state: {"kept"}, quota: Nat, used: Int, period: 0..LastMonth]
Answers == {"none", "found", "missing"}
NotStored == [state |-> "none"]
\* email and what follows are a person's. lead 0: not imported. The lead of a link is no foreign key.
ProspectRow ==
    [state: {"kept"}, enriched: BOOLEAN, email: BOOLEAN, converted: BOOLEAN, lead: 0..MaxLeads]
IsStored(p) == stored[p].state = "kept"

NoWork == [op |-> "rest"]
Go(u, work) == request' = [request EXCEPT ![u] = work]
Conclude(u) == Go(u, NoWork)

ProspectsInit ==
    /\ month = 0 /\ credit = NoCredit /\ cached = [p \in Subjects |-> "none"]
    /\ stored = [p \in Subjects |-> NotStored] /\ leads = {} /\ links = {}
    /\ request = [u \in Users |-> NoWork]
    /\ kept = 0 /\ clean = TRUE /\ peak = DefaultQuota

--------------------------------------------------------------------------------
\* Credits.

\* ensureRow acts on the row it read without a lock: it creates a row, or starts a new month.
Fresh == [state |-> "kept", quota |-> DefaultQuota, used |-> 0, period |-> month]
Outdated(saw) == saw # NoCredit /\ saw.period # month
Refuses(saw) == saw = NoCredit /\ credit # NoCredit      \* the primary key is the organization
Ensured(saw) ==
    IF saw = NoCredit THEN Fresh
    ELSE IF Outdated(saw) THEN [credit EXCEPT !.used = 0, !.period = month]
    ELSE credit
\* What a new month forgets: nothing of its own, unless another request began it already.
Forget(saw) ==
    IF Outdated(saw)
    THEN kept' = 0 /\ clean' = (credit.period # month \/ (clean /\ credit.used = 0))
    ELSE UNCHANGED <<kept, clean>>

\* getOverview and setQuota, outside any transaction.
ReadCredits(u, then) ==
    /\ request[u] = NoWork /\ Go(u, [op |-> "ensure", saw |-> credit, then |-> then])
    /\ UNCHANGED <<month, credit, cached, book, history>>

EnsureRow(u) ==
    /\ request[u].op = "ensure"
    /\ LET saw == request[u].saw
           then == request[u].then
       IN  IF Refuses(saw) THEN UNCHANGED <<credit, kept, clean>> /\ Conclude(u)
           ELSE /\ credit' = Ensured(saw) /\ Forget(saw)
                /\ IF then.op = "show" THEN Conclude(u) ELSE Go(u, then)
    /\ UNCHANGED <<month, cached, book, peak>>

SetQuota(u) ==
    /\ request[u].op = "quota"
    /\ credit' = [credit EXCEPT !.quota = request[u].quota]
    /\ peak' = IF request[u].quota > peak THEN request[u].quota ELSE peak
    /\ Conclude(u)
    /\ UNCHANGED <<month, cached, book, kept, clean>>

\* The transaction of consume: it locks the row before it reads what is used, not the quota.
\* Faulty variant: consume trusts what it read before the lock.
SpentBefore(saw) == IF saw = NoCredit \/ Outdated(saw) THEN 0 ELSE saw.used
Spent(saw) == Ensured(saw).used
QuotaSeen(saw) == IF saw = NoCredit \/ Outdated(saw) THEN Ensured(saw).quota ELSE saw.quota
Enough(saw) == QuotaSeen(saw) - Spent(saw) >= Cost

Consume(u) ==
    /\ request[u].op = "consume"
    /\ LET saw == request[u].saw
           p == request[u].person
       IN  IF Refuses(saw) \/ ~Enough(saw) THEN UNCHANGED <<credit, kept, clean>> /\ Conclude(u)
           ELSE /\ credit' = [Ensured(saw) EXCEPT !.used = Spent(saw) + Cost] /\ Forget(saw)
                /\ Go(u, [op |-> "look", person |-> p, paidIn |-> month])
    /\ UNCHANGED <<month, cached, book, peak>>

--------------------------------------------------------------------------------
\* Enriching a person or a company.

\* Somebody stored and enriched is given back for nothing, when asked for by that row.
StartEnrich(u, p, byRow) ==
    /\ request[u] = NoWork /\ (byRow => IsStored(p) /\ ~stored[p].enriched)
    /\ Go(u, [op |-> "consume", person |-> p, saw |-> credit])
    /\ UNCHANGED <<month, credit, cached, book, history>>

StartEnrichCompany(u, c) ==
    /\ request[u] = NoWork /\ ~(IsStored(c) /\ stored[c].enriched)
    /\ Go(u, [op |-> "consume", person |-> c, saw |-> credit])
    /\ UNCHANGED <<month, credit, cached, book, history>>

\* withCache: nothing stops two requests that both find nothing in the cache.
LookUp(u) ==
    /\ request[u].op = "look"
    /\ LET p == request[u].person
       IN  Go(u, [op |-> IF cached[p] = "none" THEN "ask" ELSE "refund",
                  person |-> p, paidIn |-> request[u].paidIn, answer |-> cached[p]])
    /\ UNCHANGED <<month, credit, cached, book, history>>

Counted(u) == credit.period = request[u].paidIn
Keep(u) == kept' = IF Counted(u) THEN kept + Cost ELSE kept

Ask(u, answer) ==
    /\ request[u].op = "ask"
    /\ cached' = [cached EXCEPT ![request[u].person] = answer]
    /\ Keep(u)
    /\ Go(u, [op |-> "store", person |-> request[u].person, answer |-> answer])
    /\ UNCHANGED <<month, credit, book, clean, peak>>

\* The source fails for good, after the retries of realPost; or the process stops.
GiveUp(u) ==
    /\ request[u].op \in {"look", "ask", "refund"}
    /\ Keep(u) /\ Conclude(u)
    /\ UNCHANGED <<month, credit, cached, book, clean, peak>>

\* One UPDATE; after the month turned it takes a credit off the new month.
Refund(u) ==
    /\ request[u].op = "refund"
    /\ credit' = [credit EXCEPT !.used = @ - Cost]
    /\ clean' = (clean /\ Counted(u))
    /\ Go(u, [op |-> "store", person |-> request[u].person, answer |-> request[u].answer])
    /\ UNCHANGED <<month, cached, book, kept, peak>>

\* upsertFromApollo: a new row, or the fields of the old one; whether it is a lead stays.
NewRow(isEnriched, hasEmail) ==
    [state |-> "kept", enriched |-> isEnriched, email |-> hasEmail, converted |-> FALSE, lead |-> 0]
Learnt(p, isEnriched, hasEmail) ==
    IF IsStored(p) THEN [stored[p] EXCEPT !.enriched = isEnriched, !.email = hasEmail]
    ELSE NewRow(isEnriched, hasEmail)
UpsertCompany(c, isEnriched) == stored' = [stored EXCEPT ![c] = Learnt(c, isEnriched, FALSE)]
\* A person comes with the company, of which a bare row is made if there is none.
UpsertPerson(p, isEnriched, hasEmail) ==
    stored' = [stored EXCEPT ![p] = Learnt(p, isEnriched, hasEmail),
                             ![Employer[p]] = IF IsStored(Employer[p]) THEN @ ELSE NewRow(FALSE, FALSE)]
Upsert(s, isEnriched, hasEmail) ==
    IF s \in People THEN UpsertPerson(s, isEnriched, hasEmail)
    ELSE ~hasEmail /\ UpsertCompany(s, isEnriched)

Store(u, hasEmail) ==
    /\ request[u].op = "store"
    /\ IF request[u].answer = "missing" THEN UNCHANGED stored
       ELSE Upsert(request[u].person, TRUE, hasEmail)
    /\ Conclude(u)
    /\ UNCHANGED <<month, credit, cached, leads, links, history>>

\* saveFromSearch and saveFromSnapshot: what the search showed, unless it is stored.
BeginSave(u, p) ==
    /\ request[u] = NoWork /\ ~IsStored(p) /\ Go(u, [op |-> "save", person |-> p])
    /\ UNCHANGED <<month, credit, cached, book, history>>

SaveFromSearch(u) ==
    /\ request[u].op = "save"
    /\ Upsert(request[u].person, FALSE, FALSE) /\ Conclude(u)
    /\ UNCHANGED <<month, credit, cached, leads, links, history>>

--------------------------------------------------------------------------------
\* Importing a person as a lead.

LeadsOf(p) == {l \in leads : l.of = p}
BeginImport(u, p) ==
    /\ request[u] = NoWork /\ IsStored(p) /\ stored[p].enriched /\ stored[p].email
    /\ ~\E k \in links : k[1] = p
    /\ \E lead \in IF LeadsOf(p) = {} THEN {0} ELSE {l.n : l \in LeadsOf(p)} :
          Go(u, [op |-> "import", person |-> p, lead |-> lead])
    /\ UNCHANGED <<month, credit, cached, book, history>>

NextLead == Cardinality(leads) + 1
AddLead(n, p) == leads' = leads \cup {[n |-> n, of |-> p]}
LeadFor(u) == IF request[u].lead = 0 THEN NextLead ELSE request[u].lead

\* The link is unique per person and lead: two imports that saw no lead make two.
ImportPersonToLead(u) ==
    /\ request[u].op = "import" /\ LeadFor(u) <= MaxLeads
    /\ LET p == request[u].person
           l == LeadFor(u)
       IN  IF <<p, l>> \in links THEN UNCHANGED book
           ELSE /\ IF request[u].lead = 0 THEN AddLead(l, p) ELSE UNCHANGED leads
                /\ links' = links \cup {<<p, l>>}
                /\ stored' = [stored EXCEPT ![p].converted = TRUE, ![p].lead = l]
    /\ Conclude(u)
    /\ UNCHANGED <<month, credit, cached, history>>

--------------------------------------------------------------------------------
NewMonth ==
    /\ month < LastMonth /\ month' = month + 1
    /\ UNCHANGED <<credit, cached, book, request, history>>

\* Thirty days after it was set.
ExpireCache(p) ==
    /\ cached[p] # "none" /\ cached' = [cached EXCEPT ![p] = "none"]
    /\ UNCHANGED <<month, credit, book, request, history>>

ManageCredits(u) ==
    \/ ReadCredits(u, [op |-> "show"])
    \/ \E q \in Quotas : ReadCredits(u, [op |-> "quota", quota |-> q])
    \/ EnsureRow(u) \/ SetQuota(u) \/ Consume(u)

Enrich(u) ==
    \/ \E p \in People, byRow \in BOOLEAN : StartEnrich(u, p, byRow)
    \/ \E c \in Companies : StartEnrichCompany(u, c)
    \/ LookUp(u) \/ Refund(u) \/ GiveUp(u)
    \/ \E answer \in {"found", "missing"} : Ask(u, answer)
    \/ \E hasEmail \in BOOLEAN : Store(u, hasEmail)

SaveAndImport(u) ==
    \/ \E s \in Subjects : BeginSave(u, s)
    \/ \E p \in People : BeginImport(u, p)
    \/ SaveFromSearch(u) \/ ImportPersonToLead(u)

ProspectsNext ==
    \/ \E u \in Users : ManageCredits(u) \/ Enrich(u) \/ SaveAndImport(u)
    \/ NewMonth
    \/ \E s \in Subjects : ExpireCache(s)

ProspectsSpec == ProspectsInit /\ [][ProspectsNext]_prospectVars

--------------------------------------------------------------------------------
\* The shape of the rows; no person is linked to a lead that was never made.
ProspectsTypeOK ==
    /\ credit \in CreditsRow \cup {NoCredit} /\ cached \in [Subjects -> Answers]
    /\ stored \in [Subjects -> ProspectRow \cup {NotStored}]
    /\ links \subseteq People \X (1..MaxLeads)

UnderWay == {u \in Users : request[u].op \in {"look", "ask", "refund"} /\ Counted(u)}

\* used_this_period is the credits of the calls made and being made: concurrent requests lose
\* no charge, and what the cache answered is given back once. (A request that is under way
\* when the month turns may lose one: clean.)
UsedIsCharged ==
    credit # NoCredit /\ clean => credit.used = kept + Cost * Cardinality(UnderWay)

\* However requests overlap, with each other or with a change of the quota or of the month,
\* they do not use more than a quota the organization had.
ChargedWithinQuota == credit # NoCredit => credit.used <= peak

\* Credits are charged once for what was bought, and not beyond the quota.
CreditsAgree == UsedIsCharged /\ ChargedWithinQuota

\* A person marked as converted has a link to the lead noted in the row: an import is whole.
ConvertedIsLinked ==
    \A p \in People : IsStored(p) /\ stored[p].converted => <<p, stored[p].lead>> \in links

\* Rows are well formed, credits are charged for what was bought, imports are whole.
ProspectsAgree == ProspectsTypeOK /\ CreditsAgree /\ ConvertedIsLinked

================================================================================
