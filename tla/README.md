# StormLead: formal specification

StormLead captures homeowner leads after a storm, enriches and qualifies them,
auctions each one to prepaid tree-service contractors (ping-post), and lets
contractors ask for their money back. This directory specifies that system in
TLA+, checks finite instances with TLC and proves theorems about it, for every
value of the constants, with TLAPS.

Paths below are those of the repository, under `src/`.

## The system

All services share one Postgres database (engine default: READ COMMITTED, no
version columns, no `SELECT ... FOR UPDATE`) and one Hatchet event bus, which
delivers events and retries tasks: everything a task does may happen again.

| component | state | operations | interacts with |
|---|---|---|---|
| form-receiver (`services/form-receiver`) | `leads`, `form_audit`, `suppression_entries` | `formbricks_webhook`, `upsert_lead`, `record_audit`, `record_suppression` | pushes `lead.captured` |
| enrich-worker (`services/enrich-worker`) | `leads.status`, enrichment columns | `enrich_lead` | consumes `lead.captured`, pushes `lead.enriched` |
| agent-runtime qualify (`agent_runtime/qualify.py`) | `leads.status`, score, class | `qualify_lead` | consumes `lead.enriched`, pushes `lead.qualified`, `lead.rejected` |
| ping-post auction (`ping_post/auction.py`) | `leads.status`, `pings`, `post_results` | `run_auction` and its helpers | consumes `lead.qualified`; buyers' webhooks; pushes `lead.unsold`, `lead.rejected` |
| buyer wallet (`auction.py`, `api.py`, `tables.py`) | `buyers.deposit_balance`, `lifetime_spend`, `billing_events` | reserve, post, credit, deposit, approved return | auction runs and operators, concurrently |
| buyer returns (`api.py`) | `return_requests`, `post_results.returned` | `return_lead`, `review_return_request` | wallet, timeline |
| lead review (`api.py`) | `leads.hold_for_review` | `review_lead` | gate of the auction |
| buyer administration (`api.py`) | `buyers` | `create_buyer`, `update_buyer`, exclusive-zip check | auction eligibility |
| guardrails (`ping_post/guardrails.py`) | `buyers.status` | pause a buyer | auction eligibility |
| nurture (`agent_runtime/nurture.py`) | `leads.status` | `nurture_lead` | consumes `lead.unsold`, `lead.rejected`; outreach webhook |
| hermes (`agent_runtime/hermes.py`) | `agent_proposals` | scan | model proxy |
| task execution (`agent_runtime/execution.py`) | attempts, budget | a model call with fallbacks and time-outs | model proxy |
| storm-watcher | `storm_events` | pollers, upsert, emit | NWS, FEMA, Tropycal |
| pipeline and timeline (`stormlead_core/pipeline.py`, `stormlead_db/transitions.py`) | `lead_state_transitions`, `workflow_runs` | `record_transition` (insert if absent) | every service |
| replay (`stormlead_core/replay.py`, `scripts/replay_lead.py`) | none | re-push the event of a checkpoint | every service |
| retention (`scripts/retention.py`) | `leads` | redact old terminal leads | none |
| call tracking (`stormlead_db/call_tracking.py`) | `call_events` | `ingest_call_event` | webhooks of the provider; reads `leads` |
| reports, KPIs, readiness, CRM, mailer, attribution | none (queries) | read-only, several SELECTs each | everything the others commit |
| buyer-portal, landing | none (proxies) | forward requests | form-receiver, ping-post |

What is hard in it:

- **Overlap.** The auction of a lead can be started by the event, by
  `POST /v1/auction`, by a replay and by a Hatchet retry; nothing locks a lead.
  Operators work on the rows that auctions use.
- **Two ways of writing a wallet.** Auctions issue conditional relative
  `UPDATE`s. Deposits and approved returns load the row and flush an absolute
  value.
- **Work between transactions.** A run commits the debit, calls a webhook for
  seconds, then commits the outcome, then commits the credit. It can be cut off
  anywhere (crash, 30 s task time-out, exception).
- **Events around commits.** Some events are pushed before a commit, some after.
- **Reports in motion.** A report is several SELECTs, each of which sees the
  commits made before it: its figures belong to different moments.
- **At least once.** Events and tasks repeat; what makes a repetition harmless
  is a sold-check, a unique delivery key or an insert-if-absent.

What makes each component correct:

- *wallet*: never negative; explained by its ledger; every reserved cent settles
  once;
- *auction*: a lead is sold once; a delivery is billed once; a failed delivery is
  credited; caps are kept; the timeline tells the truth; an unsold lead is
  nurtured;
- *returns*: one active request per sale; one credit per sale; the sale, the
  ledger, the timeline and the requests agree; a verdict is final;
- *intake*: a retried webhook writes one lead and still announces it; an
  opted-out phone is not captured;
- *pipeline*: recorded transitions are edges of the graph and start where the
  lead has been; a status has its row and does not go back; a homeowner is
  contacted once; a captured lead gets somewhere;
- *buyer roster*: two active buyers never own one exclusive zip; a buyer that
  keeps the threshold is not paused;
- *agent tasks*: bounded attempts and cost; what is reported agrees with what was
  committed; one set of proposals per scan;
- *storm-watcher*: a storm is recorded; its row does not go back to an older
  report;
- *call tracking*: a call belongs to the newest lead of its phone;
- *reports*: a margin is not overstated, readiness rests on evidence that exists,
  and figures taken at rest agree.

## Modules

| module | models | state |
|---|---|---|
| `Wallet` | the wallet and its ledger, abstractly: reserve, post, credit, ORM read, ORM write, abort, a run's loss of its reservation | `active`, `balance`, `spend`, `billed`, `hold`, `orphaned`, `req`, `raced` |
| `Auction` | `run_auction`: one action per commit, webhook call or push; the nurture worker; the operator | the wallet, and `run`, `post`, `status`, `held`, `timeline`, `events`, `sold`, `starts`, `crashes` |
| `Returns` | `return_lead` and `review_return_request`: one action per SELECT and one per flush and commit | the wallet, and `sale`, `returned`, `rows`, `call`, `timeline`, `credits`, `overlapped` |
| `LeadIntake` | `formbricks_webhook`, `upsert_lead`, `record_audit` and `record_suppression`: one action per SELECT, per insert and commit, and for the push | `leads`, `audits`, `suppressed`, `announced`, `handler`, `accepted`, `optedOut`, `deliveries`, and three histories |
| `LeadGraph` | the pipeline graph, abstractly: a lead walks an edge out of a state it has reached, or that somebody claimed it had reached | `timeline`, `claimed` |
| `LeadPipeline` | `enrich_lead`, `qualify_lead`, the outcomes of `run_auction`, `nurture_lead` and `replay_lead` as tasks that run at least once and overlap | `status`, `timeline`, `pending`, `task`, `posted`, `contacts`, and the histories `failures`, `replays`, `claimed`, `lost` |
| `BuyerRoster` | `create_buyer`, `update_buyer` with the exclusive-zip check, and `evaluate_buyer_guardrails` | `status`, `exclusive`, `delivered`, `approved`, `call`, `eval`, and the histories `calls`, `failures`, `unsure`, `served`, `touched`, `skewed` |
| `AgentTask` | `run_agent_task` under `qualify_lead` and `hermes_self_evolution`: models, fallback, caps, events, retries, interruptions | `pc`, `left`, `paid`, `proposals`, `log`, and the histories `silent`, `early`, `late` |
| `StormWatcher` | the three polls of the storm watcher and the feeds they read | `feed`, `published`, `season`, `first`, `latest`, `poll`, `failures` |
| `CallTracking` | `ingest_call_event` as a SELECT and an upsert, while leads are captured and redacted | `born`, `redacted`, `attributed`, `handler`, `deliveries`, `known` |
| `Reports` | five operator reports, one action per SELECT; extends `CallTracking`, which writes some of what they read | the above, and `delivered`, `failed`, `returned`, `credits`, `approved`, `report`, `dirty`, `revoked` |
| `MCAuction`, `MCReturns`, `MCLeadIntake`, `MCLeadPipeline`, `MCBuyerRoster`, `MCAgentTask`, `MCStormWatcher`, `MCReports` | finite instances | none |
| `Wallet_proofs`, `Auction_proofs`, `Returns_proofs`, `LeadIntake_proofs`, `LeadPipeline_proofs`, `BuyerRoster_proofs`, `HatchetTasks_proofs` (of `AgentTask` and `StormWatcher`), `Reports_proofs` | theorems | none |

Two modules are both components and abstract specifications. `Auction` and
`Returns` extend `Wallet`, use its actions, and are shown to implement
`WalletSpec` (`WalletRefined`, a PROPERTY of two runs and a theorem of each).
`LeadPipeline` is shown to implement `LeadGraph!GraphSpec` (`GraphRefined`, a
PROPERTY and a theorem): every step of four services and of the operator is to
"walk an allowed edge", to "claim a state", or a stutter.

`Auction` shows the money and the rows of one stage in detail; `LeadPipeline`
shows the whole chain and takes of the auction only what it leaves behind (the
edges, the status, the events and their order around the commits).

### How the model corresponds to the code

- A **transaction** is one action when it is one statement or when row locks
  held from its first write to its commit make it look like one. Otherwise each
  SELECT is an action and the flush and commit is another. That is where other
  actors interleave. `get_session` commits at the end of its block and rolls
  back on an exception.
- The **ORM** writes only the attributes that differ from what was loaded, with
  absolute values. `OrmRead` and `OrmWrite` are that pair; `raced[b]` remembers
  that the row had changed in between. `WriteStatus` in `Returns` leaves a status
  alone when it equals the one loaded.
- `run[r]` holds a run's **locals** and its program counter. `CutOff(r)` ends a
  run at any step: the open transaction is rolled back, an event pushed inside
  it may have left already, and the run is retried (`Retry`) or dropped. A task
  delivered again after it finished is another `Start`.
- The **bids** of the fan-out are one function chosen in `PingBuyers`; a buyer
  that declines, errs or times out answers 0. `BidWindowExpires` is the
  cancellation of the whole `gather` by `wait_for`.
- `post` is `post_results` by its unique **delivery key** (lead, buyer, bid);
  `RecordConflict` is the violation of that index.
- `timeline` keeps the set of **(from, to) edges** because `record_transition`
  inserts if absent. Its other columns are not modelled, nor are the rows of
  operator reviews.
- `billed[b][t]` is the **sum** of the ledger rows of a type. `hold[r]` is the
  reservation that a run knows it made.
- A **webhook delivery** is a slot of `handler`. `Deliver` may repeat a webhook
  before or after an earlier delivery ended; `Fail` ends a request at any step
  (the 503 of a failed push, a database error, a crash) and a later `Deliver` is
  the retry. Deliveries that the signature, the size limit or the consent
  extraction refuses change nothing and are left out; so is an opt-out sent again.
- A **lead** is its unique key (phone, page hash) with what decides its fate at
  intake: whether it lies within the 72-hour duplicate window (`Age` ends that),
  whether it is blocked as a duplicate and whether it is held for review
  (`QualityScore`, in hundredths).
- Variables named as **history** (`orphaned`, `raced`, `overlapped`,
  `disregarded`, `disturbed`) exist in no table, nor do `accepted` and
  `optedOut`, the answers that callers saw. No guard reads a history, except that
  `FindEntry` reads `optedOut` to leave out the opt-out sent again and
  `DeliverLead` reads `served`.
- A **Hatchet task** of `LeadPipeline` is a slot of `task`: `Take` consumes an
  event, the actions that follow are its transactions, webhook calls and pushes
  in the order of the code, `Finish` returns. `Fail` ends it at any step, rolls
  back the open transaction and starts it again from the top while `left` allows;
  then the lead is in `lost`. `Replay` pushes an event for any checkpoint at any
  time, without its `source_event`.
- The **flush** of `FlushStatus` and `WriteBuyer` leaves an attribute alone that
  equals the one loaded, whatever the row says by then. The auction reads and
  writes the lead in adjacent statements; there the pair is one action.
- In `BuyerRoster` the **exclusive-zip check** belongs to `BeginCreate` and
  `BeginUpdate`, apart from the load and the write. The **evaluation** is one
  transaction: `eval.paused` holds the rows that it has updated and locked
  (`WriteBuyer` waits for them), `CommitPauses` makes them visible,
  `FailEvaluation` rolls them back. What it counts moves meanwhile:
  `DeliverLead` records a sale for any buyer that a run may have reserved while
  it was active (`served`), `ApproveReturn` adds an approval, and
  `OverwriteApproval` is the hold or rejection that overlapped one and writes its
  own verdict over it, as `Returns!WriteStatus` does.
- In `AgentTask` an **attempt** ends by `Return`, as a dead letter (`DeadLetter`
  emits and raises, whatever retries are left) or by `Interrupt`, which emits
  nothing. `Report` emits the success and `Return` ends the task at Hatchet; an
  interruption may come between them. `FailEarly` is an attempt that fails before
  its first event.
- In `StormWatcher` a **poll** is what is left of the list of reports it was
  sent; a list is an order, the set of the pairs of a report and itself or one
  that follows it. `first` and `latest` are the halves of a row that the upsert
  keeps and overwrites.
- In `Reports` a report is the list of its **SELECTs** and the figures read so
  far. `Deliver`, `Approve`, `Overwrite` and the steps of `CallTracking` commit
  in between; the reports read them at READ COMMITTED.
- The histories `claimed`, `lost`, `unsure`, `served`, `touched`, `skewed`, `silent`,
  `early`, `late`, `overtaken` (of a call or a poll), `known`, `dirty` and
  `revoked` exist in no table, and no guard reads them but `served`. The counters of failures,
  replays and calls are read by their bounds only.

Abstractions: one day and one month (caps); the roster and cap queries of one
selection are read in one step; the CEL filter and the zip and service rules are
the constant `Matches`; `Routing` is what `_lead_can_enter_auction` says of
class, score and fraud flag; what enrichment, the model or a buyer answers is a
choice; ping rows, payloads and log lines are left out.

Three places where the models and the code differ, and why it does not matter:

- `StormWatcher!Fetch` gets the whole feed or nothing. The hurricane center's
  systems are loaded basin by basin, and a basin whose load fails is left out
  (`storm_watcher/tropycal_poller.py:56-61`); a poll of the other basin alone is
  left out of the model. Such a poll records what it was sent, and the next
  complete one records the rest: what is lost is time. Systems without an id are
  dropped by the load (line 49) and are no reports here.
- `LeadPipeline!CommitRefusal` and `CommitFailure` allow more than the code: the
  status is flushed before the event can be handled, so that the nurture worker
  waits for the row. Here it may write first. What holds of more behaviours holds
  of fewer.
- `Reports!Begin` starts the reports of one campaign. `launch_readiness` and
  `normalized_kpis` without a campaign (`ping_post/api.py:1939-1971, 2104-2130`)
  run the same SELECTs without the filter.

## Runs

| run | instance | checks and shows |
|---|---|---|
| `auction_serial` | 1 run slot, 2 leads that may be auctioned and 1 that is refused, 2 buyers, 1 amount, opening balances of none or two of it, 2 starts, 1 cut-off, 2 post attempts, daily cap 1, bid window may expire | `OneSalePerLead` through retriggers and retries; `DailyCapKept` |
| `auction_overlap` | 2 slots on 1 lead, 1 buyer, an operator request, 2 amounts, 1 cut-off, deposits to 2 cents, fairness | `NoOverdraft`, `LedgerExplainsWallet`, `ReservationsAccounted`, `DeliveriesBilledOnce`, `TimelineShowsSales`, `WalletRefined`, `ReservationsSettle`, `UnsoldIsNurtured` |
| `returns` | 2 request slots, 2 sales, 2 requests, deposits | `OneActiveRequest`, `ApprovalsAgree`, `ReturnsConsistent`, `CreditedOnceAlone`, `VerdictIsFinal`, `WalletRefined` |
| `intake` | 2 request slots, 3 forms of one phone, 2 of them from one page, 3 deliveries, all opt-outs of a phone and an email address | `AnnouncedOnce`, `AnnouncedUnlessDisturbed`, `OneUnblockedLead`, `SingleOptOutHonoured` |
| `pipeline` | 1 lead, 2 executions at once, 1 failure, 1 replay of any checkpoint; the auction has one retry, the other tasks none; fairness | `GraphRefined`, `StatusIsRecorded`, `StatusGoesForward`, `OneFate`, `ContactsBounded`, `CapturedLeadEnds` |
| `roster` | 2 buyers, 1 zip, 3 calls of which 2 at once, a tolerance of 2 leads per return, 2 deliveries, 1 approved return at a time, which may be overwritten, 1 failed evaluation | `ExclusiveUnlessUnchecked`, `PausesAreJustified`, `PausesActiveBuyers` |
| `storms` | a seasonal and another source, 2 storms, 5 reports (one superseding another, one irrelevant, one malformed), 2 polls at once, 1 failure, fairness | `StormIsRecorded`, `LatestGoesForward`, `StormTypeOK` |
| `agents` | a qualification (2 retries) and a scan (1 retry) that saves 2 proposals at most | `ReportsAreTrue`, `SpendBounded`, `ProposalsBounded` |
| `reports` | 2 leads of one phone, 1 call announced twice, 2 handlers, 2 sales, 2 credits, 1 market of one lead | `AttributionIsFresh`, `MarginNotOverstated`, `ReadyIsBacked`, `FiguresAgree` |
| `exclusive` | 2 overlapping runs, 2 buyers | **violated** `OneSalePerLead`: nothing locks a lead, the delivery key differs by buyer and bid |
| `lost_capture` | 1 form delivered twice, 1 slot | **violated** `AcceptedIsAnnounced`: the handler fails between the commit and the push, and the retry takes the lead for a duplicate |
| `early_dead_letter` | 1 qualification with retries | **violated** `DeadLetterIsLast`: the first attempt that fails emits `agent.task.dead_lettered` and is run again, where the retry runbook has the event after the retry budget is exhausted |

The last three state what the repository's documents or error messages say;
`findings` in `PROJECT.json` quotes them.

### What the conditions of the properties say

Several properties hold only with an exception, and the exception is what the
code does otherwise. TLC violates each of them without it.

- `ReservationsAccounted`: a debit whose run was cut off is in nobody's hands
  (`orphaned`); it is given back by no one.
- `LedgerExplainsWallet`: a deposit or an approved return overwrites what was
  committed after it had read the row (`raced`).
- `CreditedOnceAlone`, `VerdictIsFinal`: two handlers that work on one sale at
  once (`overlapped`) can both credit it, and a later verdict can undo another.
- `SingleOptOutHonoured`: an opt-out of a phone *and* an email address that finds
  an entry for one of them adds nothing for the other.
- `StatusGoesForward`: `lead.unsold` and `lead.rejected` may be pushed before the
  status is written, so that `nurtured` is overwritten by the auction.
- `CapturedLeadEnds`: a lead parked by the gate of the auction stays there;
  `review_lead` clears the hold and starts nothing.
- `ExclusiveUnlessUnchecked`: the check and the write are two transactions, and
  an update that does not name the zips (an activation) is not checked.
- `PausesAreJustified`: a sale between the two counts of the rate makes it higher
  than it ever was, and so does an approved return that an overlapping review
  overwrites after it was counted. `PausesActiveBuyers`: a suspension committed after the
  listing gives way to the pause.
- `ReportsAreTrue`: a worker lost between the commit and the return runs the task
  again; then a success is reported twice, or not by the attempt that saved.
- `SpendBounded` counts attempts, interrupted ones included.
- `ProposalsBounded`: a scan interrupted after its commit inserts again.
- `StormIsRecorded`: a report that cannot be normalized hides those behind it.
  `LatestGoesForward`: the slower of two polls writes its older report last.
- `FiguresAgree` holds at rest; `MarginNotOverstated` and `ReadyIsBacked` hold
  while rows are written, because of the order of the SELECTs.

Two observations that no property states: the auction never looks at
`exclusive_zips` (`ping_post/auction.py:297-306`; they only matter to the check
of the administration), and the guardrail on the mean ping answer (600 s) cannot
be met, because a ping is given 2.5 s.

**Bounds.** `MaxStarts` (auctions requested), `MaxCrashes` (cut-offs),
`MaxDeposited` (cents deposited per buyer, the opening balance included), `RequestIds` (return requests),
`MaxDeliveries` (webhook deliveries, of forms or of calls), `MaxFailures` (failed
attempts, evaluations or polls), `MaxReplays`, `MaxCalls`, `MaxSales`,
`MaxReturns`, `MaxCredits` and the sets of slots bound what may happen;
`MaxAttempts`, `Retries` and `MaxProposals` are the code's own, of which the runs
take smaller or equal values. Two slots suffice for the interleavings of
interest, because every conflict in the code is between two transactions over
one row. In `auction_overlap` two amounts make a bid exceed a balance and a
second bid differ from the first under the delivery key. In `auction_serial` two
leads, a cap of one and an opening balance of two bids let a second sale be
refused for the cap alone. Two starts and a cut-off let a trigger, its repetition or a trigger of
another lead, and a retry meet. Money is conserved per buyer and no action moves
it between buyers, so that the overlap of runs is checked with one buyer; the
double sale and the caps have two. Three deliveries let a form, its repetition
and another form of the same phone meet. Leads do not meet in `LeadPipeline`, so
that one suffices; one failure and one replay are enough to overlap every task
with every other, and with itself. Three calls make a check, the write that
overtakes it and an unchecked activation. A tolerance of 2 (the code has 4) puts
the threshold within reach of two sales. Two positions of one hurricane make an
overtaken poll visible. Two sales and two credits make a report mix moments, and
a sale be credited twice.

**Deadlock** is not checked: every instance stops when its starts, cut-offs,
deposits, deliveries, calls or tasks are used up, and the real system is idle
without requests.

**Fairness.** Hatchet reassigns the task of a lost worker and delivers events at
least once; the crons tick for ever.

- `AuctionFairness`: a run that can take a step takes one, and a queued event is
  handled.
- `FairPipelineSpec`: events are delivered (weakly fair) and every task under way
  goes on. Nobody is obliged to capture, replay or fail.
- `StormFairness`: strongly fair fetches, because a tick finds its slot free or
  its source answering only from time to time, and weakly fair progress of a poll.

## Theorems

All are `Spec => []Inv`, action properties, `Spec => WalletSpec` or
`Spec => Graph!GraphSpec`, for arbitrary sets of buyers, leads, runs, workers,
requests and reports, and for any number of failures, replays and retries. Every
safety property that a passing run checks is stated by a theorem.

- **Sums.** `SumFunctionOnSet` is a fold, so a function chosen among those that
  satisfy a recursion. The induction theorems of the library cannot be used with
  the provers at hand; `Wallet_proofs` reasons by a **smallest counterexample**
  instead (`LeastNumber`, from the well-foundedness of `<`; `SmallestSet`, by
  cardinality). `AdderExists` shows that the recursion has a solution on every
  finite set, `SumIsAdder` that the fold is one, and `SumRemoves` that it does
  not depend on the order in which the fold takes the elements. `SumAdds`,
  `SumOrder`, `SumSame`, `SumZero` and `SumSplits` follow; the other modules use
  these only.
- **Wallet.** `WalletInv` strengthens `NoOverdraft` by
  `SeenBalancesNotNegative`: an ORM write puts back a balance that was once
  current, so a lost update never overdraws. `LedgerExplainsWallet` holds unless
  a lost update happened (`raced`). `ReservationsAccounted` is inductive with
  `WalletInv`: a reservation adds one amount to the ledger and to what the runs
  hold (`HoldAdds`), a delivery, a credit or a loss takes it away (`HoldSettles`),
  and deposits and returns touch neither.
- **Auction.** `AuctionImplementsWallet` maps every step to a wallet step or a
  stutter; the wallet's theorems follow for auctions with any overlap, cut-off
  and operator. The induction is over `AuctionInv`: rows are typed, and a run
  past the choice of the winner carries a bid. `TimelineIsTrue` holds for any
  overlap. `DeliveriesAreBilledOnce` needs `BilledInv`: a run that holds money
  is between its debit and its settlement and holds exactly the bid it will bill
  (`HoldsItsBid`), and the delivery key it records is new, so that one row is one
  summand. `LoneRunsSellOnce` and `LoneRunsKeepTheCap` assume one run slot (their
  hypothesis names it). `LoneRunInv`: a run past the sold-check works on a lead
  without a delivery. `LoneCapInv`: the buyers that a run may choose from are
  below their cap, and still are when it records the sale.
- **Returns.** `ReturnsInv` adds what a handler knows. `ReadsAreFresh`: what a
  handler read still holds unless it was overlapped. `OverlapsAreNoted`: two
  handlers on one sale are noted in `overlapped`. `ReviewsKnowTheirRow`,
  `ActiveIsUnique`. From it: one active request, agreement of the approval
  records, one credit without overlap, consistent requests, final verdicts.
- **Intake.** `AnnounceInv` says who may still push: `AnnouncedByCreator` (a
  lead was announced, or its creator is on the way, never both) on
  `CreatorsHaveInserted` and `AuditsHaveLeads`; `LeadsAreCovered` and
  `OverlapsAreNoted` account for every lead that nobody will announce. From it:
  one announcement at most, and none missing without a disturbance. `BlockInv`:
  a check that found no recent lead is still right (`ChecksAreFresh`) unless two
  forms raced. `OptOutInv`: a single opt-out always has an entry that covers it
  (`SinglesAreListed`), and a handler past the suppression check knows of
  opt-outs of both phone and email only (`HandlersKnowOptOuts`).
- **Pipeline, as a graph.** `PipelineImplementsGraph` maps each step to a walk, a
  claim or a stutter. An edge may be walked only out of a known state, so the
  induction (`PipelineInv`) is over what makes a state known: every event on its
  way and every task names a state that was reached or claimed
  (`EventsGrounded`, `Named`), and a task that is past a step has recorded what
  the step records (`Staged`). Rows and claims are never forgotten, so that the
  facts about one task survive the steps of all the others. From it
  `StatusHasItsRow`.
- **Pipeline, as a count.** `OneFate` and `ContactsBounded` are not inductive:
  whether a second message may follow depends on events and tasks that are
  elsewhere. `CountInv` gives every lead one chance for its capture and one for
  each failure and replay (`Granted`), and lets an event on its way, an execution
  that may still push or send, and a sale stand for one chance each (`Chances`).
  `ContactsCounted`: chances and messages never exceed what was granted.
  `FatesCounted`: the same with executions that may still nurture and the row
  `nurtured` in place of the messages. Each action passes a chance on or uses it
  (`Spends`), `Fail` and `Replay` grant one. `OneFate` is the case of one chance.
- **Pipeline, as an order.** `StatusGoesForward` needs `YoungInv`: while nothing
  was repeated for a lead that waits to be enriched, it has not been beyond
  `captured`; while it waits to be qualified, not beyond `enriched`; and in
  neither case is the gate about to refuse it. With the counts it shows that each
  status is written over an earlier one, except where the auction announces
  `unsold` or `rejected` before it writes it.
- **Roster.** `RosterInv` says that a check which no write has overtaken still
  holds (`ChecksHold`), that the buyers an evaluation deals with were active or
  have been written by an operator (`ListedOK`), and that what it counted is so or
  has changed since in the buyer's favour (`CountsOK`). From it: `OnlyUncheckedShare`, `PausesAreDue`,
  `OnlyActiveArePaused`.
- **Agent tasks.** `AgentInv` counts: attempts that are over are the retries used
  up (`AttemptsInv`), successes are reported by attempts that saved (`ReportsInv`), what is paid is bounded by them and by the place of the
  attempt under way (`SpendInv`), and so is what is saved by the interruptions
  (`ProposalsInv`).
- **Storm watcher.** `StormInv`: a feed lists nothing that a published report
  supersedes, and polls and rows hold published reports only. So what supersedes
  a report of a poll is seen by nobody (`Unseen`) as long as the poll is not
  overtaken (`PollInv`): whoever fetches it later overtakes the poll.
- **Call tracking and reports.** `FreshInv`: what a handler looked up is at least
  as new as what the first announcement found. `ReadInv`: a figure above zero has
  rows behind it, and the rows that the readiness report reads before its last
  SELECT only grow, except for an overwritten approval (`revoked`). From them
  `CallsAreFresh` and `ReadinessIsBacked`. `FiguresInv`: returns and approvals are
  of delivered sales; a figure read is that of the rows while nothing was
  committed since; and a gross sum read is no greater than the one there is,
  because deliveries only grow. Credits are read last, so that the margin is that
  of an older gross sum (`MarginIsNotOverstated`). `QuietReportsAgree` splits the
  delivered bids into returned and kept ones.

Assumptions. `CentsAssumption`: amounts are positive integers, and an opening
balance is not negative, as the API demands (`ping_post/api.py:112`). For bids, the code
relies on the buyer here: `_pick_winner` drops zero, and nothing refuses a
negative bid. `RunsAssumption` and `PipelineAssumption`: the runs and the
executions at once are finitely many (the services' workers have 4 or 10 slots); the sums
and the counts need it. `AuctionAssumption`: the daily cap is at least 1, as
the API demands of every buyer (`ping_post/api.py:110`). `StormAssumption`: a report supersedes reports of
its own source, because a source rewrites its own feed only. For the rest, these
and `ReturnsAssumption`, `IntakeAssumption`, `RosterAssumption`,
`AgentAssumption`, `CallAssumption` and `ReportsAssumption` say that the
constants have their types, that no phone, email address, buyer, lead or report
is the missing one, that the guardrail's tolerance is not zero, and that the
posts are finitely many.

**Only model-checked**: the liveness properties (`ReservationsSettle`,
`UnsoldIsNurtured`, `CapturedLeadEnds`, `StormIsRecorded`), because
reasoning about fairness needs `ENABLED`, which is out of the prover's reach; and
the three properties that runs violate.

## Plan

Done: the wallet, the auction, returns, intake; then the pipeline with its graph,
the roster with the guardrails, agent tasks, the storm watcher, call tracking and
reports; and a theorem for every safety property of these. What is left, in this
order:

1. Theorems beyond the properties of the runs: what the violated ones come to
   when their exceptions are stated (the double sale needs two overlapping runs
   or a second bid; a lost capture needs a failure between commit and push).
2. The rows of operator reviews in the timeline, and the summaries that read them.
3. Retention as a job of its own (selection by age and status, batch by batch).
4. Pure definitions against references: class from score, lead quality, cap and
   refill arithmetic, attribution weights.
5. Negative bids, once the code says what they should do.

## Not modelled

- CEL evaluation, HMAC, geocoding, photo classification, consent certificates and
  the contents of model answers: libraries and services without state here. The
  models take their outcome as a choice or as a constant.
- HTML templates and the proxies of the portal and the landing page: they forward
  requests and keep nothing.
- Reports that are one query, and the figures of the others that stand alone
  (wallets, coverage, latencies): one SELECT is one moment.
- Logging, metrics, data classes, engine caching per event loop: no effect on the
  properties.
- Migrations, seeds, simulations and smoke tests: deployment and test tooling.
