# A verification of hybrid-ops-agent

These TLA+ modules model the service in `src/src`, the back end that answers operator
requests with deterministic flows, with a classifier in front of them, or with a
tool-using model (Mode A). TLC checks the modules on small instances. TLAPS proves the
most important invariants for every value of their constants.

The models are read from the code. Line references below are to files under `src/src/`.

## 1. The system

| Part | State | Operations | What makes it hard |
|---|---|---|---|
| **Refund policy** (`support-desk/refund-policy.ts`) | none | dollar thresholds, remaining-term ceiling | rounding, day boundaries, a renewal in the future |
| **SupportDesk services** (`tickets`, `subscriptions`, `refunds`, `legal-keyword-filter`) | `tickets`, `ticket_messages`, `refunds`, `transactions`, `audit_log` | `addMessage`, `updateStatus`, `checkLegalOrSecurityFlags`, `getByUserId`, `issueRefund` | three rows make one refund; `updateStatus` has no condition; each statement may fail |
| **Ticket flows** (`orchestrator/flows/resolve-billing-ticket`, `triage-ticket`, `ticket-classifiers`) | what a request keeps across an await | check, classify, fetch, refund, reply, set status | the check is read before two awaits and used after them; a retried request runs twice |
| **Orchestrator** (`orchestrator.service`, `classifier.service`, controllers) | none of its own | classify the prompt, guard the ticket, dispatch, fall back | the guardrail must hold on every route |
| **Mode A agent loop** (`agent/agent.service`, `compaction`, `tools`, `tools-supportdesk`) | the conversation, the turn log, the compaction cooldown | a turn, its tools, escalation, the iteration cap, compaction | a summary replaces history under the API's alternation rule; calls that fail in the middle |
| **User administration** (`users/users.service`, `audit/audit.service`) | `users`, `audit_log` | `create`, `update`, `suspend`, all with `resolveActorRole` and `authorize` | row and audit entry in one transaction; the actor's role is looked up in the table being changed |
| **User flows** (`suspend-by-domain`, `bulk-onboard-users`, `bulk-create-users`, `risk-assessment`) | a flow's rows and verdicts | suspend a domain, onboard a batch, import a CSV | each treats a failure in row *n* differently: keep, roll back everything, go on |
| **Database boot** (`database.service`, `seed`) | the schema, the rows of all tables, SQLite's id counters | create, wipe, count, seed | two transactions with a read between them, other processes on the same file, death at any statement |
| Knowledge base, read-only controllers, LLM client, turn logger, module wiring | none that changes after boot | queries, logging | – |

How the parts interact: HTTP controllers call the flows or the orchestrator. The
orchestrator calls the classifier (an await), then a flow or `AgentService.run`. Flows and
tools call the services, and the services call SQLite synchronously. There is one database
connection, no lock and no shared memory besides the tables. A request therefore runs
undisturbed from one `await` to the next, and the awaits (model calls) are the only points
where requests interleave. Between two awaits only a failing statement can
interrupt the work. The file itself can be open in several processes: a server, the server
that replaces it, `npm run seed`. Between processes, statements and transactions interleave
under SQLite's one write lock.

What must hold, per part:

* **refunds**: three rows per refund or none; each within role, ceiling and threshold rules
  on its day; what the caller and the customer are told is what happened;
* **guardrail**: no flagged text goes to a model; a ticket with a legal or security keyword
  is left to a human on every route;
* **statuses**: "resolved" only with a refund and a notice;
* **user tables**: the log explains the table; every entry was lawful; batches roll back
  whole; a domain suspension stays within its limits; answers name what was done;
* **agent loop**: requests the API accepts, no turn forgotten, history bounded, no tool of
  an escalating turn run, and an end to every run;
* **boot**: a whole seed or none of it, no dangling reference, and an end to every boot.

`PROJECT.json` lists the hazards behind these, each at its line.

## 2. Modules

```
RefundPolicy ── SupportDesk ── TicketFlows ── DeskProperties ── MCDesk
      │                             │               │
      │                        RefundBook  <── refinement (Book)
      └── RefundPolicyProofs ───────┴── DeskProofs ─┬─ GuardrailProofs
                                                    └─ OutcomeProofs

UserAdmin ── UserAdminProperties ── MCUsers
                    │   └── refinement (Table) ──> AuditedTable
                    └── UserAdminProofs ── UserFlowProofs

AgentLoop ── AgentLoopProofs

Boot ── BootProofs
```

**`RefundPolicy`** has both business rules as operators over whole cents and days. The
ceiling is `round(mrr * remainingDays / BILLING_PERIOD_DAYS)`.

**`SupportDesk`** has the tables and the service operations. `ticketStatus` is
`tickets.status`. `thread` holds the messages agents wrote. `refunds`, `transactions` and
`audit_log` hold the rows written since the boot, in id order. `mayRefund` is every check
`issueRefund` makes, `recordRefund` its transaction. Tickets, subscriptions and customers
are constants: no service inserts or changes them, apart from a ticket's status. `role` is
the one place where the desk and user administration meet: what an actor string resolves to
in the `users` table, which `ChangeRole` (a call of `UsersService` by somebody else) may
change between any two steps of a request. A message
text is kept as what the properties can tell apart: routing text, refund notice with its
amount, or a free reply that may contain a keyword.

**`TicketFlows`** has the requests. `req[r].pc` names the await a request has reached, and
an action is the code from that await to the next:

| action | code |
|---|---|
| `PostResolve`, `PostTriage`, `PostPrompt` | a controller up to the first await |
| `ClassifierAnswers` (`Dispatch`) | `OrchestratorService.run` after its classifier |
| `CategoryAnswers` | `TriageTicketFlow.execute` after its classifier |
| `IntentIsNoRefund`, `IntentIsRefund` | `ResolveBillingTicketFlow.execute` after the intent classifier |
| `Refund`, `RefundRejected`, `CommittedThenFailed` | the same after `Promise.all`, and its `catch` |
| `AgentReadsTicket`, `AgentRefunds`, `AgentReplies`, `AgentCallChangesNothing`, `AgentEscalates`, `AgentFinishes` | the tools of a Mode A session, one call a step |
| `RequestFails` | a rejected model call, or a first statement that throws |

What the code read before an await stays in the request record, where it may be stale:
the subscription, the amount, the ticket that passed the check. A variable `exposed`
records which ticket texts a request has put before a model, and at which await.
`Classifications` are the values `ClassifierService.classify` can return, `Engine` the choice
`OrchestratorService.run` makes from one: a flow, user administration, or Mode A.

**`RefundBook`** is the abstract promise of the money side: an append-only book with a
ledger and an audit log, one lawful posting at a time, by somebody who is staff at that
moment, while the staff changes. `DeskProperties` maps the desk onto it (`Book`), and
`ImplementsRefundBook` says that the desk implements it.

**`UserAdmin`** has the users table, its audit log, the mutations and the three flows, one
step per mutation. `flow` is the flow being executed with one verdict per row. `past` is a
history variable: the table before each audit entry. A call that is refused changes
nothing, so it is no action. `Like` is the pattern match of `findByDomain`, a recursive
function on the positions of the pattern whose value is the set of places in the text where
the rest of the pattern fits. `parseCsv` takes a file as lines of cells and gives each data
row under its line number.

**`AuditedTable`** is what another reader of the database may rely on: rows and log change
together, in groups of lawful entries, and what was logged stays. Calls, flows and rollbacks
do not exist there. `UserAdminProperties` maps the committed state onto it (`Table`): while a
batch runs, that is the state the batch saved when it began.

**`AgentLoop`** has one Mode A run: the conversation as the next request would show it, the
turn log, the compaction cooldown. A message carries the turns it tells of, which is what
makes "nothing is forgotten" a statement about summaries of summaries. The tools' effects
are not here but in `TicketFlows` and `UserAdmin`.

**`Boot`** has the SQLite file and the processes that open it. `disk` is what is committed,
`work` what the open transaction sees, `writer` whose transaction it is. One action is one
statement, or one short transaction of a server at work:

| action | code |
|---|---|
| `Start`, `CreateTable` | `onModuleInit`, `createSchema` (each `CREATE TABLE` commits by itself) |
| `BeginWipe`, `DeleteTable`, `ResetSequences`, `CommitWipe` | `cleanUpAllTables` |
| `CountUsers` | the count at the top of `seedIfEmpty` |
| `BeginSeed`, `SeedUser`, `SeedArticles`, `SeedDemo`, `CommitSeed` | the rest of `seedIfEmpty` |
| `Busy`, `Crash` | the lock is not given back in time; the process dies, or closes the file |
| `CreateUser`, `ReadParent`, `WriteChild` | the inserts of `UsersService`, `RefundsService`, `TicketsService` |

A foreign key is the rule it is in SQLite: an insert without its parent and a delete of a row
something refers to throw (`ParentExists`, `Referenced`). A row is kept as the user it hangs
on, which names it because a customer has at most one subscription and one ticket.

Definitions whose comment begins with "Mutant" are deliberately wrong variants of the one
that follows. No specification uses them; they are there to show that a property notices
the bug.

## 3. What TLC checks

| run | instance | what it shows |
|---|---|---|
| `desk_safety` | 2 requests, 3 tickets (one flagged, one whose customer has no subscription) and an id without a row, one of two subscriptions renewed in the future, an editor and a viewer, writes that fail, 2 days | `TypeOK`, `RefundTriple`, `RefundsWithinPolicy`, `ResolvedMeansRefunded`, `NoticesAreBacked`, `LegalTicketsStayWithHumans`, `AnswerMatchesDesk`, `StatusWasTold`, `RejectionsStand`, `FlaggedTicketNeverReachesModel` |
| `desk_three_requests` | 3 requests on one ticket, `prompt_only`, an actor whose role changes, writes that fail | `EveryRefundHasItsRequest` and the refinement `ImplementsRefundBook` |
| `desk_liveness` | 2 requests, 2 tickets, `FairSpec` | `EveryRequestSettles` |
| `users_safety` | 4 users, 3 actors (one unknown until a batch creates it), 4 batches (each kind of bad row, one too long), 4 CSV files, writes that fail | the refinement `ImplementsAuditedTable`, the log and table invariants, all-or-nothing batches whose plan can be carried out (`PlannedRowsCanBeCreated`), the limits and the completeness of domain suspensions, truthful answers (`ReportMatchesLog`, `ImportReportsTheFile`) |
| `agent_loop` | runs of up to 8 turns, threshold 4, 2 pairs kept, two tools and escalation, `FairSpec` | the invariants of the loop and the compaction, and `EveryRunEnds` |
| `boot` | 2 processes, 8 generated users, the demo users, a knowledge-base article, one live row per table | `BootTypeOK`, `SeedIsWhole`, `ReferencesHold`, `UndisturbedBootSeeds`, `EveryBootEnds` |
| `desk_hidden_refund`, `desk_stale_flag`, `desk_over_period`, `desk_unaudited`, `users_like`, `boot_reseed` | small instances of the same modules | a statement of the documentation that the code does not keep, see section 4 |

Bounds, and why they are enough:

* **Requests.** Everything a request shares with another one is the tables, and every
  property relates at most two requests or a request and the table: two find the races,
  three are run on one ticket as a margin. Request names are symmetric.
* **`MaxToolCalls`.** A session may call a tool at any moment; one or two calls per session
  cover its effects, because calls of a session share nothing but the tables. Refunds
  stay bounded by requests and calls.
* **`MaxDay`.** One tick moves the clock between a read and the refund that uses it.
* **Money.** Amounts of 0 to 3 cents with thresholds at 1 and 2 and a period of 2 days put
  every boundary within reach: below, at and above each threshold and the ceiling. In
  `desk_safety` one subscription costs 4 cents and renews in the future, so that its ceiling
  is its price and an amount of 3 is stopped by the approval maximum alone; the other costs 3
  and its period ends on day 1. `RefundPolicyProofs` covers the arithmetic for all values.
* **`MaxLog`** = 2. No call begins once the log has two entries, but a flow that has begun
  runs to its end. A flow therefore meets the table that one earlier call, or a flow that
  wrote one entry, has changed (a new user, a changed role, address or status), and its own
  entries, up to three, come on top. With `MaxLog` = 3 the run passes as well, on 970,005
  states instead of 14,499, but takes about as long as a run should. `UserAdminProofs` and
  `UserFlowProofs` cover logs of every length.
* **Limits of the user flows** are lowered from 3/50 and the batch size to 2/4/3, so that
  the table of four users reaches "at the limit" and "one over".
* **CSV files.** One has its columns in another order and a line too short, one has no header
  and a blank line, one is only a header, one begins with a user called Email.
* **Boot.** `SEED_COUNT` = 8 gives two customers. The "every 5th, 10th, 20th customer" of the
  seed become "every 2nd", so that one customer has a ticket, an answer and a refund and the
  other has none. Two processes suffice for one to overtake the other at every statement,
  because only one transaction can be open. `MaxLive` = 1 row a table is enough to take an
  address, to move an id and to refer to a row that a wipe deletes.
* **Agent loop.** With a threshold of 4, 2 kept pairs and 8 turns a run has up to three
  compactions by the token threshold, the last ones of a conversation that already holds a
  summary, and a compaction can coincide with the cap.

`CHECK_DEADLOCK FALSE` is set in every run because the workloads are finite: each request
is answered, the clock stops, the log is full, a run ends.

Fairness is weak fairness everywhere, and only where the code runs by itself.

* `FairSpec` of `TicketFlows`: every request that reached an await goes on, and `FairSpec` of
  `AgentLoop`: a run goes on. A model call settles, because the Anthropic client has a timeout
  and gives up after its retries, and Node runs a settled promise's continuation.
* `FairSpec` of `Boot`: a boot goes on. It is synchronous code, and the wait for another
  process's write lock ends in `Busy` after SQLite's timeout.

Arrivals, the clock, role changes, starts and crashes have no fairness: nobody need ask for
anything.

## 4. Where the code and its documentation differ

Six runs expect a violation, each of one statement quoted from the repository.

* **`desk_hidden_refund`** (`EveryRefundReported`). After `issueRefund` has committed,
  `addMessage` or `updateStatus` can throw. The `catch` meant for rejected refunds then
  answers "escalated, refund: null" although the money has moved. If `addMessage` is the
  write that threw, the thread does not mention the refund either. What does hold, and is
  proved, is `EveryRefundHasItsRequest`: the refunds still belong to different requests, each
  of which ended, and none goes on as if it had not refunded.
* **`desk_stale_flag`** (`FlaggedTicketNotResolved`). The keyword check precedes two awaits.
  A message with a keyword that arrives meanwhile does not stop the refund and the
  resolution of the ticket. What does hold, and is proved: a ticket whose own text has a keyword
  is never resolved, and no step shows a text to a model that is flagged at that moment.
* **`desk_over_period`** (`RefundedAtMostThePeriod`). The remaining-term ceiling is compared
  with each refund alone. Several lawful refunds together can exceed the whole period.
* **`desk_unaudited`** (`EveryMutationIsAudited`). The system prompt of Mode A tells the model
  that every mutating action is written to the audit log. Replies and status changes are not.
* **`boot_reseed`** (`ReseedAlwaysRuns`). "The reseed always runs": not when a server that is up
  adds a user between the wipe and the count of the process that boots. That one finds a
  user, skips the seed and, if it is `npm run seed`, prints "Seed complete."
* **`users_like`** (`OnlyTheDomainIsSuspended`). `findByDomain` builds a `LIKE` pattern from
  the domain without `ESCAPE`, so an underscore matches any character and accounts of
  another domain are suspended.

## 5. What is proved

All proofs hold for every value of the constants allowed by the modules' assumptions
(`PolicyAssumption`, `DeskAssumption`, `NewestSubscriptionAssumption`, `FlowsAssumption`,
`UserAdminAssumption`, `DomainsAreTexts`, `AgentAssumption`, `BootAssumption`). These say that
ids, amounts and limits are numbers, that rows refer to rows that exist, that seeded addresses
differ, that a domain is a sequence of characters, and that special values are distinct. TLC
evaluates them in every run. Every safety property of a passing run is proved: invariants,
the action properties and both refinements, none of them under a hypothesis of its own.

**`RefundPolicyProofs`.** The ceiling is at most the price of the period (`CeilingBounds`),
never rises as days pass (`CeilingNeverRises`) and is zero after a whole period
(`NothingAfterThePeriod`). The lemma `OneThreshold` says, in both directions, which of the
thresholds binds an amount under the dollar policy.

**`DeskProofs`.** `TypeOK` is inductive as stated; it has one lemma per kind of step. It
includes that a request past its check holds a real ticket and, past the fetch, a real
subscription, which is why it needs proving. A step lemma, `EveryStepIsMoneyStep`, says that
every step leaves the money alone or is one lawful refund. From it and `TypeOK` follow
`RefundsAreMirrored`, `RefundsStayWithinPolicy` (with `CeilingBounds` and `OneThreshold`), and the refinement
`DeskImplementsBook`: initial state to initial state, each step to a posting, a tick or a
stutter. `RejectedStaysRejected` is an action property: a step leaves the day or moves it
forward by one, where the ceiling can only fall (`CeilingNeverRises`) and the thresholds
stay as they are.

**`OutcomeProofs`.** What a caller is told, against what the tables hold. The invariant is
`OutcomeInv`: each request record is consistent by itself (no decision before the last step,
no refund without the decision, at the last await a subscription of the ticket's customer),
and with it the properties themselves, the count of notices for every amount. A step is one of
two kinds: a flow's refund, or a step that resolves nothing, writes no notice and refunds no
ticket (`LeavesOutcomes`), which a lemma per action establishes. Counting rests on
`CountAppend`: an appended row counts once, if it counts at all. `StatusWasTold` is part of
the invariant too: the step that writes a status writes the decision, and no later step takes
a decision back. It yields `ResolvedWasRefunded`, `NoticesHaveRefunds`, `AnswersMatchDesk` and
`StatusesWereTold`. `RefundsHaveRequests` asks for an injection from refunds to requests.
Each step that refunds for a ticket extends the one there was by its own request, which had
not ended before and so was nobody's; every other step keeps it, because a request that has
ended never changes again. No statement need succeed for it.

**`GuardrailProofs`.** `FlaggedNeverShown` is an action property: every action that exposes a
text checks it in the same step. `LegalTicketsAreSafe` needs a strengthening: no request is
about to start with a flagged ticket (`GuardrailInv`).

**`UserAdminProofs`.** The invariant is `AdminInv`: the log properties, plus what a rollback
needs to know, namely that the table a batch saved is the one the log had reached when it
began (`flow.saved = TableAt(flow.first + 1)`). Each mutation writes an entry that explains
its row forwards (`Apply`) and backwards (`Undo`, from the fields an update keeps of the row, or
the one status a suspension keeps), which `WrittenTogether` adds to the log. It yields `LogTellsTheTable`,
`EntriesWereLawful` and `UsersTyped`. `UsersAreAnAuditedTable` is the refinement: a step of a
running batch and its rollback map to a stutter, the end of a batch to one commit of all its
entries, every other write to a commit of one.

**`UserFlowProofs`.** `ImportsReportTheFile` needs `ImportInv`: the lines of a running import
are the data lines of its file, and each created one has its entry. `BatchesAreAllOrNothing`
rests on the fact that a running batch has no failed line yet. `PlansCanBeCarriedOut` needs
that the planned rows are free of the table and of each other (`PlannedInv`): the duplicate
check of the validation compares with earlier rows in normal form, as `create` does with the
table. `DomainSuspensionsAreBounded`
rests on counting: the entries since the flow began are as many as its suspended lines, which
are among at most `MAX_AUTO_SUSPEND` matches, none of them an administrator or deleted.
`ReportsMatchTheLog` needs the same count while a flow of any kind is still running
(`ReportInv`): the log is as long as it was when the flow began plus one entry for each line
done, and each such line has an entry of its actor; a rollback takes both back at once.
`DomainSuspensionsAreComplete` needs that the lines of the flow are what `findByDomain` would
return now (`CompletionInv`; a suspension changes no address), that a line dealt with is of an
account that is not active, and `LikeItself`: every domain matches itself as a pattern,
whatever wildcards it has. That is a fact about a recursive function. The library's induction
theorems cannot be cited here, so it is proved from the least position where it would fail
(`LeastOf`, from the well-foundedness of `<`), and that the function exists likewise
(`MatchExists`). `FirstGatesDecide` shows that with the limits of the code, the risk level and
the hard ceiling never add an escalation to the first two gates.

**`AgentLoopProofs`.** The conversation is well formed at every await, not only when a
request is sent (`WellFormed`): a turn extends it by a pair (`TurnExtends`), and a compaction
cuts between two pairs and leaves `KeepRecentPairs + 1` of them (`CompactionKeeps`). For the
bound, `LoopInv` adds that the pairs are as many as the turns since the last compaction, or
that plus what the last compaction left. From it follow `LoopTyped` (with the iteration
cap), `RequestsAreWellFormed` and `HistoriesAreBounded`. `AnswersFollowFromLog` needs `LogInv`:
the n-th batch of tools performed is that of turn n, and a run that waits has only acting
turns behind it. `CompactionsAreApart` needs `CooldownInv`: as long as the run waits, at least
`turnsSinceLastCompaction` turns lie behind the last compaction. `TurnsAreRemembered` needs
`MemoryInv`, which names the number of turns the conversation still has word for word:
`TurnRemembered` adds one, `CompactionRemembers` moves the others into the summary, which
tells of all that the last summary told of.

**`BootProofs`.** `ReferencesAlwaysHold` needs more than what is committed: the open transaction
must be sound as well (`BootInv`, with `Sound` for both), and a row table must be finite, as
new rows are numbered. Each insert comes after its parent's (`InsertSound`,
`CustomerDataSound`); a table is emptied only when nothing refers into it (`EmptyTableSound`).
`BootTyped` includes the write lock: a process is in the middle of a wipe or a seed exactly
when the open transaction is its own. `SeedsAreWhole` and `UndisturbedBootsSeed` rest on
`SeedInv`, which says where each loop has got to. `ProgressInv`: what is committed is whole or
holds no seeded row; in a wipe, the tables deleted so far are empty (`WipeAt`); in a seed, the
open transaction holds exactly what the statements so far have written (`SeedAt`), with one
lemma for a generated user, the articles and a demo user (`GeneratedUserProgress`,
`ArticlesProgress`, `DemoUserProgress`). A seed over another one, or over ids that do
not start after a multiple of 4, is refused by then, so only a whole one can commit. `UndisturbedInv`: a boot nobody wrote into has an empty
database between its wipe and the commit of its seed, so no statement of either can be refused
(`WipeNeverRefused`, `SeedNeverRefused`).

Only model-checked: `EveryRequestSettles`, `EveryRunEnds` and `EveryBootEnds`. They are liveness
properties under fairness, which are out of the prover's reach. The statements of section 4 are
false; TLC's counterexamples are the evidence for them.

## 6. What is left out

* **Text.** Prompts, wording, the splitting of a CSV line at commas and quotes, the keyword
  regular expressions. The models start from what the text was recognised as. A classifier's answer
  is a free choice, which covers every mistake a model can make.
* **Names, places, timestamps** and other columns that no rule reads. A name is kept as
  "given or blank".
* **Doubles.** Amounts are whole cents, dates whole days. The products in the ceiling are
  exact in a double at any realistic price.
* **Misconfigured limits.** `Number(process.env.X) || default` lets a negative or a
  fractional number through; the assumptions ask for positive integers.
* **Read-only endpoints, the knowledge base, logging, wiring.** They change nothing.
* **A boot under the desk.** `TicketFlows` and `UserAdmin` begin after a boot; `Boot` has the
  wipe, the seed and the foreign keys, but none of the requests' state. Every restart deletes
  refunds, ledger and audit log. `README.md:315-321` of the repository declares the wipe as
  intended, while `docker-compose.yml:24` promises to "Persist the SQLite database across
  container restarts"; no property is about it, since it would only restate the wipe.

## 7. Plan

Done: refund policy, desk, flows, classifier and orchestrator, guardrail; user administration,
its flows and the CSV rows; the agent loop and its end; boot, wipe and seed with other
processes on the file; the desk composed with the roles user administration changes; two
abstract specifications and their refinements.

1. *Compose.* The session of `TicketFlows` becomes a run of `AgentLoop`, so that a turn's tools
   are steps of the desk.
2. *Proofs* of what the two abstract specifications promise by themselves (how much a
   `RefundBook` can have paid, what a reader of an `AuditedTable` can conclude from its log),
   which the refinements then carry over to the desk and to user administration.
