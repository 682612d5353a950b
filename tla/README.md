# Verification of the GreenITESO backend

GreenITESO is a Django/PostgreSQL service. Members of a university log
ecological actions, administrators audit the ones with a photograph, and the
points feed personal balances, clans, badges, missions and a small store. The
code is under `src/app/green_iteso/`. This directory holds TLA+ models of its
core, TLC runs that check them, and TLAPS proofs.

## 1. Inventory

| Part | State | Operations | Interacts through |
|---|---|---|---|
| Action submissions and audits (`actions/`) | `ActionLog`, profile totals, clan totals | submit, approve, reject, revoke | user, log, profile and clan row locks |
| Store (`actions/services.py`) | `available_points`, cosmetics | redeem | profile row lock |
| Nickname changes (`accounts/services.py`) | nickname, change counter, balance | change | user and profile row locks |
| Badges (`gamification/`) | `UserBadge` | award after a credit | called in the credit's transaction |
| Mission progress (`campaigns/services.py`) | contributions, `UserMissionProgress` | apply, revert, recalculate | called in the credit's transaction |
| Campaign lifecycle (`campaigns/`) | approval, status, participants | propose, approve, start, finish, join, edit | campaign row lock, lazy status sync |
| Clan membership (`clans/`) | clans, memberships, invitations | create, join, accept, leave, kick, transfer, dissolve, invite, redeem | clan and user row locks |
| Account lifecycle (`accounts/`) | users, profiles, roles | login, deactivate, reactivate, change role | user and profile row locks |
| Notifications (`notifications/`) | rows, open sockets | notify, push after commit, edit, hide, mark read, connect, close | `on_commit` callbacks, channel groups |
| Feed (`feed/`) | posts | publish shared evidence, CRUD | called by submissions |
| Evidence and image storage | files | save, delete on failure | before the commit |
| Catalog and reference data | actions, items, badges | release, edit | read by submissions |
| Rankings, dashboards, profiles | none | queries | read only |
| Throttling, permissions, settings, seeds, release scripts | none shared | | |

What is hard here is concurrency. There is no `ATOMIC_REQUESTS`; every handler
opens its own `transaction.atomic()` at READ COMMITTED and protects itself with
`select_for_update`, F() updates and unique constraints. The totals are
denormalised, so a lost update or a missed rollback stays in the database. The
hazards, each at its line, are listed in `PROJECT.json`.

What makes each part correct:

- *Ledger*: totals equal the logs and charges they came from; no negative
  balance; the daily limit and the idempotency key hold under races and across
  midnight; one verdict per state of a log; a revocation mirrors its credit;
  badges, missions and streak follow the committed logs; no deadlock; every
  request ends.
- *Clan membership*: one leader per clan, at most five private clans per user,
  one active private clan, single-use invitations, nothing credited to or
  joined in a dissolved clan.
- *Campaigns*: status moves forward only, approval, status and dates agree,
  every event is announced once and to those enrolled at that moment.
- *Accounts*: an administrator remains; roles change with an audit entry; a
  deactivated account gains nothing; reactivation starts from zero; no writer
  of the profile loses another's points.
- *Storage and notifications*: an image a row names exists, an image no row
  names is deleted, an open socket hears of every unread notification and
  closes with the account.
- *Catalog*: a release lands as approved or not at all, and can be run again.

## 2. Plan

1. `PointsLedger` - submissions, audits, store, nickname changes with badges,
   missions, streak, notices and feed. **Done**, with proofs.
2. `ClanMembership` - private clans, memberships, leadership, invitations with
   the lock modes the code uses. **Done**, with proofs of all its safety and
   action properties.
3. `AccountLifecycle` - sign-in, roles, deactivation and return, onboarding and
   the admin form against the handlers that credit the same profile. **Done**,
   with proofs of all its properties.
4. `CampaignLifecycle` - proposals, review, lazy status sync, start, finish,
   enrolment, edits and missions; `CampaignBoard`, the abstract board it
   refines. **Done**, with proofs, the refinement included.
5. `AfterCommit` - image files and live notifications around the commit.
   **Done**, with proofs of all its safety properties.
6. `CatalogRelease` - the catalog commands against each other and the admin.
   **Done**, with proofs of all its properties.
7. Left: `AtomicLedger`, an abstract ledger in which each request is one step,
   refined by `PointsLedger`.

## 3. Modules

| Module | What it is |
|---|---|
| `PointsLedger` | the ledger: state, handlers, properties |
| `LedgerInvariant` | the inductive invariant `IInv` and its parts |
| `ClanMembership` | private clans |
| `ClanInvariant` | its inductive invariant |
| `AccountLifecycle` | accounts, roles, profiles |
| `AccountInvariant` | its inductive invariant |
| `CampaignLifecycle` | campaigns, row by row |
| `CampaignInvariant` | its inductive invariant |
| `CampaignBoard` | what the campaign endpoints promise, a request a step |
| `AfterCommit` | files, notifications and sockets |
| `AfterCommitInvariant` | its inductive invariant |
| `CatalogRelease` | `load_catalog` and `release_catalog` |
| `CatalogInvariant` | its inductive invariant |
| `MCPointsLedger`, `MCClanMembership`, `MCAccountLifecycle`, `MCCampaignLifecycle`, `MCAfterCommit`, `MCCatalogRelease` | constant values and symmetry for TLC |
| `Sums` | the sum of a table's column |
| `PointsLedgerProofs` | facts about sums; type correctness, locks, remembered values, deadlock freedom |
| `LedgerMoneyProofs` | balances and clan totals; daily limit, idempotency keys, verdicts |
| `LedgerRewardProofs` | badges, mission progress, the streak |
| `ClanProofs` | leadership, caps, codes, and what a clan commit may do |
| `CampaignProofs` | the lifecycle of a campaign, and its refinement of the board |
| `AccountProofs` | resets, administrators, balances and careers of accounts |
| `CatalogProofs` | what a release promises, and its reruns |
| `AfterCommitProofs` | images kept and images deleted, notifications heard, sockets closed |

The components share tables, so a table appears in every module whose question
needs it, reduced to what that question tells apart: a profile is five columns
in `PointsLedger`, a balance, an item and a career in `AccountLifecycle`, an
avatar in `AfterCommit`. `AccountLifecycle` and `AfterCommit` are where
components meet: sign-in and deactivation against audits and purchases, and
submissions, audits and deactivation against storage and sockets.

### How the ledger models the code

A request slot runs one handler at a time: `input` is what the client sent,
`pc` the next statement, `snap` the Python locals, `held` the row locks. A
statement that locks a row waits until no other request holds it. The writes of
a transaction become visible in one commit step, which is what READ COMMITTED
shows to the others; a transaction's own uncommitted writes are in `OwnLogs` and
in the totals `Derived` uses. `Abort` is a rollback at any point.

| Statement labels | Code |
|---|---|
| `user`, `check`, `insert` | `ActionLogCreateView._create_action_log` up to the INSERT |
| `log` | the `select_for_update` of `ActionLogAuditView.patch`, whose status filter is evaluated again after a wait |
| `profile` | the F() update of a credit, or the `select_for_update` of `revoke_awarded_points`, `redeem_exchangeable`, `change_nickname` with the check that follows it |
| `inst`, `priv` | the two clan updates, in this order |
| `derive` | `check_and_award_badges`, `notify_mission_progress` / `revert_mission_progress`, the day set of `recalculate_streak` |
| `streak`, `save` | the unlocked compare and the write of `recalculate_streak` when a pending log is rejected and the profile row is not held |
| `commit` | one action per kind of commit |

`Environment` is what happens around the ledger: midnight in Mexico City,
catalog and price edits, onboarding that assigns or reassigns the institutional
clan, and selecting or losing the active private clan.

Abstractions: days instead of timestamps; an idempotent replay and a conflict of
keys are both an early return; `daily_limit`, badges, missions, campaign windows
and participants are fixed in a behaviour; environmental factors, wording and
pagination are left out. The lock on a `UserMissionProgress` row is not separate,
because everyone who takes it already holds the profile row of the same user.
Deactivation is in `AccountLifecycle` and the evidence file in `AfterCommit`;
raw row edits in the Django admin and the nickname that onboarding may fill in
are not modelled.

`spent` is an auxiliary variable: what a user was charged so far.

### How the clan module models the code

The columns of `ClanMembership` rows are split: `standing` is the status (or no
row), `leaders` the rows with role LEADER, `selected` the rows flagged
`is_active_private`. `phase` is whether a clan exists and whether `deleted_at`
is set. A request starts with its view, which takes no lock (`Start`:
authentication, `get_queryset`, `IsClanLeader`, the fetched instance); this is
one step, and a request the view refuses is not started. It then locks rows in the order `LockOrder`
gives and repeats its checks on them (`ClanAllows`, `UserAllows`), then waits for
the rows its inserts point to (`InsertMembership`, `InsertInvitation`, `Notify`)
and commits.

Locks have PostgreSQL's modes because they decide who waits: `select_for_update`
on a user or clan row conflicts with the KEY SHARE lock that every inserted
membership, invitation or notification takes on the rows of its foreign keys,
while `select_for_update(no_key=True)` in `deactivate_account` does not. So
`join_clan`, which holds the joining user, waits for a clan locked by a leader
and for a leader who is joining something else.

Abstractions: a clan is a slot that is created once; name, description, avatar
and the collision of clan names are left out (a collision is a rollback); an
UPDATE that finds its row gone is a rollback, as Django raises for
`save(update_fields=...)`; the text of notifications is left out, only whom they
address matters, for the locks; a global administrator sees more clans but
passes no check of a service by it. `create_clan` has no caller. Deactivation
and login appear with what they do to memberships.

### How the account module models the code

`authenticate` and `Sessions` are what a pair of tokens proves: the ID token is
for this client and tenant, and the directory, when it answers, describes the
same object id. A sign-in looks for the object id, then for the e-mail of an
account without one (`FindByOid`, `FindByEmail`), inserts or saves the user
(`SaveUser`), then loads the profile without a lock and saves the whole row
(`ReadProfile`, `CommitLogin`). A conflict on a unique index is retried once.

| Actions | Code |
|---|---|
| `FindByOid` ... `CommitLogin` | `_upsert_user`, `_sync_profile`, `_reactivate_if_self_deactivated` |
| `ListAdmins`, `LockNext`, `ChangeRole` | `update_user_role`; the first two also in `deactivate_account`: the administrators are locked in the order of their keys, then counted |
| `Wipe`, `RejectPending`, `CommitDeactivation` | `deactivate_account` |
| `FormLoad`, `FormStore` | the Django admin form of a user, which saves the row it loaded |
| `ReadCareer`, `AssignClan`, `CommitOnboarding` | onboarding and `assign_institutional_clan` |
| `Submit`, `LockLog`, `LockProfile`, `CommitAudit`, `Redeem` | the ledger's handlers with their checks of the account |

Locks have PostgreSQL's three modes, and the entries of the unique indexes are
rows that an uncommitted INSERT holds. `resets` counts the wipes and stands for
`progress_reset_at`; a log and a request carry the count they were made under,
which is what `requested_at` compares. `formed` is a history variable. Every log
is worth one point, and one item costs one point.

### How the campaign module models the code

Every request first runs `sync_campaign_statuses`: two UPDATEs that commit on
their own with one reading of the clock (`finish`, `start`). The view then
checks what it fetched without a lock (`view`); reviews, transitions and edits
lock the row and check it again (`lock`, `save`, `commit`); enrolling and adding
a mission only insert a row, and the foreign key makes that INSERT wait for a
campaign locked FOR UPDATE (`insert`). A tick of the clock is a day.
Notifications are counted up to two, since the question is whether there is a
second one. Names, descriptions and images are left out.

`CampaignBoard` has a stage per campaign, the enrolled users and the notices
told. The refinement mapping computes the stage from approval and status; the
sync's silent moves are its `Age`.

### How the storage module models the code

A request writes its file inside the transaction, commits, and then runs its
`on_commit` callbacks one by one (`after`): deletions of replaced files, pushes,
the closing of sockets. The faults are those the code meets: a statement or an
upload fails and the handler deletes what it wrote; the worker dies at any
statement; COMMIT takes effect and its answer is lost; an evidence deletion
raises and the callbacks behind it are dropped, while other callbacks are
robust. Where a property needs to know, a history variable records the one file
or socket concerned: the files whose deletion a fault dropped (`orphans`), the
sockets whose closing it dropped (`unclosed`), the pushes a socket missed
(`lost`), the evidence deleted after a lost answer (`doubt`) or behind an audit
(`raced`).

A consumer handles one message at a time: it resolves the user, joins the
group, counts the unread rows, answers `auth.ok`, and only then handles what its
group received meanwhile (`mail`). A full channel drops the event. A PATCH saves
the whole row it loaded, so it can show a hidden notification again or insert
one a deactivation deleted; `patched` records such rows. An uploaded file gets a
fresh object key (`used`). A submission may instead name an object that is
already stored (`EvidenceInputs`): one that a log names, so that two logs share
a file, or one elsewhere (`None`), which this code never deletes.

### How the catalog module models the code

A command validates its file and its site, then runs one transaction:
`reject_existing_drift` for every row, `get_or_create` as a lookup and an
INSERT, and, for a release, the drift check again. A row has a primary key
derived from its catalog key and a unique code. At READ COMMITTED a statement
sees what was committed before it; an INSERT waits for a transaction that holds
its key, and looks the row up again when that one commits. Administrators edit
any column but the identifier, an action's category and every code included, add
categories and actions with random identifiers, and delete rows; careers create
clans on first use, members create and dissolve clans. The fixture's hash is one
bit (`pinned`), as is its approval record; factors are thousandths.

## 4. Runs

Every run has two request slots. Two overlapping transactions are enough for
every race between two statements, and a finished slot is used again, so longer
histories occur too. Request slots are symmetric (in `clan_leadership` and
`clan_entry` users, clans and codes as well, in `ledger_clans` users and
institutional clans); the runs that check liveness use no symmetry.

| Run | Asks | Instance |
|---|---|---|
| `ledger_points` | `TypeOK`, `BalanceExact`, `NeverOverdrawn`, `BadgesComplete`, `DailyLimitKept`, `ReplayNeverCollides` | all handlers, one user, two logs, two days, repeated keys, a daily limit of one, a store item, one paid nickname change |
| `ledger_clans` | `ClanTotalsExact`, `NoDeadlock` | two users, two institutional clans and a private one, repriced actions |
| `ledger_audits` | `MissionProgressExact`, `AuditsOneWay`, `StreakFollowsCredit`, `RequestsFinish` under `FairSpec` | two logs of one user, a mission that needs both, its window ends on day two |
| `ledger_streak_race` | `LastActionDateExact`, **violated** | see below |
| `clan_leadership` | `EveryClanLed`, `OneLeadership`, `HistoryKept`, `ByCurrentLeader`, `DeactivatedHasNoClans` | two users, two clans, cap two, the ten operations on leadership, membership and accounts |
| `clan_entry` | `CapKept`, `DecisionsNeverCross`, `InviteOnlyGate` | three users, two clans, one code, cap one |
| `clan_codes` | `CodeLimitKept`, `CodesSingleUse`, `RequestsFinish` under `FairSpec` | two users, one clan, two code rows, limit one, codes live for one tick and are purged after the next |
| `campaigns` | `LifecycleAgrees`, `NoticedOnce`, `BoardRefined` | two users (an administrator, a clan leader), one campaign, two actions, days 0 to 2, edits that move both dates or the end |
| `accounts` | `ResetHolds`, `PendingFresh`, `AdminsRemain`, `AdminsAudited`, `CreditKept`, `InstitutionKept` | three accounts (an administrator, a seeded student, a newcomer), two logs, two careers, one wipe, five workloads |
| `account_lost_purchase` | `PurchasesKept`, **violated** | the same |
| `after_commit` | `ImagesKept`, `NoLeak`, `NothingMissed`, `ClosedOut`, `PushArrives` | two logs, two object keys, two notifications, one socket, channels of two events, eight workloads |
| `catalog` | `ReleasesHold`, `NothingHalf`, `RerunsAccepted` | four catalogs that overlap or disagree (on an action's category, on a clan), seven files that are refused, four sites, two writes of others |

`TypeOK` of the other modules is the first conjunct of an invariant of each (`EveryClanLed`, `LifecycleAgrees`, `ResetHolds`, `ImagesKept`,
`NothingHalf`).

A *workload* is a set of operations chosen at the start. One set of all
operations would be too large to enumerate; each workload holds the operations
that share rows and can therefore race. In `AfterCommit` it also lists the logs
and object keys it may use: one workload has two logs and one key, so that both
name the same object, one has no key and enough events to fill a channel before
the account is left. The bounds are named constants:
`MaxLogs`, `MaxDay`, `MaxRenames` in the ledger, `MaxNow` for clocks,
`MaxResets`, `MaxEdits`, `Capacity`. Two logs let a user be credited again after
a revocation and make a second submission of the day, one wipe gives an account
a past and a present, two object keys a replaced and a new image, two events a
channel that fills up.

Deadlock checking stays on everywhere: the system can always accept a request
or edit the catalog, so it never stops; waiting in a cycle is what `NoDeadlock`,
`DecisionsNeverCross` and `RequestsFinish` are about. The clan handlers as a
whole do deadlock: two leaders who join each other's clans each hold their own
user row and wait to notify the other, and a user who joins a clan and redeems a
code of it at once holds the user row in one request and the clan in the other.
Two imports that insert the same keys in opposite orders do too. The code relies
on PostgreSQL to cancel one of them: `Cancel`, `Deadlocked`, and `Abort` in the
other modules.

Fairness: in the ledger and the clan module `FairSpec` has strong fairness of
each request's next statement. A web worker is scheduled, and PostgreSQL grants
a row lock in the order of the queue of waiters, so a statement whose row becomes
free again and again is eventually granted it. In the clan module `Cancel` is
weakly fair: a cycle stays until `deadlock_timeout` finds it. In `AfterCommit`
the callbacks of a committed request and the delivery to a consumer are weakly
fair: a worker that has not died runs its callbacks, and the event loop serves
every consumer. Nothing is assumed of clients, administrators, clocks or faults.

### The streak race

`recalculate_streak` says the streak "is derived from the days that actually
have approved activity". When a pending log is rejected, no profile lock is
held. The handler computes the active days; an approval of another log of the
same user commits a newer streak; the rejection then compares its older result
with the new row, finds it different and writes it. The run ends with no
request under way and a `last_action_date` before the last approved day. The
next action or audit of that user repairs it.

### The lost purchase

A sign-in loads the profile in `_sync_profile` and saves the whole row
(`accounts/services.py:596`). It holds the user row, which audits lock as well,
so credits wait for it; `redeem_exchangeable` locks only the profile. A purchase
that commits between the load and the save is undone: the points are back and
the item is gone, although the purchase "guards against race conditions using
select_for_update on UserProfile" (`actions/services.py:111`).

### Exceptions the passing properties name

The code allows these; the properties state that nothing else does.

- *Stale privacy* (`InviteOnlyGate`): a join that read a public clan before its
  leader made it invite-only enters it at once.
- *Deactivated member* (`DeactivatedHasNoClans`): a join, a founding or a
  redemption of the account itself that waited for its row goes on after the
  deactivation.
- *Old credit* (`CreditKept`): revoking a log approved before a wipe debits the
  balance earned after it.
- *Restored career* (`InstitutionKept`): the whole-row save of a sign-in brings
  back a career whose membership is gone.
- *Admin form* (`AdminsRemain`, `AdminsAudited`, `ResetHolds`): the form saves
  the row it loaded and writes no audit entry.
- *Lost answer to COMMIT*, *audited while deactivating* and *shared object*
  (`ImagesKept`): the handler deletes the evidence of a log that exists; a
  deactivation deletes that of a log it collected before an administrator
  approved it, and that of a log it rejects even if another log names the same
  object.
- *Late socket* (`ClosedOut`): a socket that resolved its user before the
  deactivation and joined its group after the close event stays open.
- *Dropped closing* (`ClosedOut`): so does a socket whose closing a fault
  dropped: its channel was full, the channel layer failed, the deletion of a
  pending log's evidence raised (the closing is registered behind it,
  `accounts/services.py:470`), the worker died, or the answer to COMMIT was
  lost. The property excepts these sockets one by one.
- *Dropped clean-up* (`NoLeak`): a file stays whose own deletion a fault dropped
  (it failed, an evidence deletion before it raised, the worker died, the answer
  to COMMIT was lost) or that an upload left behind when it raised.
- *Moved category code* (`ReleasesHold`): the recheck compares an action's
  category by code (`release_catalog.py:148`), row after row. An administrator
  who renames the approved category and gives its code to another one between
  two of these statements lets the release report success with the action in the
  other category. So the category of an action is claimed only while nobody
  wrote to the approved category; all its other columns while nobody wrote to
  the action.
- *Rewritten notification* (`NothingMissed`, `PushArrives`): a row that a PATCH
  wrote whole is left to the list.
- *Late enrolment* (`BoardRefined`): the board lets a user enrol at any
  published stage, because the view checks the stage before it inserts.

One more has no property: `select_active_private_clan` locks the user, not the
clan, so its flag can commit after `dissolve_clan` cleared the flags, and later
logs credit a dissolved clan.

## 5. Proofs

### The ledger

For every value of the constants that satisfies `LedgerAssumption`:

| Theorem | States |
|---|---|
| `TypeCorrect` | `Spec => []TypeOK` |
| `BalancesExact` | `Spec => []BalanceExact` |
| `BalancesCovered` | `Spec => []NeverOverdrawn` |
| `ClanTotalsCorrect` | `Spec => []ClanTotalsExact` |
| `Invariance` | `Spec => []IInv`, the inductive invariant |
| `LimitKept` | `Spec => []DailyLimitKept` |
| `ReplaysDetected` | `Spec => []ReplayNeverCollides` |
| `VerdictsFinal` | `Spec => AuditsOneWay` |
| `DeadlockFree` | `Spec => []NoDeadlock` |
| `MissionsExact` | `Spec => []MissionProgressExact` |
| `BadgesRightful` | `Spec => []BadgesComplete` |
| `StreaksFollow` | `Spec => StreakFollowsCredit` |

The properties are not inductive: that a commit writes the right totals depends
on what the handler read several statements earlier. `IInv` adds, layer by
layer,

1. `ControlOK`: which input and which remembered values a request can have at a
   statement (`Inv1`, with the types);
2. `LocksOK`: a row has one holder, and a request past a locking statement holds
   that row;
3. `FreshOK`: the log an audit holds is as it was read, and the balance a
   request checked is still the balance (`Inv2`) - because only the holder of a
   row writes it (`WritesOwnRows`);
4. the money (`Inv3`): a commit moves the stored totals (`PointsMove`) and the
   sums over the logs (`CreditMove`) by the same points;
5. `RoomOK`: an admitted submission has an unused key and room on the day it
   counts on. Two admitted submissions belong to different users, as each holds
   its user row; at midnight a submission not yet inserted moves to a day that
   has no logs.

Two more invariants rest on these, for one theorem or three each.

- `OrderOK` gives every row a rank - user, log, profile, institutional clan,
  private clan - and every statement a level: a request holds only rows of a
  rank below its level, and what it waits for has the rank of its level. Of the
  requests in a set, one of the highest level waits for no other
  (`FurthestGoesOn`). The level of a handler never falls; the rejection of a
  pending log compares the streak before it locks the profile, which is why
  `derive` has two levels.
- `RewardsOK` says that the mission counts, the streak and the badges a request
  derived are those of the committed logs with its own log added or taken away
  (`DerivedFresh`), and stays true because nobody else changes which logs of
  that user are approved while it holds the profile row (`OthersUntouched`).
  That a log waiting for its audit counts for no mission (`PendingOK`) and that
  a badge is announced exactly when it is owned (`NotesOK`) complete it. The
  commit then writes what the new log table yields (`MovingTable`).

The proof corrected one property: a badge that requires 0 points, the default of
the column, comes with the first credit and not with the account, so
`BadgesComplete` speaks of users with points. The instances have no such badge.

`Sum` is a recursive function; `PointsLedgerProofs` derives its step, congruence
and update facts by induction over sets of naturals.

### Clans

For every number of users, clans, codes and requests, from `ClanAssumption`
(clans and codes are finite sets, since they are counted):

| Theorem | States |
|---|---|
| `EveryClanLedHolds` | `Spec => []EveryClanLed` |
| `OneLeadershipHolds` | `Spec => []OneLeadership` |
| `CapKeptHolds` | `Spec => []CapKept` |
| `CodeLimitHolds` | `Spec => []CodeLimitKept` |
| `DecisionsNeverCrossHolds` | `Spec => []DecisionsNeverCross` |
| `ByCurrentLeaderHolds` | `Spec => ByCurrentLeader` |
| `HistoryKeptHolds` | `Spec => HistoryKept` |
| `InviteOnlyGateHolds` | `Spec => InviteOnlyGate` |
| `DeactivatedHolds` | `Spec => DeactivatedHasNoClans` |
| `CodesSingleUseHolds` | `Spec => CodesSingleUse` |

The invariant `ClanInvariant!IInv` says where a handler can be (`ControlOK`),
that locks held on a row agree in mode and that a handler past a locking
statement holds that row (`LocksOK`), that leaders are accepted members
(`RollsOK`), and that what a service checked under its locks still holds
(`FreshOK`). The last part is what needs care: a deactivation locks the user and
no clan, so what a leader checked of a member may be gone; `ClanFresh` says how
much of it can go. The proof is by rely and guarantee: each commit promises the
others (`ClanGuarantee`, `UserGuarantee`, `CodesGuarantee`) to leave alone what
is protected by a row it does not hold, and what a waiting request knows follows
from those promises alone; the commits are then treated one by one.

The proof changed one property: with three requests an account can be
deactivated by two of them, and the second deletes rows although the account was
inactive already. The exception of `HistoryKept` is now the commit of a
deactivation and not the change of `is_active`. Two request slots do not show
the difference.

### Campaigns

For every number of users, campaigns and requests, any length of a day and any
dates, from `CampaignAssumption`:

| Theorem | States |
|---|---|
| `LifecycleAgreesHolds` | `Spec => []LifecycleAgrees` |
| `BoardRefinedHolds` | `Spec => BoardRefined`, the refinement of `CampaignBoard` |
| `NoticedOnceHolds` | `Spec => []NoticedOnce` |

`CampaignInvariant!IInv` adds to the property that a new campaign belongs to one
request until it is inserted and every other request works on one that exists
(`FlowAt`), that a lock is held exactly by the request about to save or commit
(`LockOK`), that the row read under the lock is still the row of the table
(`SaveOK`), and that the row to be committed is one step of the board ahead of
it, with notices for those enrolled now (`CommitOK`): an enrolment waits for the
lock, so the audience cannot grow in between. A proposal is approved only when it
starts after the clock, so it enters promotion and never a later stage. Each step
is then mapped to a step of the board (`SyncBoard`, `CommitBoard`,
`InsertBoard`, `EnrolBoard`) or to none (`Quiet`); `EmptyOK`, that nobody is
enrolled in a campaign that does not exist, is what an insertion needs.
`NoticedOnce` is proved of the board: a kind of notification is sent only with a
move after which it counts as sent (`InboxOK`).

### Accounts

For every set of accounts, logs, careers, tokens and requests, from
`AccountAssumption` (account keys are natural numbers, since rows are locked in
their order; the logs of an account are finitely many, since they are counted;
the e-mails and object ids of the first accounts are unique):

| Theorem | States |
|---|---|
| `ResetHoldsHolds` | `Spec => []ResetHolds`, with the type invariant |
| `PendingFreshHolds` | `Spec => []PendingFresh` |
| `AdminsRemainHolds` | `Spec => AdminsRemain` |
| `AdminsAuditedHolds` | `Spec => AdminsAudited` |
| `CreditKeptHolds` | `Spec => CreditKept` |
| `InstitutionKeptHolds` | `Spec => InstitutionKept` |

`AccountInvariant!IInv` has a part for each kind of handler. `SavingOK`: a
sign-in that will save a user row has locked it, or creates it under a key
nobody else was given (`KeysApart`); the row it will save is an ADMIN's exactly
if the account is, and the profile it read without a lock is still worth as much
(`Worth`: points and item), because an audit or a deactivation needs the user
row and a purchase trades one for the other. `CountingOK`: the administrators a
role change or deactivation has seen are locked and therefore still active, and
before a deactivation commits it holds every pending log, as a submission needs
the user row. `AuditOK`: the log an audit has locked keeps its status, and the
balance a revocation checked is still there. `IdleOK` is the strengthening of
`ResetHolds`: the admin form can save a row it loaded earlier and clear the mark
that the owner left, so the property has to hold of every inactive account the
form did not enable or disable. `PeriodsOK`, that no log is of a period that has
not begun, is why nothing counts right after a reset.

The proof is again by rely and guarantee. `Rely` says what a step leaves alone
for the others: a user row they hold or are about to insert and its pending
logs, the worth of a profile a sign-in has read, the balance of a profile and
the status of a log that are locked. Fourteen actions change no table and are
proved with one lemma (`Advance`); the eight that do (`WritingSteps`) end their
transaction and are treated one by one.

The exceptions the action properties make are the steps themselves: the save of
the admin form for that account, a sign-in's save of that account, the
revocation of an old log.

### Catalog

For every set of files, sites, words, edits and runs of the two commands, from
`CatalogAssumption` (a category and an action have no key besides their code,
only an action refers to another row, the categories come before the other
items, a clan is imported alive, and the columns have their JSON types: whatever else a file says is left to the validation) and
`BoundsAssumption` (the two bounds are natural numbers):

| Theorem | States |
|---|---|
| `CatalogInvariantHolds` | `Spec => []IInv` |
| `ReleasesHoldHolds` | `Spec => []ReleasesHold` |
| `NothingHalfHolds` | `Spec => []NothingHalf`, with the type invariant |
| `RerunsAcceptedHolds` | `Spec => []RerunsAccepted` |

`CatalogInvariant!IInv` says that a command has inserted only rows of its own
file, which passed validation (`CommandOK`), and that no two rows, committed or
inserted by whichever command, collide in key or code (`ApartOK`): an INSERT
waits for the transaction that holds its key. A release that has imported an item
sees a row with its identifier, and one that has checked it again sees it as
approved and under no other identifier (`ReleaseOK`), unless an administrator
wrote to it; the commit turns the second into the same fact about the table
(`LandedOK`). Codes move: an administrator can give a category's code to another
row. The comparison of an action's category by code is still enough while nobody
wrote to the approved category: it was imported and checked before the action,
so the release still sees it as approved and no other category has its code
(`CategoryItem`). Where somebody did write, `Stands` leaves the column open.
`StaysApproved` shows that a commit of another command disturbs
none of this, `Undisturbed` that a write of anyone else does not: it writes to
the row, or the row is a private clan, which no catalog contains. `NoReason` and
`NothingInserted` treat a rerun: while nobody wrote to its rows it finds each of
them, inserts none, and so can fail neither at a statement, nor in a deadlock,
nor at COMMIT.

### Files and sockets

For every set of logs, notifications, keys, sockets and requests, every workload
and every capacity of a channel, from `AfterCommitAssumption` (the logs of the
user are finitely many, since a deactivation turns their keys into a list of
callbacks; a log is not one of the other rows that are locked; a channel holds at
least one event):

| Theorem | States |
|---|---|
| `AfterCommitInvariantHolds` | `Spec => []IInv` |
| `ImagesKeptHolds` | `Spec => []ImagesKept`, with the type invariant |
| `NoLeakHolds` | `Spec => []NoLeak` |
| `NothingMissedHolds` | `Spec => []NothingMissed` |
| `ClosedOutHolds` | `Spec => []ClosedOut` |

The properties speak of rows and files between requests; what makes them true is
who owes what in the middle of one. `AfterCommitInvariant!IInv` says

- which statement a request can be at, with which locks, a new file or collected
  keys (`ControlOK`), and that what it has read of the logs is still so
  (`ReadOK`): a submission waits for the user row, an audit for the log;
- that a key has one use at a time: it is a photo, the evidence of logs, a
  file not yet committed or a photo to be deleted (`KeysOK`). This is why a
  deletion that runs long after its commit, or the clean-up of a failed request,
  never hits a file another row has begun to use;
- that only evidence of logs a deactivation rejected, or collected and lost to an
  audit, is about to be deleted (`ImagesOK`); that every file has a row, a
  request that will commit it, a deletion that is due, or had one that a fault
  dropped (`LeakOK`);
- that a socket which has counted has heard of every unread notification or will
  (`HeardOK`), and that a socket in the group of a deactivated account was told
  to close, will be, joined late, or is one whose closing a fault dropped
  (`ClosedOK`).

The step proofs share these lemmas: `QuietStep` for steps that change no row and
no file, `KeysStay` (no step takes a key from a log), `NewFiles` for uploads,
`FewerCallbacks` for callbacks that run or are dropped, `FaultStep` for what a
fault leaves undone, and `CommitParts` and `CommitLeak` for a commit, whose
answer may be lost.

The proof corrected the model in one place: a deactivation whose COMMIT took
effect and whose answer was lost has written `progress_reset_at` too, so the
requests under way are outdated by it as by any other deactivation (`Outdate`).

### Only model-checked

`RequestsFinish` and `PushArrives` are liveness under fairness, outside the
prover's reach. What `StreakLength` computes for every day set is not proved,
only its type.

## 6. Not modelled

- Raw row edits in the Django admin of memberships, campaigns and points. The
  form of a user and of the catalog is modelled.
- Refresh tokens and logout, which only touch the token blacklist, and the mock
  identity provider of development.
- Posts of the feed and their images written by hand, serving files. A submission
  for an action that needs no photo is approved at once; the ledger models it,
  `AfterCommit` only those that wait for an audit. An object key that no
  log of the user names counts as one stored elsewhere (`None`); files that belong
  to nobody's log, and those of other users' logs, are not told apart from it.
- `seed_reference`, `bootstrap_dev` and the other seeds, the recovery and smoke
  commands, migrations, CI and release scripts: fixture data or read-only checks
  on a database nobody uses at that time.
- Rankings, dashboards, public profiles: queries that change no state.
- Throttling: rate limits decide which requests arrive, and the models let all
  of them arrive. Permissions are guards of the operations they protect.
- Wording, pagination, environmental factors of an action, and settings.
