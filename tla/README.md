# Verification of marumie / mirai-kojin in TLA+

This directory holds TLA+ models of the two programs in this repository, the
TLC runs that check them on small instances, and TLAPS proofs of what matters
most in thirteen of the fourteen models. Every definition was translated from the source; the
lines it stands for are listed in `PROJECT.json` under `map`. Paths below are
relative to the root of the repository.

## 1. The system

The repository holds two programs that share an ancestry and no run-time state.

**mirai-kojin**, a self-hosted household ledger: `api/` (Rust, axum, sqlx,
PostgreSQL), `frontend/` (Next.js pages around `frontend/src/lib/api-client.ts`),
`cli/` (converter of bank CSV files), `backup/` (pg_dump scripts).

**marumie**, the publication of political funds: `admin/` (Next.js server
actions over Prisma, Supabase for authentication), `webapp/` (the public site,
read-only), `prisma/` (schema, migrations with triggers), `shared/` (account
tables), `supabase/`, `scripts/`, `db/`, `data/`.

### 1.1 Inventory

| Component | State it keeps | Operations | Interacts with |
|---|---|---|---|
| api: key custody and sessions (`auth_service.rs`, `backup_service.rs`, `auth/session.rs`, `auth/webauthn.rs`, `routes/auth.rs`, `routes/admin.rs`, `crypto/`) | `users`, `encryption_keys`, `sessions`, `webauthn_credentials`; the process's session key | register, login, unlock, logout, rotate master password, restore with recovery key, passkey registration and login, delete user | every other handler, through the `Session` extractor and its DEK |
| api: credentials and start-up (`auth_service.rs`, `main.rs`) | `users.password_hash`, `must_change_password`, `totp_secret`, `totp_enabled` | change password, set up / enable / disable TOTP, login's check, creation of the initial user | key custody (the same rows) |
| api: accounts, transactions, CSV import (`account_service.rs`, `transaction_service.rs`, `csv_service.rs`) | `accounts`, `transactions` | create, update and delete accounts; create and delete transactions; import a file | the parsers, the DEK of the session |
| api: budgets (`budget_service.rs`, `routes/budgets.rs`) | `budgets` (`balance_snapshots` is declared and never used) | list, create, update, delete | the pages, the dashboard |
| api: CSV formats (`api/src/csv`) | none | detect, parse; categorize | the import |
| cli (`cli/src`) | none | detect, convert, post | the api's parsers (a second copy) |
| frontend (`frontend/src/app`) | lists, dialogs and calls of each open page, the session cookie | list, add, edit and delete transactions, budgets and accounts; the dashboard's figures; login, settings, CSV upload | api |
| backup scripts | files | dump, encrypt, prune, restore | PostgreSQL |
| admin: bookkeeping import (`contexts/data-import`, `components/csv-upload`, `components/csv-import`) | `transactions`; the state of each upload page | preview, save, delete all | webapp's caches (HTTP), Prisma |
| admin: donors and counterparts (`contexts/report`, `components/*-assignment`) | `donors`, `counterparts` and their links to transactions; cached lists; the state of each assignment page | maintain, assign, unassign, import a donor file; filter, switch, create and assign on a page | transactions (cascades, triggers), the cache of Next.js |
| admin: report assembly and XML export (`contexts/report`, `components/export-report`) | a preview kept for a minute; what an open page shows | assemble, serialise, preview, download | transactions, donors, counterparts, report profile |
| admin: report profile (`components/report-profile`) | `organization_report_profiles`; the cached query; the form of each open page | open a year, edit, save | report assembly |
| admin: authentication, users and roles (`contexts/auth`) | `users`; Supabase's accounts and sessions | invite, first sign-in, change of role, password reset | Supabase |
| admin: organizations, balance snapshots (`contexts/shared`) | two tables | create, delete, clear the public caches | webapp, transactions (cascade) |
| webapp | time-limited caches | queries, aggregations, refresh route | the database, admin's refresh call |
| shared, prisma, scripts | account tables, schema, triggers | | all of marumie |

### 1.2 What is hard

* **No database transactions in the api.** Every handler is a sequence of
  statements that each commit on their own; handlers of different requests
  interleave between them, a client that disconnects drops the handler's future
  between two of them, and a crash ends all of them. Argon2 runs for a noticeable
  time between a read and the write that depends on it.
* **Secrets live in three places at once**: wrapped in `encryption_keys`, sealed
  in `sessions` under a key that may change at a restart, and in the memory of
  handlers in flight.
* **Check-then-act everywhere**: duplicate detection, owner check, TOTP
  verification, overlays of a row read earlier.
* **No database transactions in most of the admin either.** An export reads its
  sections by queries issued together; a check of a donor's type, a count of links,
  a search for a user's row and the write that relies on it are separate statements.
  Triggers on the link tables refuse some of what goes wrong, and nothing looks
  again when a donor or a transaction changes later.
* **Caches that nobody clears.** The public pages and the lists of the assignment
  pages are kept for a time limit; the refresh route revalidates tags no loader
  declares; a list read before a change may be cached after it.
* **Pages that show what they asked for** before it is stored, keep forms that
  were opened over rows changed since, and hear the answers of their calls in any
  order. The form of the report profile keeps the row it was opened with when the page
  moves to another year.
* **The same figure computed twice**: two forms of a report, its file and its preview, two
  diagrams of a page, the cards and the bars of the dashboard, each by a query and a sum of its own, over
  amounts that may be negative.
* **The admin trusts what the page sends back.** A preview is classified on the
  server, kept by the page, sent back later and written as it is, by one bulk
  INSERT and parallel updates outside any transaction.

### 1.3 What makes each component correct

* Key custody: a key row can always be opened by its owner; a session only ever
  holds its own user's DEK; what was stored stays readable; logout, deletion and
  restart are final.
* Credentials: nobody loses the ability to log in by an interleaving; the forced
  password change is for the environment's password alone.
* Ledger: an import stores every line once, whatever is retried or overlaps; rows
  never outlive their account.
* Bookkeeping import: what is saved is what was shown; success means everything
  is stored; a file whose lines have numbers changes nothing when imported twice;
  deleted rows stay deleted; invalid lines are not stored.
* Donors and counterparts: a link that does not fit comes about only by a later edit;
  deletions take nothing that was there when they were asked for; an import links what
  its rows say. The pages show what they stored.
* Report: the sheets of a file add up and agree with its digits, whatever is edited
  while it is made; what the pages ask for is all the report needs; the file that is
  downloaded is the preview beside it.
* Report profile: nobody a profile names is missing from the report; a cached profile is
  the stored one but for saves that overlap its query; a save finds its row.
* Users and roles: a role changes only by an administrator's request; nobody loses the
  last administrator but by their own hand or a stale request.
* Public site: the parts of a page agree, and what it shows catches up with the tables.
* Household pages: what a tab wrote is what it shows; an edit leaves other fields alone.
  Dashboard: cards, bars, flows and balance fit together. CSV: a line is read as it was
  meant, by the parser of its institution.

The hazards behind these, each at its line, are in `PROJECT.json` (`hazards`).

## 2. The modules

| Module | Models | Used by |
|---|---|---|
| `Crypto` | ideal encryption and key derivation | `KeyVault` |
| `DekCustody` | abstract specification: vaults and who holds their DEK | refined by `KeyVault` |
| `KeyVault` | key custody and sessions | `MCKeyVault`, `KeyVaultProofs` |
| `KeyVaultProofs` | theorems: its invariants, its action properties, the refinement of `DekCustody` | |
| `Credentials` | login credentials and start-up | `MCCredentials`, `CredentialsProofs` |
| `CredentialsProofs` | its theorems | |
| `Ledger` | the api's accounts, transactions, CSV import | `MCHousehold`, `BooksProofs` |
| `Household` | the pages of transactions, budgets and accounts; the budget handlers | `MCHousehold`, `BooksProofs` |
| `Dashboard` | the dashboard's calls and figures | `MCHousehold`, `BooksProofs` |
| `BooksProofs` | the theorems of `Ledger`, `Household` and `Dashboard` | |
| `CsvFormats` | detection and parsing of bank and card files, api and cli | `MCHousehold` |
| `DataImport` | the admin's bookkeeping import | `MCDataImport`, `DataImportProofs` |
| `DataImportProofs` | its theorems | |
| `AccountCategories` | the categories and the rules for donors and counterparts | `Report`, `Assignments`, `Desk` |
| `Report` | the yearly report, its export and validation | `Sheets`, `MCReport`, `OfficeProofs` |
| `Sheets` | the sheets of the file, the preview, its cache and the download | `MCReport`, `OfficeProofs` |
| `Profile` | the report profile: table, form, cached query, save | `MCReport`, `OfficeProofs` |
| `Assignments` | donors, counterparts, their links, the donor file | `Deletions` |
| `Desk` | the two pages that assign them, their caches and server actions | `MCOffice`, `DeskProofs` |
| `DeskProofs` | its theorems | |
| `Members` | users of the admin, invitations and roles | `MCOffice`, `OfficeProofs` |
| `OfficeProofs` | the theorems of `Members`, `Report`, `Sheets` and `Profile` | |
| `PublicSite` | organizations, snapshots, the public pages and their cache | `Deletions` |
| `Deletions` | `Assignments` and `PublicSite` with the property their deletions share | `MCOffice`, `TablesProofs` |
| `TablesProofs` | the theorems of `Assignments`, `PublicSite` and `Deletions` | |
| `Sums` | lemmas about sums over finite sets | `OfficeProofs`, `BooksProofs`, `TablesProofs` |

`MCHousehold`, `MCOffice` and `MCReport` put components of one program side by side. They
meet only in tables, and each module has the edits the others make of its tables among its own
actions; a variable `part` chooses which component a behaviour follows, and the
variables of the others stay as they began. One run then checks what would be several,
over the disjoint union of their states.

Conventions. A table is a set of rows. In the api's modules a request in flight is
a record of the locals its handler still needs, in a slot of `Requests`, and its
`pc` names the next statement: one action per SQL statement, with every check and
early return that precedes it. `Abort` ends a handler between two statements (a
dropped connection), `Restart` ends them all. Values the code draws at random are
numbered in the order they are drawn and never repeat. `drawn` counts them and the
other events that a run must bound; the bounds are the constants `Max...`. Each
`X_Y` next to an `X` (`Rewrap_KeepsSalt` next to `Rewrap`) is a plausible bug in the
code `X` models: with it in place of `X` the run named in `PROJECT.json` fails.

### KeyVault

`users`, `keys`, `sessions`, `passkeys` are the tables; `records` stands for every
table with `..._encrypted` columns. A ciphertext is the pair of the key that made it
and the plaintext. `encrypted_dek.key` of a session is the number of the process
key it was sealed under and `server` the one in use, so a session of an earlier
process does not decrypt (`ValidSession`). A registration draws user id, DEK and
recovery key together; they carry the same number, which is what makes "its own DEK"
expressible. `held` records which recovery keys reached a client: the answer of
`register` is the only time it is shown. Handlers: register (4 steps), login and
unlock (find or validate, read the DEK, write the session), rotate and restore
(begin, unwrap, update), the two passkey registrations, logout, delete user (begin,
owner check, delete), store. WebAuthn login creates a session without a DEK for any
user there is, as `webauthn_login_finish` reads no stored credential; the
placeholder rows of `webauthn_register_start` are included.

`DekCustody` says what all that amounts to: vaults are created once with one DEK and
one recovery key, sessions of the vault's user are granted the DEK, grants are
revoked, a user's vault and grants vanish together. `ImplementsCustody` is the
refinement, through `AbstractVaults` and `AbstractHolders`.

### Credentials

`password_hash` is the password it verifies; a TOTP code is the secret it was made
from. `boot` is the progress of `create_initial_user`, which `main` awaits before it
listens and whose errors it logs and ignores. Registration and deletion of users are
single steps here: their interleavings are in `KeyVault`.

### Ledger

A transaction is its account and its duplicate hash: date as text, amount and
description (`Items`). Dates come with leading zeros, without, or not as dates, which
is all the parsers let through. Import takes a parsed file and runs check and INSERT
line by line; a manual entry is the same pair once. `update_account` reads, overlays
and writes.

### DataImport

`page[c]` is the upload page of one administrator: selection, the preview it shows,
whether the last preview call failed, and the queue of its server calls (the
framework's client sends them one at a time). A save carries the organization selected
when the button was pressed and the preview shown. `jobs` are the parallel updates:
they outlive the answer of their save when another one fails. A line is its number,
its data, whether its date parses, and whether its accounts are known and have a type
(`Kinds`) and its category is there (`tagged`, which is also true where the validator
needs none). `Classify` is the validator, which does not look at the status the
converter gave; it is given the stored rows of the file's numbers but of blank ones
(`Existing`, `NoNumber`). A connection that breaks, a failed update and a restart of the server
are the faults.

### Household

One of the three pages (`resource`) open in several tabs of one user. A tab has the
list its last load brought, a dialog, and calls in flight; a call is served in one
step or, an edit of a budget, in two (`ServeEditRead`, `ServeEditWrite`:
`update_budget` reads the row, overlays what came and writes every column back). A
success is followed by a load of the list, loads are neither cancelled nor
ordered, and answers may be lost. Budgets and accounts are listed whole; of transactions
the api lists `MaxListed` (1000) at most, the latest first, whatever the page asks for
(`Latest`). A row is what identifies it and the rest, which is
what it takes to tell "the field the user left alone" from the one that was edited.
`writer` is a history variable: the tab that wrote a row last, if its answer came.

### Dashboard

Three calls issued together, each of which reads the tables when it is served, over
transactions that are added and removed meanwhile; then every sum of `buildSummary` and
`buildSankeyData` as an operator over what came. Amounts are integers; the list limit of
the server is a constant, and which of several rows of one day falls outside of it is
nondeterministic. Sums are `SumFunction` of the module `Functions` over the amounts of the
rows in question, in `Report` as well.

### CsvFormats

A column of a file is what it means and the words its title contains, a line is what
happened, and cells follow from both. Rules of detection are sets of words in the order
the code asks for them; each parser reads the columns it finds by position or by word.
The layouts of `MCHousehold` are those the comments of the parsers and detectors give,
and the files vary by institution, by header and by lines that are odd (a day without
zeros, a day that does not parse, an amount on the other side).

### AccountCategories and Report

A transaction is a line (type, category, friendly category, debit, credit) with its
donor, counterpart and grant flag. `StartExport` is `XmlExportUsecase`, which issues one
query per section; `ReadSection` is one of them, and the edits other pages make
(assignments, the grant flag, an import, a delete-all, the profile) happen between them.
`Answer` builds the file: `Data` the sections, `Flags` the digits of the cover sheet,
`Forms` the sheets the serializer writes, `Summary` and `ExpenseSummary` the totals of
forms 02 and 13, `Errors` the validators. `answer` keeps what a finished export reported
until the next step, `edited` the transactions written since it began.

### Sheets

`Sheets` EXTENDS `Report` by what becomes of an export. `Written` is what
`serializeReportData` writes of a category (nothing unless its form is due; an empty sheet
for a political category without himokus; empty elements for what is not positive),
`Sheet02`, `Sheet13` and `Sheet16` the sheets of totals, `Tables` and `SummaryPanel` what
the components of the preview show. An export answers whoever asked (`asker`): the page
(`OpenPage`, which waits for it), the replacement of a kept preview in the background, or
the button (`Download`). `Deliver` is the end of it. A kept preview may always be shown,
at first or as one that is due to be made again, which is what 60 seconds of
`unstable_cache` come to. `since` is the number of edits there had been when the export
of a preview began. Exports only read, so one of them at a time loses no behaviour of the
tables; one browser has the page open.

### Profile

A row is its financial year, which it keeps for good, with its id written as the year.
A form has the year its page shows (`shown`) and, apart from that, id, year and content of
its first render (`Mount`). The edits are the handlers of its sections, with the limits
that only they apply. A query in flight (`renders`) has read the table when it begins and
is kept and shown when it `Arrive`s; a save is a call that is stored, or refused by the
UNIQUE key, then clears the cache, then answers, and may be lost before or after.
`overlapped` marks queries that a save of their year came between, `at` the year the page
showed when the button was pressed; both are history. `Sheet01` and `Panel01` are what
the file and the preview show of a profile.

### Assignments

`parties` is the tables of donors and counterparts, `link` the two link tables, `ledger`
the transactions, which are re-imported and deleted under them. A request is the
server action in flight with the locals it still needs. `CreateBegin`/`CreateWrite`,
`UpdateBegin`/`UpdateCheck`/`UpdateWrite`, `DeleteBegin`/`DeleteCount`/`DeleteWrite`,
`AssignBegin`/`AssignCheck`/`AssignWrite`, `Unassign` and `ImportBegin`/`ImportMatch`/
`ImportWrite` are the statements of the use cases. The triggers
(`Linkable`) and the UNIQUE keys refuse a write, which then has no effect. `written`
records what other requests wrote since a request began.

### Desk

The two assignment pages, in several tabs, over one list per address (`kept` is
`unstable_cache`, with its 60 seconds as the action `Forget`). A page has the list its
last load or answer brought, the switches it shows by hand (`overrides`), a dialog that
keeps the rows it was opened with, the load under way (`coming`) and a queue of server
actions, of which one at a time goes ahead (a function of the numbers under which they
were sent). Refused actions, lost answers, changes of
address, pages opened anew and dialogs closed while their call is pending are actions.
What the framework does (the queue, `revalidatePath`, the page an action's answer brings,
what becomes of them when the address changes) is modelled as the pages rely on it and
marked external. A dialog offers the donors or counterparts of the tables; the page's own
list of them, cached as well, may lack the newest. `aware` is a history variable: which pages should know the link or the
flag of a transaction as it is stored.

### Members

Accounts of Supabase, the rows of `users`, and the handlers that bring them together:
whichever request meets an account without a row creates one with the role user
(`SyncFind`, `SyncCreate`), a change of role reads the caller's role and writes later.

### PublicSite

`versions` is every state the tables had; a load issues its queries one after another,
so what it brings lies in a window of versions, and a cache entry is kept as that window.
Everything a page shows (monthly totals, both flow diagrams, balance sheet, list, CSV) is
computed from the tables by the operators of the queries and charts. An expired entry is
answered once more while it is loaded anew, loads of one key may overlap, and an
organization is counted, then deleted with its cascade.

## 3. The runs

All passing runs explore their instance completely. `CHECK_DEADLOCK` is off because a
bounded instance stops when its bounds are used up, and because an idle server stops
legitimately.

| Run | Instance | Shows |
|---|---|---|
| `vault_restart` | 1 user, 2 passwords, 2 requests, 2 sessions, 3 salts, 1 restart | `VaultConsistent`, `RecordsReadable`, `LogoutIsFinal`, `StaleSessionStaysRefused` |
| `vault_two_users` | 2 users, 1 password, 2 requests, 2 sessions, 2 salts | `IInv`, `SessionDekIsUsersDek`, `LastUserFallsOnlyToStaleDelete`, `ImplementsCustody` |
| `vault_recovery` (violation) | 1 user | README.md:193 promises recovery of a lost password with the recovery key; an interrupted registration has none |
| `ledger`, part ledger | 2 requests, 2 files of 3 lines, 1 account, 3 writes, 1 abort | `DuplicatesBounded`, `ImportPassesOnlyStored`, `ImportEnds`, `TypeOK` |
| `ledger`, part pages | each of 3 pages, 2 tabs, 2 row ids, a list of 1 transaction, an older and a newer one to add, 2 clicks, 1 loss | `OwnWritesShown`, `UntouchedFieldKept` |
| `ledger`, part dashboard | 3 households of 3 to 5 transactions, a list of 4, 2 edits | `DashboardAdds` |
| `ledger`, part csv | every layout the comments give, on both sides, with 4 sets of lines | `ReadAsMeant` |
| `csv_bank_sides` (violation) | the same | the cli reads a withdrawal in an SBI file as a deposit |
| `credentials` | 2 users, 2 passwords, 2 secrets, 2 requests, 1 restart | `FlagMeansInitialPassword`, `LoginLostOnlyToStaleEnable` |
| `data_import` | 2 pages, 2 organizations, 2 files, 3 selections, 2 saves, 1 delete-all, 1 fault | `SettledPreviewIsCurrent`, `ReimportHasNothingLeft`, `SuccessMeansSaved`, `DeletedRowsStayDeleted`, `SaveEnds` |
| `import_bad_date` (violation) | 1 page, 1 file | an invalid line is stored |
| `office`, part assignments | 2 requests, 2 transactions of 3 kinds, 3 parties, 2 files | `UnfitOnlyByEdit`, `DuplicatesOnlyByOverlap`, `ImportLinksAsFiled`, `DeletionsTakeOnlyNew` |
| `office`, part desk | 1 tab of the donor page, 2 of the counterpart page, 1 transaction, 2 server actions, 1 change of address, reload or lost answer | `OwnWorkShown` |
| `office`, part members | 3 accounts, 2 administrators, 2 handlers, 4 requests | `RolesGivenByAdmins`, `LastAdminFallsOnlyToSelfOrStale` |
| `office`, part site | 3 first states, 3 slugs, 2 pages, 1 change and a deletion, 2 loads at once | `PageAgrees`, `DeletionsTakeOnlyNew`, `EventuallyCurrent` |
| `report`, part report | 4 books of 2 or 3 transactions, 9 lines, 1 edit around any number of previews and downloads | `FlagsMatchForms`, `FileReconciles`, `DonorListedWhole`, `DetailsSuffice`, `ExportReportsUnedited`, `FiledAsShown` |
| `report`, part profile | 2 years, 2 browsers, no row or one that is almost full, 2 inputs, 2 queries under way | `NobodyDropped`, `KeptIsCurrent` |
| `profile_years` (violation) | the same | a save from the page of one year writes the row of another |
| `report_totals` (violation) | the same | two totals of one report differ by the personnel costs |

Why the bounds suffice. Every hazard listed is a race of two handlers over one row, or
of one handler with a restart or a client that goes away; two slots and one restart
contain all of them. Three salts are a registration and two rotations, the least for
one rotation to write over another. Two users are needed to mix up DEKs and to delete
each other. In `ledger` the files hold a repeated line, the same day in two spellings
and a line that fails; three writes allow a retry of an interrupted import against a
concurrent one. In `data_import` two saves are an insert and the update that depends on
it, with a second page, a delete-all or a fault in between. In `report` the thresholds
are 2 and 4, so that single gifts, sums of gifts and single expenses fall on both sides
of them, and on them; one edit is enough to put two queries, or a preview and a download,
on both sides of it. For the profile, two inputs are an edit and a save, two browsers and
two queries a save that overlaps another's query, two years the page that moves under its
form; three contact persons fill the slots of sheet 01. In `office` two requests contain every race of a check and a write, and three parties one that
exists and one that each of two requests creates. On the assignment pages two actions are
the least for one to be served while the answer of the other is still under way, and two
tabs for a list to be cached by one and shown by the other. On the public site one change,
a deletion and two overlapping loads make an older answer end last. In the household's
pages two clicks and two tabs do the same for reloads. Request slots, addresses and
passwords are interchangeable and are symmetry sets where a run has no liveness property.

Reading some of the properties:

* `DuplicatesBounded` is what the check-then-insert really gives: at most as many copies
  of a transaction as requests in flight at once, over any history of retries. A client
  that waits for each answer never stores a duplicate. The comments suggest none at all
  (section 5).
* `LastUserFallsOnlyToStaleDelete` and `LoginLostOnlyToStaleEnable` name the one
  interleaving each that defeats the code's check, and show there is no other.
* `StaleSessionStaysRefused` covers a request that validated its session before the
  restart and writes after it.
* `SettledPreviewIsCurrent` speaks of pages whose previews were all answered. While one is
  under way, the page still holds the preview of the former selection and the save button
  stays enabled (`CsvUploadClient.tsx:138`), and a save then writes the old lines under the
  newly selected organization. No document says otherwise; the model has that behaviour.
* `OwnWritesShown` and `OwnWorkShown` speak of a page at rest and name what excuses it:
  a load that failed or came late; another page's change; a lost answer; a list read
  before a change and cached after it. A transaction of the page's own may also be missing
  because the api cut the list; `Brings` says that it is then no later than any row shown, so
  a row that was deleted, changed or is new by date is never excused by the limit.
* `ReimportHasNothingLeft` excepts lines without a number, which no preview finds again,
  and says that a save of a new preview is refused over nothing else.
* `UntouchedFieldKept` excuses a form that was opened before the page had settled: an
  edit form that is opened between a save and its reload puts back the field the save
  changed.
* `UnfitOnlyByEdit` says what the triggers on the link tables achieve and what they do
  not: no interleaving of assignments and imports leaves a link that does not fit, while
  an edit of a donor's type or a re-import of a transaction may.
* `DetailsSuffice` connects two sets of rules written apart: which transactions the pages
  mark as requiring details, and which cells the report's validators require.
* `PageAgrees`, `FileReconciles` and `DashboardAdds` relate figures that the code computes
  along different ways; their conditions (amounts on both sides, no negative amount or
  category, no overdrawn account) are those the code's formulas need to agree. `FileReconciles`
  includes `SheetsReconcile`, what the sections say of each other before they are written.
* `FiledAsShown` compares two exports, made at different times and shown by different code;
  it excuses a preview that something was written after.
* `KeptIsCurrent` names what excuses a cached profile that is not the stored one. Such an
  entry stays until it is made again a minute later, and forms keep what they were opened
  with for as long as they are open.
* `ReadAsMeant` also says what happens outside of the documented layouts: a file is refused
  or read as empty, and never as something else. The cli's banks are the exception, and
  `csv_bank_sides` shows it.
* `EventuallyCurrent` says nothing of the refresh route, whose tags no loader declares
  (`webapp/src/app/api/refresh/route.ts:20`); what makes it true is the time limit.
* `SuccessMeansSaved` requires that nothing was deleted only for the stored lines; that no
  update of a successful save is still running holds always.

### Fairness

`ledger`, `data_import` and `office` check liveness; the report and its profile state none. In `Ledger` every handler that was begun is
weakly fair (`WF_vars(Step(p))`): the executor polls a future whose statement is
answered, and no statement of the model waits for another handler. In `DataImport` the
server is weakly fair for each page's current call and for the pending updates taken
together: Node's event loop runs what is ready. In `PublicSite` every page is requested
again and again (`SF(Visit)`: without visitors there is nothing to be current for), the
time limit of a cache entry passes (`WF(Expire)`) and a load that was begun ends
(`WF(FinishLoad)`). Nothing makes users act, administrators edit, connections break or
servers restart.

## 4. What is proved

### Key custody and credentials (`KeyVaultProofs`, `CredentialsProofs`)

`KeyVaultProofs` proves, for every set of request slots, addresses and passwords and all
bounds (`KeyVaultAssumption`: the bounds are natural numbers):

* `Inductive`: `Spec => []IInv`
* `TypeCorrect`: `Spec => []TypeOK`
* `VaultsStayConsistent`: `Spec => []VaultConsistent`
* `SessionsHoldOwnDek`: `Spec => []SessionDekIsUsersDek`
* `RecordsStayReadable`: `Spec => []RecordsReadable`

The three safety properties are not inductive: they say nothing of a handler that has
read a DEK and has not written yet. `IInv` adds what such a handler may assume
(`LocalsMatch`: the DEK in its locals is its user's, whose key row is there unless the
user is gone), that a registration in flight is the only owner of the numbers it drew
(`RegistrationsOwn`), that nothing carries a number not yet drawn (`DrawnBefore`), and the
foreign keys (`TableKeys`). `KeyRowsMatch` and `HoldersMatch` are the stronger forms of the
three properties that are preserved step by step: a key row keeps the number its
registration drew, sessions and records carry their user's.

The argument has one lemma per action. Most of them follow from two: `LocalStep`, for a
handler that changes only its own locals, and `WriteStep`, for one that writes a table.
The steps with a proof of their own are those that draw a number (registration), those
that remove rows under other handlers (deleting a user), and the restart.

`CredentialsProofs` does the same for `Credentials` (`CredentialsAssumption`: the bounds
are natural numbers; the initial address and password are among the addresses and
passwords):

* `Inductive`: `Spec => []IInv`
* `TypeCorrect`: `Spec => []TypeOK`
* `FlagIsInitialPassword`: `Spec => []FlagMeansInitialPassword`
* `LoginKept`: `Spec => LoginLostOnlyToStaleEnable`, an action property

Here `IInv` adds that row ids are unique and drawn (`IdsDrawn`), that nothing is in flight
before the server listens, and that between the first INSERT of start-up and the flag the
last user drawn still has the password it was given (`BootAlone`): without the latter
`BootFlag` could flag a user with another password. `LoginKept` needs unique ids, so that
the row before and the row after a step are one user's, and from `TypeOK` that a handler
that stores or enables a secret has one.

### Custody of the DEKs (`KeyVaultProofs`)

* `CustodyImplemented`: `Spec => ImplementsCustody`, the refinement of `DekCustody`
* `LogoutStaysFinal`: `Spec => LogoutIsFinal`
* `StaleStaysRefused`: `Spec => StaleSessionStaysRefused`
* `LastUserKept`: `Spec => LastUserFallsOnlyToStaleDelete`

All rest on two descriptions of a step, each proved once over all actions: what may become
of a row of `sessions` (it keeps its DEK, an unlock seals its handler's DEK in it, or it is
new; `SessionEffects`) and of a handler's locals (`HandlerEffects`). `IInv` is extended by
`SealsMatch` (an unlock in flight holds a session that is not stale: a restart, which makes
sessions stale, ends every handler) and `DeletesAnother`. For the refinement each statement
is mapped: the INSERT of a key row creates a vault, an unlock or a login that seals a DEK
gives it to a holder, logout, deletion and restart take it away, every other statement is
a stutter, and `KeyRowsMatch` is what makes the DEK of a vault the same before and after a
rotation.

### Roles (`OfficeProofs`)

* `RolesAreGivenByAdmins`: `MembersSpec => RolesGivenByAdmins`
* `LastAdminIsKept`: `MembersSpec => LastAdminFallsOnlyToSelfOrStale`

A role is written long after the role of the one who asks was read. What is left of that
look is `WriterWasAdmin`: who writes is an admin, or was demoted since the request
began. It is inductive because every demotion is recorded for all requests under way, and
`TargetHasRow` because no row of `users` is ever removed.

### Duplicates (`BooksProofs`)

* `DuplicatesStayBounded`: `Spec => []DuplicatesBounded`
* `SerialClientStoresOnce`: with one request slot, no transaction is stored twice
* `ImportLeavesNoLineBehind`: `Spec => ImportPassesOnlyStored`
* `LedgerTyped`: `Spec => []TypeOK`

A counting argument: with the rows of a hash are counted the handlers about to insert it. A
handler joins these only while no row has the hash, and then all that are counted are
handlers, of which there are finitely many (`LedgerAssumption`); an INSERT turns a handler
into a row. It needs that rows are finite and that a handler about to insert has a line with
a valid date (`HandlersReady`).

### Links (`TablesProofs`)

* `MadeLinksFit`: `AssignmentsSpec => UnfitOnlyByEdit`
* `OldLinksOutliveDeletions`: `AssignmentsSpec => DeletionTakesOnlyNewLinks`, the half of
  `DeletionsTakeOnlyNew` that is about donors and counterparts
* `ImportsLinkAsFiled`: `AssignmentsSpec => ImportLinksAsFiled`
* `DuplicatesNeedOverlap`: `AssignmentsSpec => DuplicatesOnlyByOverlap`
* `AssignmentsTyped`: `AssignmentsSpec => []AssignmentsTypeOK`

`Tracked` says of every request that what it has read holds still, except for rows that
others wrote since it began (`written`): the row it edits has its kind, the links that
a deletion counted are new, the donors that a file matched are as they were. Proving it
falls into two parts: a request's own step (one lemma per action) and the step of any other
as the request sees it (`Beside`), which keeps `Tracked` whatever it is
(`BesideKeeps`). The assumptions are that a donor file has finitely many rows, that the parties
a run starts with respect the UNIQUE keys, and types.

### Deletions and public pages (`TablesProofs`, `Sums`)

* `OrganizationsOutliveTheirRows`: `SiteSpec => OrganizationDeletionTakesOnlyNewRows`
* `DeletionsKeepWhatTheySaw`: `AssignmentsSpec /\ SiteSpec => DeletionsTakeOnlyNew`
* `PartsOfPagesAgree`: `SiteSpec => []PageAgrees`, if `NamesApart`

for any slugs, imports, snapshots and tables of integer amounts (`SiteAssumption`: the tables
there are at first have the keys of the schema, snapshots of the previous year are dated
before those of the current one, and bounds are numbers). `SiteInv` says of every version of
the tables that its keys fit together (`Kept`) and that its rows are among those there
may be (`Known`), and of a deletion under way that the version it counted in has no
transactions of the organization; it holds of the versions to come because a version, once
written, stays.

`PageAdds` is about one version. Each part of a page is a sum over the lines of the
organization. The aggregation for a diagram takes them apart by category and
subcategory or tag, and adds up to them category by category (`AddsUp`); merging small items
leaves the sum of each category as it is (`ConsolidateKeeps`), so the two diagrams, which
group differently and merge differently, agree (`DiagramsAgree`). Balancing adds items of
categories of its own, and its last step fills the gap (`FitsTogether`). Months
(`MonthsAre`), the list when it is complete, which is counted (`ShownIs`), and the latest
snapshots, of a year and of all years (`LatestIs`, `BalancesAre`), are the rest.
`NamesApart` is a hypothesis and not an assumption of the model, because nothing in the code
guarantees it: a tag is free text of the imported file, and an account that `PL_CATEGORIES`
does not list is a category under its own name. `MCOffice` assumes it, so TLC evaluates it
on the instance.

### Bookkeeping import (`DataImportProofs`)

* `PreviewsSettle`: `Spec => []SettledPreviewIsCurrent`
* `SuccessIsSaved`: `Spec => []SuccessMeansSaved`
* `ReimportsIdle`: `Spec => []ReimportHasNothingLeft`
* `DeletedStayDeleted`: `Spec => DeletedRowsStayDeleted`
* `ImportTyped`: `Spec => []TypeOK`

`ImportInv` has four ideas. `Settling`: a page either shows the preview of what it has
selected, or the last of its calls that ask for a preview asks for that one; what it shows
while earlier answers come in does not matter. `Progress`: every line of a save under way is
stored or in the hand of one of its updates, no update exists before the save has started or
after its refresh began, and those of a save that was answered with an error belong to no
save that is waiting. The latter needs that saves are numbered apart (`SavesApart`) and that
a page has one save in its queue. `Aimed`: the row an update found has its organization and
number as long as it is there; so an update that ends has its line stored, and the UNIQUE
key (`Keyed`) survives updates that change a number, because none does. Only a delete-all
takes rows away, and `Progress` excuses it. `ReimportsIdle` follows from `Keyed` and types by
cases over the classification of each line: inserted, skipped or updated, its row has its hash,
and a line with a number is found by it. A line that is to be inserted meets no stored row of
its number unless it has none (`RefusedForBlank`), which is the one way the save of a new
preview of a file whose numbers differ is refused.

### Pages of the household (`BooksProofs`)

* `SettledPagesShowTheirWrites`: `HouseholdSpec => []OwnWritesShown`
* `EditsKeepOtherFields`: `HouseholdSpec => UntouchedFieldKept`, an action property
* `HouseholdTyped`: `HouseholdSpec => []HouseholdTypeOK`
* `HouseholdInductive`: `HouseholdSpec => []HouseholdInv`

for any tabs, any rows a user may type, any of the three pages and all bounds
(`HouseholdAssumption`: there is a row at all, the first rows are rows, dates are numbers, the
bounds are natural numbers, that of the list not 0). What a load brings has every row, or as many
as it may have, none older than one it lacks (`ListingBrings`). `HouseholdInv` says of a row a page wrote last what becomes of the page's
list (`ShownSoon`): a write that succeeded is still to be heard of, or every load under way
is known to be late, brings the row as it is, or is overtaken by one begun later. The last
is what makes an answer out of order harmless or recognised: a load is begun with a number
above all others (`NextNumberAbove`, from a least-number argument), so the ones before it
are overtaken; and when the one that overtakes comes first, it marks them late. For edits,
`EditAlone`: while an edit from a form over a settled page is under way, the page's button
stays disabled, so that the page itself can only delete rows and load, and the row is still
the form's copy unless another page wrote it; `FormCurrent` says the same of the form before
it is submitted, and follows from `ShownSoon` when it is opened. A step concerns one page:
`QuietKeeps` takes care of all others, including that a row somebody else writes is no
longer theirs.

### Assignment pages (`DeskProofs`)

* `OwnWorkIsShown`: `DeskSpec => []OwnWorkShown`
* `DeskInvariant`: `DeskSpec => []DeskInv`, types included

for any number of transactions, pages, people, server actions and changes of address
(`DeskAssumption`: the lines have the types of the tables, the first people fit in the list;
`NotKeptAssumption`: nothing is not a list). The argument of the household's pages with a
cache in between. `KeptFresh`: as long as some page should know a field, no cached list is
wrong about it; a change takes the field from every other page and clears the cache, and a
load that would cache what it read before the change takes it from all. `LinkShown` and
`GrantShown` name what stands between a page that should know and a list that is
right: a load that reads the tables or has read them since; an assignment whose answer
starts one; an answered switch that brings a page. `Answers`, `InTurn` and `ReadAlone` are
what makes this hold from step to step: an answer brings a page exactly when the page was
not left since, actions are served in turn, and a load that was answered is the only
answer the page waits for. A switch has two values, the one shown by hand and the one of
the list: `LastAsked` says that the hand shows what the last action sent asks, and
`SwitchRight` that this is what is stored unless it is still to be served or put back.

### The report (`OfficeProofs`, `Sums`)

* `FlagsMatch`: `ReportSpec => []FlagsMatchForms`
* `SheetsAddUp`: `ReportSpec => []SheetsReconcile`, the first part of `FileReconciles`
* `DonorsListedWhole`: `ReportSpec => []DonorListedWhole`
* `DetailsAskedSuffice`: `ReportSpec => []DetailsSuffice`
* `ExportsReportUnedited`: `ReportSpec => ExportReportsUnedited`
* `ReportTypes`, `ReportInvariant`: types, and the invariant

for every finite set of transactions, all lines of integer amounts and all positive
thresholds (`ReportAssumption`). What the sheets say of each other is proved of whatever
the queries returned (`Whole`: each section got rows of its category), not of what the tables
hold: the queries of one export see different tables, and the sheets must add up all the
same. The rows of a section are the transactions listed one by one and the rest in one
row; donations are listed by donor, as groups (`GiftsAreGroups`, `SectionAddsUp`). The
invariant `ReportInv` is about the tables: of a transaction that nobody has written since
the export began, every section read so far has what the tables hold (`Unwritten`); the
action property follows, since a file reports what was read.

### File and preview (`OfficeProofs`, `Sums`)

* `SheetsFollowReport`: `SheetSpec => ReportSpec`, by which all theorems about the report
  are theorems about its previews and downloads
* `FilesReconcile`: `SheetSpec => []FileReconciles`
* `PreviewsAreCurrent`: `SheetSpec => [](Current(cache) /\ Current(shown))`
* `FileIsPreview`: `SheetSpec => FiledAsShown`

for the same constants. A section is one item, or for political activities one per himoku;
`SectionsAre` gives its rows, total and remainder as sums, `WrittenIs` the sheets that are
written of it, which leave out only sections that are empty when no amount is negative
(`LeftOut`), so that nothing is lost on the way (`WrittenAddsUp`). Sheet 13 adds its items
by groups of categories and sheet 02 by all of them, which are sums over classes again
(`LeavesAddUp`, `ItemsAre`). `PreviewsAreCurrent` is what relates two exports: `SheetInv`
says that a section that was read, or is part of a preview, holds what the tables hold
unless an edit was made since the export began, counted by `edits`. A file and a preview
with no edit between them were therefore read from the same tables, and `PanelIs` and
`WrittenAgrees` compare what the components show with what the serializer writes.

### The report profile (`OfficeProofs`)

* `NobodyIsDropped`: `ProfileSpec => []NobodyDropped`
* `KeptAnswersAreCurrent`: `ProfileSpec => []KeptIsCurrent`
* `UpdatesFindTheirRow`: `ProfileSpec =>` always, a save that carries an id finds its row,
  and what a save carries fits sheet 01

for any years, texts, browsers and bounds (`ProfileAssumption`: the rows there are at first
are profiles that fit). The server accepts lists of any length, so `ProfileInv` follows
contents wherever they go: what is in the table, in the cache, in a query's answer, in a form
or in a call came from a form or from the table, and every handler of the form keeps to
what fits (`ListEditsFit`, `EditsFit`). `RendersMarked` is the other half: what a query in
flight has found is the row, unless a save of its year was stored since. It makes
`KeptIsCurrent` inductive: an answer is kept as it was found and with its mark, and a save
that changes a row without a query in flight is itself there to void what is kept.

### The dashboard (`BooksProofs`, `Sums`)

* `DashboardSums`: `DashboardSpec => []DashboardAdds`

for any finite tables of integer amounts, any list limit and any additions
(`DashboardAssumption`). Cards, bars, flows and balance are sums over the same rows taken
apart in different ways: by category (`CategoriesAddUp`), by month (`SheetIsMonths`), by
account and side (`NetByKey`, `SidesDiffer`); `ClassesAddUp` is the lemma behind all of
them. `FlowsBalance` is where "no negative category" is needed. `DashboardInv` says that
the page has typed rows and, of tables nobody has changed, a part of them (`OfTables`); that
the part is all of them when the list is not full is counted (`ListedHasNow`).

`Sums` is what these rest on. The library defines the sum of a function by recursion
over its domain, and its theorem of induction over finite sets takes an operator for a
parameter, which no installed prover can instantiate. The induction is had without it
(`SetInduction`): the subsets of which a claim fails form a set; strict inclusion is
well-founded on finite sets, so there is a smallest one if there is one at all (`Smallest`);
and it contradicts the claim for that set without a member. From it follow that a sum is
taken apart along any classes (`SumParts`, `SumImage`), is linear (`SumBoth`) and is
monotone (`SumLess`).

### What the proofs rest on, and what is only model-checked

Assumed and not proved: that encryption authenticates its key and derivation is injective
(`Crypto`), that drawn values do not collide, that each SQL statement is atomic, and the
`ASSUME`s of the modules, which TLC evaluates on every instance. The inductive invariants
were checked by TLC on the instances of section 3 before they were proved (of `DeskInv` all
but the types of unbounded queues); `vault_two_users` keeps doing that for the largest,
`IInv`. Every safety property of a passing run but `ReadAsMeant` is a theorem.

Only model-checked:

* liveness (`ImportEnds`, `SaveEnds`, `EventuallyCurrent`), which is outside of the prover's
  reach, as is `ENABLED`;
* `ReadAsMeant`, which speaks of the layouts and lines of the instance, read by recursion
  over the lines.

## 5. Where code and documents disagree

Five runs expect a violation; `PROJECT.json` (`findings`) quotes both sides. Seen on the
way and not made into a run:

* `create_transaction` says "Check for duplicates" (`transaction_service.rs:125`) and the
  import "Skip duplicates" (`csv_service.rs:59`): the check and the INSERT are two
  statements and the index on the hash is not UNIQUE, so two requests at once store two
  copies. `DuplicatesBounded` says how many there may be.
* The duplicate hash leaves out the account and the type, so two genuine transactions of one
  day, amount and description are taken for one (`csv_service.rs:102`).
* `enable_totp` writes the flag after it has verified a secret (`auth_service.rs:261`); a
  disable in between leaves TOTP on without a secret, the state `auth_service.rs:102` calls
  an internal error. `LoginLostOnlyToStaleEnable` says that nothing else leads there.
* A profile whose save was stored while its answer was lost keeps the form without an id:
  pressing the button again is refused by the UNIQUE key until the page is opened anew
  (`save-organization-profile-usecase.ts:45`).
* `setup_totp` says "Store the secret (not yet enabled)" (`auth_service.rs:235`) and never
  looks at `totp_enabled`: it replaces the secret of a user who has TOTP on.
* `create_initial_user` drops the recovery key of the initial user
  (`auth_service.rs:371`), so the README's recovery does not apply to that user.
* A line with known accounts that make no type is previewed as "insert"; the design
  (`docs/old/20250901_1002_*.md`) makes it invalid. The save filters it out.
* The design calls a line "insert" when its number is not in the database
  (`docs/old/20250901_1002_*.md:160`). Blank numbers are not looked up
  (`preview-mf-csv-usecase.ts:48`), so a stored line without 取引No is "insert" in every later
  preview, and the save of a file with such a line is refused as a whole by the UNIQUE key.
  `ReimportHasNothingLeft` says that nothing else is refused or left over.
* "skip" means equal hashes; the category and label of a line are not in the hash, so a
  file that corrects only those changes nothing.
* `webapp/src/app/api/refresh/route.ts` revalidates two tags no loader declares, and
  delete-all does not call it.
* A session of a passkey login, which holds no DEK, survives a restart under a new
  ephemeral session key; `main.rs:60` says active sessions will be invalidated.
* `cli import` posts to `/api/transactions/import`, which the api does not route, and
  without a session.
* The frontend's CSV upload posts `multipart/form-data` to `/api/csv/preview` and
  `/api/csv/import`, which take JSON, and expects an array where the api answers
  `{records, count}`.
* The dashboard and the page of transactions ask for 5000 transactions, the api gives 1000
  at most; with more, cards and balances are those of the last 1000, and an older transaction
  that is added is stored and not shown.
* The accounts page shows a balance the api always leaves at 0.
* An edit form of a budget that is opened before the list is loaded again undoes the
  user's own last edit of the other field.
* The cli reads four-column files of Rakuten Bank and its own layout of SMBC as no records
  at all, and the seven-column layout of Rakuten Card not at all; the api reads the SMBC
  header the cli documents as no records.
* On the donor page, a change of organization, year, order or page while no category is
  chosen puts `category=__all__` into the address (`DonorAssignmentClient.tsx:122`), and
  the list is empty; the counterpart page
  normalises the value.
* A dialog of the assignment pages that is closed while its call is pending still clears
  a newer selection, and closes a newer dialog, when the call succeeds.
* Creating and assigning a donor or counterpart are two server actions: when the second
  fails the new party stays without a link, and asking again meets the UNIQUE key.
* A switch whose call throws keeps showing what was asked for as long as the page is open.
* A CSV of the public site whose slug has vanished is answered from the cache as long as
  it is asked for; a site without organizations redirects to `/o/null`; the top page's
  financial year is a constant (2025), and current assets are taken from snapshots of any
  year.
* `backup.sh` announces AES-256-GCM and runs `aes-256-cbc`.

## 6. What is not modelled, and the plan

Left out for good: cryptographic strength, text decoding, layout, the drawing of charts,
queries without effect, category tables, deployment scripts, seeds, the backup scripts (two
linear shell scripts), Supabase's own state, and the CSV upload of the frontend, which
cannot succeed (section 5). Left out of the modelled parts: display names and labels,
WebAuthn challenges, passkey counters, pagination and search, the remarks and numbering of
the report, the XML text; the preview effect of the donor file, which is not cancelled; the
suggestions and the address search of the counterpart form; the pages of login, settings,
backup and administration, whose operations `KeyVault` and `Credentials` have on the side
of the api.

Planned, in this order:

1. Two transactions and a selection on the assignment pages.
2. The pages of settings and administration, and the pages that maintain donors and
   counterparts.
