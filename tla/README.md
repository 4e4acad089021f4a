# External IDP user API: a TLA+ verification project

The service in `src/` stores users with claims, lets administrators manage them
over HTTP, and trades a password or a signed Ethereum message for a signed token
(JWT). This directory models its core in TLA+, checks it with TLC and proves
properties of it with TLAPS. All paths below are relative to the repository.

## The system

| Part | Source | State it keeps | Operations |
| --- | --- | --- | --- |
| User store | `src/services/user.service.ts`, `prisma/schema.prisma` | the tables `users`, `user_claims`, `user_tokens` | find, create, createByProvider, updateById, deleteById, createToken, lockUser, unlockUser, setAccessFailedCount |
| Users API | `src/controllers/users.controller.ts`, `src/schemas/user.schema.ts` | none | GET, POST, PATCH, DELETE of a user |
| Password login | `src/services/login-providers/password-login.service.ts` | one snapshot per request | login |
| Ethereum login | `src/services/login-providers/ethereum-login.service.ts`, `src/config/cache.config.ts` | nonces in Redis, one snapshot per request | init, login |
| Token signing | `src/services/token-signing.service.ts` | the key pair, read once | sign, verify |
| Request guards | `src/framework/*.guard.ts`, `src/services/user-context.service.ts` | the request's user | authenticate, check claims |
| User CLI | `cli/app-action-commands.ts` | none | user add, user delete |
| CLI setup | `cli/setup-command.ts`, `cli/templates/`, `compose.yml`, `config/init-db.sh` | environment files, key files, the PostgreSQL volume and schema | setup |
| Process | `src/main.ts`, `src/app.module.ts` | none | start, end |

How they interact. Controllers call the login services and `UserService`; every
statement goes to one PostgreSQL server, the nonces to one Redis server, and any
number of requests share both. A request gives up the processor at every
`await`, so requests interleave there, with each other, with administrators and
with the CLI. Nothing locks a row across two statements.

What is hard. Each login reads the account and its claims in two SELECTs that share
no snapshot (`findUnique` with `include`, `user.service.ts:36-38`), and then decides
and writes over several awaits. The write of the failed-attempt count is not awaited at all. The
Ethereum login deletes its nonce and inserts its token at the same time, and
either may fail alone. A token carries what its account was when a login read it,
and is believed until it expires. The CLI looks up by name and deletes by id. The
process, and the setup command, may end between any two steps. Every such place
is a hazard in `PROJECT.json`, at its line.

What makes each part correct. *Store*: no token or claim without its account, and
three tables that behave like one record per user. *Users API*:
a PATCH changes what it carries. *Password login*: an answer rests on one account as
its row was at one moment, with claims no older than that; what is granted is on
record; the lockout comes after `FailedCountMax` failures, not earlier and not later;
an administrator's lock holds. *Ethereum login*: a granted login has used its nonce up
and is on record; a lock is respected. *Guards*: claims of a token bound what a request
may do, and for how long; who signs for a change has been an administrator. *CLI*: it
deletes the account it looked up. *Setup*: the keys it leaves belong together, and when
it says it is done the service it leaves behind starts. Not all of this holds of the
code: the runs that end in a violation, below, say what does not.

## The modules

| Module | Models | Builds on |
| --- | --- | --- |
| `UserStore` | tables, constraints, one operator per statement of `UserService` | |
| `UsersApi` | POST, PATCH, DELETE with what the Zod schemas make of a body | `UserStore` |
| `PasswordLogin` | `PasswordLoginService.login`, the process, the clock | `UsersApi` as environment |
| `PasswordLoginHistory` | history variables, the refinement mapping, the lockout properties | `PasswordLogin`, `LoginContract` |
| `LoginContract` | abstract: what a login promises its client | |
| `EthereumLogin` | `EthereumLoginService`, the nonce cache | `UsersApi` as environment |
| `EthereumLoginHistory` | history variables and the refinement mapping | `EthereumLogin`, `EthereumContract` |
| `EthereumContract` | abstract: what a login with a signed message promises its client | |
| `RelationalStore` | the three tables with keys, foreign keys and audit columns; refines the records of `UserStore` | `UsersApi` as `Records` |
| `RequestGuards` | token signing and verification, both guards, the handlers behind them | `RelationalStore` |
| `UserCli` | `user add`, `user delete` | `RelationalStore` |
| `IdpService` | the service put together on one set of tables, logins abridged | `RequestGuards`, `UserCli` |
| `Setup` | the `setup` command, its files and the database container | |
| `UsersApi_proofs`, `PasswordLogin_proofs`, `PasswordLoginHistory_proofs`, `EthereumLogin_proofs`, `EthereumLoginHistory_proofs`, `RelationalStore_proofs`, `IdpService_proofs`, `Setup_proofs` | theorems and their lemmas | the module they name |
| `MC*` | constants for TLC | |

**UserStore.** A row of `users` and its claims are one record. A password stands
for its salt and hash (`compareHash` is equality). `accessFailedCount` and
`isLockedUntil` are numbers with 0 for null: the code never stores a count of 0,
treats 0 and null alike, and no lock ends at time 0. A Prisma call with nested
writes is one transaction, so each writing operator is one atomic change; a broken
constraint (P2002, P2025) is a false guard. A read with `include` is no transaction:
`findByUsername` is the SELECT on `users`, `claimsOf` the one on `user_claims`, and
whoever uses both takes a step for each. A deleted account has `NoClaims`. Deleted ids are never used again
(`gone`), as a serial column guarantees.

**UsersApi.** `Undefined` marks a field the body leaves out.
`userCreateDtoSchema` fills in the defaults, `userUpdateDtoSchema` does the same
when a default inside `.partial()` applies, which it does in the locked Zod
version (4.x, `package.json:70`); `PartialAppliesDefaults` is that library fact
as a constant. Rejected requests change nothing and need no action.

**PasswordLogin.** `pc[r]` names the await request `r` is at, `user[r]` the
snapshot it decides on.

| Action | Code in `password-login.service.ts` |
| --- | --- |
| `FindUser` | 27-31, the row; no such user is refused |
| `FindClaims` | the claims of the row just read (`user.service.ts:36-38`) |
| `CheckAccount` | 33-51 without the await: no password, locked, lock expired |
| `UnlockUser` | 40, the unlock reaching the row as it is by then |
| `ComparePassword` | 53-64 |
| `CreateToken` | 65, the recording of the token; its answer may be lost |
| `handleFailedAttempt` | 70-76, part of the two actions that refuse |
| `SettleWrite`, `RejectWrite` | the statement of line 71, carried out or rejected after the answer |
| `QueryFails` | any awaited statement of `login` rejecting: 500 |
| `Exit`, `Kill`, `Restart` | the process; a rejection nobody handles ends it (`main.ts` installs no handler) |

Line 71 discards the promise of a Prisma statement. Prisma's promises are lazy:
the statement is sent when somebody awaits it. `EagerQueries = FALSE` is that
client, the one this repository uses. `EagerQueries = TRUE` is the same code over
a client that sends on call, which is what the code appears to expect and what
any repair of line 71 brings about; the hazards of the count live there.

**LoginContract.** A session is opened with a name and a password; while it is
open it gathers *views* of the account of that name: the account as it was at one moment,
with its claims of that moment or a later one, even when it has been renamed or deleted
since. It is granted the token of a view that entitles to it, refused because of
one that does not, or fails. Accounts are known by id, which is what ties the claims
to the row. More cannot be promised: with a PATCH of password and claims between the two
SELECTs the old password earns the new claims. What the contract excludes is a decision
on two rows, on another account's claims, on claims older than the row, or on a row the
account never had while the request was served.
`PasswordLoginHistory` records `seen` beside the code's own state and maps the
rest (`Contract == INSTANCE LoginContract WITH ...`).

**EthereumLogin.** One action per await of `init` and `login` (the lookup is `FindUser`
and `FindClaims`, as above); `jobs` are the two
calls `Promise.all` has under way, answered with the first failure or the last
success while the other goes on. `Restart` is the end of one process and the
start of the next. The signature check and the transaction count are inputs
(`genuine`, `Established`); the cache client either reports failed writes or, with
`SilentCache`, passes them off as done.

**EthereumContract.** A nonce is unissued, live or dead, and never goes back. A
session is opened with a message; while it is open it sees states of its nonce and
gathers views of the account of its address, claims of that moment or later as in
`LoginContract`. It is granted the token of one of those views if
it saw the nonce live, and then the nonce is dead; it is refused for a nonce that
was not live, a forged message, an address that has no account and either is not
established or was given an account by somebody else; or it fails.
`EthereumLoginHistory` records what is seen (`nonces`, `accounts`) and maps the rest;
`NoncesDie <- ~SilentCache`, because a cache that hides a failed delete leaves the nonce
alive. The account's lock appears nowhere in the contract, as it appears nowhere in
the code: that is the finding of `ethereum_locked`.

**RelationalStore.** `users`, `user_claims` and `user_tokens` as the two migrations
leave them: a claim is a row with a foreign key, an update of claims is the
`upsert` and `deleteMany` the code nests, a delete cascades, ids come from a
sequence (`serial`), and `createdBy` and `updatedBy` hold the name the caller gives.
`Records == INSTANCE UsersApi WITH row <- ..., gone <- ..., tokens <- ...` is the
view the login modules work on; `TablesImplementRecords` (`Records!StoreSpec`)
and `HandlersImplementApi` say that the view is right.

**RequestGuards.** A token is what `sign` makes of an account; `iss`, `aud` and the
algorithm are the same for all and left out. `now < exp` is `jwtVerify`'s check.

| Action | Code |
| --- | --- |
| `AuthenticationGuard` | `authentication.guard.ts` past the anonymous routes: `verify`, then the request's user in `res.locals` and `UserContextService` |
| `ClaimsGuard` | `claims.guard.ts`: the claims required of `UsersController` |
| `Handler` | a handler of `users.controller.ts` with the schema's defaults, up to its statement, signed with `context[r].sub` |
| `Refuse` | any 4xx, 500, or the end of the process |

A request's route and body take part in nothing before the handler, so the call
is chosen there, which spares the states that differ only in a body not yet read.

**UserCli.** Each command is a process of its own. `found[c]` is what `user delete`
holds between its two statements, its `createdAt` included, which the code
does not look at and the property does.

**IdpService.** All of it on the same tables, with a clock. A login is what the
login modules show of it: it reads an account (`ReadAccount`) and then the claims of that
id (`ReadClaims`), later signs and records a token for what it read (`GrantToken`), or
fails; the first login of an address inserts one. `adminUntil[id]` and `namedUntil[id][u]`
are history: one past the last time account `id` was an administrator, and was called
`u`. They are kept apart because a token's name and claims are: when an account is renamed
and made an administrator between the two SELECTs, a token says its old name is an
administrator's. `AuthorityRecent` bounds how long ago either was true of that account.
Locks and counts are written by `PasswordLogin` only, and no action here reads them.

**Setup.** Three files rendered in any order with one password, the container, the
two key files, the migration. The container initialises an empty volume with the
environment it was created with, goes on by itself, and takes a volume that is
not empty as it is; `"part"` is a volume or key file whose writer was cut short, or an empty
public key file, which `openssl` leaves when it cannot read the signing key.
`FilesWithHost` is which templates name a host in `DATABASE_URL`: only
`api-docker.env` does. The migration is given the `DATABASE_URL` of the environment the
command was called in (`prisma.config.ts:9`), not that of the `.env` it has just written,
so it succeeds or fails whatever was rendered (`Migrate`, `Stop`).

## The runs

`CHECK_DEADLOCK FALSE` except for `Setup`: a request is used once, or the clock
and the tokens are at their bound, so a run ends when all are answered and nobody
administers. The setup command can always be run again, and there TLC checks it.

| Run | Bounds | Shows |
| --- | --- | --- |
| `password_eager` | 3 requests, 1 account, limit 1, lock of 1 tick, 3 times, lock and unlock | types; tokens owned; grants recorded; timed locks earned; `LoginContract` is implemented with counts, timed locks and unlocks in effect |
| `password_lazy` | 1 request, 2 ids, 2 names, 2 times, rename, new password and claims, lock, fairness | an administrator's lock holds; `LoginContract` is implemented whatever becomes of the account, between the two SELECTs as well; every login is answered |
| `ethereum_login` | 2 requests, 2 nonces, 1 address, 2 ids, 2 names, 2 times, rename | types; nonce used up; grants recorded; `EthereumContract` is implemented |
| `ethereum_answered` | 2 requests, 1 nonce, fairness | every login is answered |
| `idp_service` | 1 request, 1 login, 1 delete command, 2 ids, 2 names, 2 tokens, 2 times, tokens of 1 tick | the tables implement the records and the handlers the API; keys; how old authority can be; who signs; whom the CLI deletes |
| `setup` | 2 passwords, 2 keys, any number of runs | the public key is that of the signing key |

`password_eager` checks the code over a client that sends line 71 on
call. With the client in use its properties hold of less: no count is ever written, so
no lock has an end. `TokensOwned`, `GrantRecorded` and `LoginPromise` do not depend on which
client it is, and are proved for both; `LockoutEarned` is true of the client in use because
nothing is ever counted, and says something about the client the code expects.

A limit of 1 and a lock of 1 tick keep the lockout within reach of two failures
and the unlock within reach of a third request; `FailedCountMax` is 10 and
`LockoutTimeoutMs` an hour in the code, and nothing in the code depends on the
values but the comparison, which the theorems treat for every limit. Two requests
suffice for every race of two; the third is there for a request that meets what
two others left behind. One request suffices in `password_lazy`, where
what races the request is administrators: logins write nothing there but tokens, which no
login reads. Administrators are not bounded. Requests are symmetric
and no property names one, the contract's step included; the runs of liveness and
those with one request use no symmetry.

In `idp_service` one request, one login and one command already interleave with
each other, with `user add` and with first logins; what a second of a kind adds is
a race of two of the same statement, each atomic and each already raced by another
of its effect, and the theorems leave the number open. Two ids let a delete be
followed by a new account under the old name; the patches make an administrator
whose claims name somebody else as `sub`, and rename an account onto a name that
was free. A token of one tick with a clock of two times lets a token expire and a
request outlive its token.

In `ethereum_login` two times let a nonce live and expire, and two tokens of one account
collide in one tick or differ; the one PATCH renames the account off its address and takes
its claims away, so that the address is free for a second account while a login holds
the first; locks are read by no step of it.

`setup` has no bound: passwords and keys are compared for equality only, and two of each
let a run differ from the one before.

Six runs end in a violation on purpose (findings in `PROJECT.json`):

* `lockout_lazy`: the count of failed attempts is never written, so no number of
  failures locks an account (`password-login.service.ts:71`). `LockoutEngages` speaks of
  requests that come one at a time (`serial`, true while every request so far was submitted
  with no other under way and no write pending).
* `patch_defaults`: a PATCH without `isLocked` unlocks a locked account
  (`user.schema.ts:12`); theorem `OmittedFields` shows the same of the claims.
* `ethereum_method`: Ethereum logins are recorded as `"password"`
  (`ethereum-login.service.ts:65`).
* `ethereum_locked`: Ethereum logins ignore the lock
  (`ethereum-login.service.ts:58`).
* `setup_env`: the `.env` that `setup` renders has no host in its `DATABASE_URL` and
  does not open the database made with the same password (`cli/templates/.env.ejs:21`).
* `setup_done`: a signing key cut short in one run is taken for written in the next. That run
  fails at the public key, but leaves an empty file for it, and the third says it is
  done (`setup-command.ts:45`).

`AdminLockHolds` is checked and proved with the lazy client, the one in use. With
`EagerQueries = TRUE` it would not hold: failures on a locked account would give its lock an
end (`lockUser` is called without `isIndefinite`).

## Fairness

`WF(Serve(r))` for every request `r`, in `HFairSpec` and `EthereumFairSpec`: a request whose await has come back is continued by Node's
event loop, and every call to PostgreSQL, Redis or the chain is answered or
rejected by its client (`QueryFails`, `TokenFails`). Nothing is assumed of
clients, administrators, the clock, or of anyone restarting the process; a
request in a process that ends counts as dropped. `IdpService` and `Setup` have no
fairness: nobody has to send a request, and the database container may take
longer than the three seconds `setup` gives it, for ever.

## The proofs

`PasswordLogin_proofs`, for every value of the constants that satisfies the named
assumptions (`StoreAssumption`, `ApiAssumption`, `LoginAssumption`: sentinels are
no data, the limit is a natural number, the lock lasts):

* `ClaimsReplaced` (`UsersApi_proofs`): the upsert and the delete of a PATCH leave
  exactly the claims given, whatever claims the account had.
* `OmittedFields` (`UsersApi_proofs`): what a PATCH does to the fields its body leaves out.
  With the locked Zod version it unlocks and clears the claims, the finding of
  `patch_defaults`.
* `LoginImplementsStore`, and `EthereumImplementsStore` for the other login. Every step,
  an administrator's included, inserts, updates or deletes a typed row, records the token
  of a live account, or leaves the tables alone (`StepStore`). What the store's
  own steps keep, names unique and tokens owned, is proved once of them
  (`StoreStepNames`, `StoreStepTokens`) and holds for both logins.
* `TypesHold`. Inductive invariant `TypeInv`: `TypeOK` and that a request past its
  first read holds a snapshot, without which later steps have nothing to decide
  on.
* `TokensBelong` (from `StepStore`), `GrantsRecorded` (from `TypeInv` and the classification
  of what a step does to the tables, `StepWrites`).
* `LockoutNeverEngages`, `LazyAdminLockHolds`: with the lazy client. Inductive
  invariant `NoLockout`: no write is under way, no row and no snapshot has a count
  or a lock with an end, and no request is at the unlock.

`EthereumLogin_proofs`, likewise from `EthereumAssumption` (an address can be a
username, the nonce lives, the claim the provider writes is a claim):

* `TokensBelong`, from `StepStore` as above.
* `TypesHold`. `TypeInv` adds to the types that whoever has a call under way, even
  an answered or dropped request, still has the message and account it acts on.
* `GrantsRecorded` (`RecordInv`) and `NoncesRetired` (`RetiredInv`). Neither
  property is inductive: the step that grants is the end of the *other* call. Both
  invariants speak of a call that is `Done`, granted or not, and `DoneSteps` shows
  that it gets done by its own success only, never by a failure or a restart.
  `RetiredInv` also needs that the id was issued (`IssuedInv`, from the signature
  check), since `init` writes only under fresh ids.
* `LoginKeepsPromise` (`EthereumLoginHistory_proofs`, `HSpec => EthereumPromise`): step simulation.
  Each step is an opening, a grant, a refusal or a step of the contract's world; an end of
  the process fails every open session. `PromiseInv` carries over the awaits what an
  answer needs: past the lookup the nonce was seen live, at the insert the address was
  seen without an account, and between the two SELECTs the row read is the row of a
  view that is *up to date* (`UpToDate`), which each step keeps so: the view with the claims
  of this very moment is among those gathered. The second SELECT then makes the
  snapshot that view. `RetiredInv` gives that the grant leaves the nonce dead, and
  `NoncesAge` that a nonce never comes back, the cache being written under fresh ids and
  the clock not going back.

`PasswordLoginHistory_proofs`, also from `HistoryAssumption` (no account is no
account's state; the history of the Ethereum login assumes the same):

* `LocksEarned`. Inductive invariant `EarnedInv`: every count, in rows, in writes under
  way and in snapshots, is *paid*, no more than the failed attempts on that
  account, and an end of a lock comes with more than the limit of them. It needs that
  at most one attempt fails in a step (`FailsAlone`), so that counts never outrun
  attempts however many requests share a snapshot.
* `LoginKeepsPromise` (`HSpec => LoginPromise`): step simulation. Each step of
  `PasswordLogin` is an opening, a look, an answer or nothing of `LoginContract`.
  `PromiseInv` carries what an answer needs: between the two SELECTs the row read is that
  of a view that is up to date, as above; after them the snapshot is a view; past
  the lock check the snapshot's lock is open or expired, and at the recording its
  password is the one given.

`RelationalStore_proofs` and `IdpService_proofs`, from `TablesAssumption`,
`GuardAssumption`, `CliAssumption`, `ServiceAssumption`:

* `ServiceTypeCorrect`, `ServiceKeysHold`. Every step leaves the tables alone or is one
  `TableStep` (insert, update, delete, token), and each keeps the keys; `TypeInv` holds
  both, since a claim set is a function only while the keys hold.
* `ServiceImplementsRecords`, `ServiceHandlersImplementApi`. The step simulation
  of the tables: an insert is the records' insert, `upsert` and then `deleteMany` are the
  records' update, a cascade is the records' delete; on every user but the one
  named, the view is unchanged.
* `ServiceAuthorityRecent`, `ServiceAuditNamesAdmin`. Inductive invariant `AuthorityInv`: what
  is in a login's hands or in a token is `Backed` by one account that was called so, and, if
  the claims are an administrator's, was one, each at some time since the login
  began; a token ends a lifetime after it was issued, and an authorized request
  holds an administrator's token. A login backs its name when it reads the row and its
  claims when it reads those, of the same id, and history only grows (`BackingLasts`,
  `WatchGrows`). The audit property is a conjunct, since a row is signed with a context's
  subject (`SignedBy`).
* `ServiceDeletesUserFound`. `FoundInv`: the id a command holds has been given out, and a
  row with that id is still the row it found, because ids do not come back.

`Setup_proofs`, from `SetupAssumption`: `SetupTypeCorrect`, and `SetupKeysMatch` by `KeyInv`, which
adds that no public key is there without a signing key, which is never made again.

Only model-checked: liveness and everything under fairness (`EveryLoginAnswered` of
both logins), which is out of the prover's reach. `AdminLockHolds` is proved for the lazy
client, the one in use, as is that the lockout never engages; the other properties of the
passing runs are proved for either client.
The conversions at the edges (JWT
encoding, Zod parsing, the hash) are modelled by their effect and proved nowhere.

## Plan

1. Done: `UserStore`, `UsersApi`, `PasswordLogin`, `PasswordLoginHistory` over
   `LoginContract`, `EthereumLogin`.
2. Done: `RelationalStore`, `RequestGuards`, `UserCli`, composed in `IdpService`; `Setup`.
3. Done: `EthereumLoginHistory` over `EthereumContract`; proofs of every safety property
   the passing runs check, of both contracts and of both logins as clients of the store,
   with the two SELECTs of a lookup apart.
4. Left: the properties of both logins in full detail on the tables of `IdpService`, whose
   abridged logins should be shown to be what the detailed ones implement.

## Not modelled

* Response shaping (`users-transform.interceptor.ts`): a projection of a row.
* Logging and the health endpoint: output, and a constant.
* Configuration parsing: read once at the start; its values are constants here.
  The cache container and the password of the database user `postgres` are left
  out of `Setup`.
* `GoogleLoginService` is an empty class.
* The generated database client, `src/generated/prisma`, four fifths of the lines
  under `src/`: type declarations, re-exports and an embedded schema. They hold no
  control flow to translate; what the service relies on (a write is one
  transaction, promises are lazy, undefined fields are left out of an update) is
  modelled at the calls in `user.service.ts` and `password-login.service.ts`. The map
  therefore leaves those files alone.
* `updatedAt`, which is written and never read.
* `appAction` (`cli/app-action-commands.ts:20`) skips `app.close()` when a command
  throws. That leaves a connection open until the process ends and changes no data.

`README.md:29` of the repository calls the setup command `dev`; the CLI registers
it as `setup`.
