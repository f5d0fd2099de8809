# Verification models of dropengine-api

TLA+ models of the NestJS service under `src/src`, model-checked with TLC, with
proofs checked by TLAPS. `PROJECT.json` lists every run, mutant, mapped source
line, hazard and theorem.

## 1. Inventory

The service is one Node process per instance (several may run), with three
stores: MongoDB (orders), Postgres through MikroORM (accounts, stores, catalog)
and Auth0 (users, and in their `app_metadata` a copy of the accounts in Postgres). Every request is
an async function: it runs alone from one `await` to the next, and interleaves
with the others at each call to a store or a remote API. There is no
transaction around a handler and no lock.

| Component | State it keeps | Operations | What is hard | What makes it correct |
|---|---|---|---|---|
| Sales orders (`sales/`) | Mongo `orders`, unique `orderName` | place, import from MyEasySuite, edit customer / address / personalization, get, delete | lookup and insert are two awaits; edits load and save without a version; lost acknowledgements and retries | one stored order per name; a placement is idempotent; what an edit may store; a request by id gets that order |
| Order queries (`sales/graphql/`, `MongoOrdersRepository.query`) | none | list by GraphQL and HTTP, page by page | count and find are two awaits; a collection that changes under a walk; one document that cannot be built again | a walk misses only what a deletion moved; answers agree with their counts as far as nobody writes in between |
| Line item rules (`sales/domain/model/SalesLineItem.ts`) | none | `validate` | optional property with options, bad patterns | flags raised iff a rule is broken; when it throws |
| MyEasySuite (`myeasysuite/`) | none | order webhook, sync of names, event emission | the caller is answered before the order is placed; webhook delivered again or under another name; the process ends in between | one copy of each order; no name of a sync passed over; every announcement settles |
| Catalog (`catalog/`) | Postgres products, variants, product types | read-through lookup by SKU with a sync from MyEasySuite, save and delete of types, products and variants, CSV imports, option names | check-then-create races against unique columns, two copies of a type's name, SKU truncation, a save or an import that fails half way, options matched by name and by value | a product's two references to its type agree; a lookup answers with the SKU's own details; what failed can be completed; values go where they are offered |
| Identity and accounts (`identity/`) | Postgres accounts and stores; the copy in Auth0 | create/delete account, add/remove member, add/remove store, remove all of a user | two stores written one after the other, no unique company code, last write wins on metadata; an aggregate and its entity that part | the copy in Auth0 follows; an account goes with all its stores or stays with them |
| Auth0 client (`auth0/`) | an access token kept from start-up; users in Auth0 | list users page by page, create, read, delete, patch metadata | errors become empty objects, token never renewed, users come and go between pages | a listing misses nobody and ends; creating again names one user |
| MyEasyMonogram (`myeasymonogram/`) | one shared connection field over a pool of 10 | query designs, query available, get design | concurrent calls overwrite the shared connection | the pool never runs dry for good |
| Shopify (`shopify/`) | an aggregate in memory; every method of its repository throws | connect, link, accept, receive a token, store and load | calls in an order nobody wrote, calls that throw half way | the events are a history of the installation; nothing survives reconnecting |
| Order authorisation (`AuthenticatedUser`) | none: claims of a token | `canManageOrders` | the claims are as old as the token | not modelled, see 7 |
| Shared (`shared/`), query parsing (`aqp`, which nothing calls) | none | base events, Result | - | not modelled: values and wrappers |
| Preview, health, module wiring, configuration | none | upload to Azure, health check, bootstrap | - | not modelled: pure I/O |

Interactions: `MyEasySuiteController` receives a webhook or a list of names, fetches each order
over HTTP and emits `MyEasySuiteOrder.Placed` with `emitAsync`;
`HandleMyEasySuiteOrderPlaced` (sales) finds or creates the seller's account
(identity, which writes Postgres and then Auth0) and calls `PlaceOrder`, which
looks every line item up in the catalog (which reads through to MyEasySuite)
and saves to Mongo. `AuthenticatedUser.canManageOrders` decides from the
accounts in the JWT, a copy of the copy in Auth0.

## 2. Plan

In order of importance to the program; each step is a module with its properties, run, mutants and,
where marked, proofs. All of it is done.

1. `SalesOrders` with the abstract `OrderRegistry` it implements (proved).
2. `LineItemRules`, the validation every order goes through (proved).
3. `Accounts`: accounts in Postgres, memberships in Auth0 (proved).
4. `MonogramPool`: the one piece of shared mutable state in memory (proved).
5. `Catalog`: the read-through cache of variants and the tables behind it (proved).
6. `Stores` with the abstract `AccountStores` it implements (proved).
7. `UserDirectory`: listing and creating users under a token that is never renewed (proved).
8. `OrderPages`: a walk through the pages of `OrderRegistry`, so of what `SalesOrders` implements (proved).
9. `CatalogOptions`: options matched by name and value, CSV imports row by row (proved).
10. `ShopifyInstall`: the aggregate that no request can store yet (proved).
11. `OrderImport`, the composition: announcement, event and the requests of `SalesOrders`, with redelivery and restarts (proved).

"Proved" means that every safety and action property the run checks is a theorem. What is left to
the runs alone is liveness.

The models are written to be proved about: no operator is declared RECURSIVE, parameters are constants with
named assumptions, every handler is a chain of actions, one per stretch from one `await` to the next,
and invariants are conjunctions of named parts, one per thing a handler relies on.

## 3. Modules

Each component has a module with its state and actions, a `...Props` module (within the module
itself where it is short) with its properties and its inductive invariant, an `MC...` module that
instantiates it for TLC, and a `...Proofs` module. Three components keep their proofs together:
`ListingsProofs` has those of `UserDirectory` and `OrderPages`, `InMemoryProofs` those of `ShopifyInstall`,
`LineItemRules` and `MonogramPool`; the definitions that would clash carry a prefix (`WalkNext`, `PoolNext`,
`ValidateNext`). Definitions that begin with "Mutant" in their
comment are plausible mistakes; `PROJECT.json` names the property that catches each.

**`SalesOrders`, `SalesOrdersProps`, `OrderRegistry`** (`sales/`). A request is a process; `pc[r]` is
the await it stands at. `orders` is the Mongo collection, `born` a history of what was first stored
under an id, `draft[r]` the aggregate in memory. `Receive` is the controller or the event handler;
`CheckName`, `FindAccount` and `Validate` lead an import or a placement to `LookupVariant` (one step
per line item) and `Build` (`order.placed()`, which validates); `LoadOrder` is `repo.load` followed
by the synchronous edit; `FindByName` and `CreateOrder` are the two awaits of
`MongoOrdersRepository.create`, to which `save()` amounts; `CreateUnacknowledged` inserts and loses
the answer; `CallFails` is any rejected call. Contents are abstracted to who wrote them, and a line
item to what `validate()` makes of it (`Fits`). The unique index on `orderName` is `NameTaken`.
`OrderRegistry` is what an observer of the collection sees: write-once documents under unique names.

**`OrderPages`, `OrderPagesProps`** (`sales/graphql/`, `OrdersController.get`, `MongoOrdersRepository.query`). The
collection is an instance of `OrderRegistry`, whose insertions and removals may come at any time;
`CountOrders` and `FindOrders` are the two awaits of one query, `Window` the skip and limit of each
way in, `Found` the answer with its rounded-down `pages`. A page is built of whole aggregates: one
that cannot be built fails it (`Throws`). The client asks for page after page until one is
not full. HTTP gives its page as the number of rows to skip and has no filter. `placed` and `removed` remember whether
an order asked for was placed or deleted since the count, so that `CountsMatchRows` can say what a write between the
two awaits may do to an answer; `Expected` is what an answer lets its reader expect on the page, by either way in.

**`OrderImport`, `OrderImportProps`** (`myeasysuite/`, composed with `SalesOrders`). `Accept` is either endpoint,
`FetchOrder` and `FetchFails` one round of the loop over names, `Emit` starts a request of
`SalesOrders` that goes on by itself (`Resume`): the promise of the listener is dropped, so the caller is
answered before. An order may be announced by two names and by both endpoints. `Crash` ends the process:
memory is lost, Mongo is not. An insert that a crash overtakes has reached Mongo before it, or never.

**`LineItemRules`** (`SalesLineItem.validate`). The loop over the rules of a variant, with its four
ways through: flag a missing required property, throw on a missing optional one that has options,
skip, or check length, options and pattern (with `new RegExp` throwing inside the `try`). Names,
values and patterns are opaque, with `Lower`, `Length` and `Matches` as parameters. The verdict is
one of the `Fits` of `SalesOrders`. What must be flagged is said without the loop: the pairs of a rule and a
reason it breaks (`Wrongs`), and the place of each among the flags, which is how many do not come after it (`Lists`).

**`Accounts`, `AccountsProps`** (`identity/`, with the calls of `auth0/`). `accounts` is the table,
`member[u][a]` what the `app_metadata` of `u` says of `a`. Every use case is `getUser`, `load`,
`save`, `patch`, `remove` in its own order. The Auth0 client turns every error into `{}`: `Nobody`
in `seen[r]` is a user without an id, whose metadata is then patched nowhere, with the use case
none the wiser. `save` of a new account is an INSERT (`Insert`), which the primary key refuses under a stored id
(`Fail`), although its comment speaks of an upsert (section 6). `before[r]` remembers who had finished when `r` began, so that properties can speak
of requests that overlap.

**`Stores`, `StoresProps`, `AccountStores`** (`AddStore`, `RemoveStore` and the stores of the other use cases of accounts).
`of[s]` is the account of a store, named by the request that made it; `held[r]` the list in the entity
that request `r` loaded. A flush writes the difference between the entity and what was loaded
(`InsertStore`, `DeleteStore`, `RemoveRows`), which is why a list that is out of date does little harm.
What MikroORM does with an orphan that was not in the collection depends on its version: both are
modelled. `AccountStores` is what an observer of the two tables sees; `RemoveRows` must map to `Close`
or to nothing.

**`UserDirectory`, `UserDirectoryProps`** (`auth0/`, the use cases of users). `directory` is the list in Auth0, oldest
first. `PageArrives` and `PageFails` are rounds of `fetchAllUsers`: a failed page is `{}`, whose `limit` and
`length` are both undefined and therefore equal, so the loop goes on and the listing fails at the end.
`Lookup` and `Create` are the two calls of `CreateUserUseCase`; `token` is what the headers carry from start-up on.

**`MonogramPool`** (`myeasymonogram.service.ts`). `connection` is the field all queries share; the
pool is external, modelled as the `mysql2` pool the service uses: a free list (`copies`, since the
same connection may be released more than once), a limit (`Conns`), a queue of waiters.

**`Catalog`, `CatalogProps`** (`catalog/`). `types`, `products`, `variants` are the tables; each step
is one query or one flush. `FindVariant` to `FindVariantAgain` are `lookupVariantBySkuOrId` and
`syncVariant`, which go on into the two saves, `LoadProduct` to `SaveProduct` and `LoadParent` to
`SaveVariant`; those are also the requests of clients. A flush writes only the columns that differ
from the copy loaded (`Written`), which is what MikroORM does and what makes concurrent saves
subtle. An entity and the relations populated with it are loaded in one step; the product reached
through the identity map may be the copy loaded earlier (`LoadParent`). MyEasySuite may answer
differently at every call.

**`CatalogOptions`, `CatalogOptionsProps`** (`VariantService`, the CSV imports). One product type, whose three
options may be saved meanwhile. `Adjusted` and `ValueFor` are `adjustInvalidOptionNames` and the map of
`swapVariantOptions`: an option without a name takes that of the first option that offers its value,
of two with one name the last counts. `local[r]` holds the identity map of a request: the
type it saw first, the variants it found or made. `AfterRows` is the loop of an import.

**`ShopifyInstall`, `ShopifyInstallProps`** (`shopify/`). The methods of the two aggregates, called in any order, with what each changed before
it threw. `Reload` is `toDb` and back. The endpoints are actions that throw (`NotImplemented`), since no method of
the repository is written.

## 4. Runs

| Run | Instance | Distinct states | What it shows |
|---|---|---|---|
| `sales` | 3 requests: place, import, customer, personalization, get, delete; 3 ids; a name and none; up to 1 line item | 1 701 601 | the inductive invariant (unique names, which stored orders cannot be read, one winner among deletes), idempotent placement, when an edit inserts, what a request by id is answered with, refinement of `OrderRegistry` |
| `sales_doc_edit` | 2 requests | until violated | an edit that succeeds is not stored |
| `order_pages` | 4 ids, 5 possible orders of 2 sellers (two of one date, one unreadable), pages of 2 | 963 366 | what a walk misses or sees twice, how far the rows of an answer and its count may part, what an unreadable order costs |
| `order_import` | 1 webhook, 1 sync of up to 2 names, 1 deletion; 2 orders under 3 names; 1 end of the process; fair | 340 332 | one copy per order, no name passed over, the invariant of the sales module under events and restarts; every announcement settles |
| `lineitem_rules` | up to 2 rules and 2 properties | 857 360 | flags raised are exactly the rules broken; when it throws |
| `accounts_members` | 3 requests of all seven kinds, 2 users, 2 accounts, 1 company code | 1 167 684 | the inductive invariant (metadata never runs ahead of the table), lone updates are not lost, when a code has two accounts, removals are asked for |
| `stores` | 3 requests of six kinds, 2 accounts | 762 895 | refinement of `AccountStores`, what a store can be lost to, what answers list, when a removal leaves its account behind |
| `user_directory` | 2 requests of all four kinds, 3 emails, up to 4 users, pages of 2, 1 restart; fair | 493 802 | what a listing may miss and that it ends, what creating again answers, what a bad token answers |
| `monogram_pool` | 4 callers, 3 connections, fair | 71 046 | the pool never runs dry for good; who waits is served |
| `catalog` | 3 requests of all seven kinds, 2 types, 2 SKUs of one row | 3 394 481 | what concurrent saves cannot mix up, what answers promise, when constraints refuse, removals |
| `catalog_options` | 3 requests; 4 forms of the type, one with an option that offers a value and has no name, 2 products, 2 SKUs; files chosen to disagree | 3 915 811 | where values go, what an import that stops leaves behind, which saves may mix |
| `shopify` | 2 ids, 2 shops, 2 tokens, 2 timestamps and a bad one, up to 5 events | 119 832 | the events are a history of the installation, nothing survives reconnecting, what a failed call leaves |

**Why the bounds are enough to be interesting.** A race needs two requests, and the properties about
what a third sees (a second placement after a delete, an edit whose target was deleted and placed
again, a member added while the account is deleted and re-created, a store added while its account is removed) three.
There are as many ids as requests, so a run never runs out. Two accounts and two users
show that an update of one leaves the other alone. Two SKUs of one short form, two types, and one
product SKU are where the catalog's rows collide. Four callers of three connections leave one
waiting while three overwrite the field. Two rules and two properties are what precedence (first
match, first flag, `continue`) needs, with two spellings of one name. Pages of two are the smallest
that may be half full; four users or orders make a walk of three pages, the last of them empty. Five events are two
connections and a token. In `order_import` one name is an alias, so that one order comes by
webhook, by sync, and twice in one sync.

What bounds there are in guards: `MaxUsers` and `MaxRestarts` (a process that restarts for ever and
users without end add nothing to one listing), `MaxCrashes`, `MaxEvents`, and `PageCap` in `UserDirectory`, beyond
which every page is empty. Elsewhere every request is served once (in the pool, callers ask again
forever, and connections are reused), so the state spaces are finite; `MaxLines`, `MaxKeys`, `MaxRules` and
`MaxProperties` bound inputs. The runs are symmetric in requests, and in ids, accounts and names of types
where nothing tells them apart; the runs that check liveness use no symmetry. Only
`lineitem_rules` turns the deadlock check off: the loop has ended.

**Fairness.** The event
loop resumes a function whose promise has settled, and every client library call settles, with an
error after its own timeout if need be: hence weak fairness of the continuation of a handler, with
failure always an alternative. It is not assumed that calls succeed, nor that requests are sent.
`order_import` has no more than that: `Resume(r)` and the rounds of the loop over names. `monogram_pool`: weak fairness of each query's
own steps: MySQL answers queries and connection attempts; nobody has to ask. `user_directory` needs more for
`ListingsEnd`, since `fetchAllUsers` goes on for as long as pages fail: strong fairness of
`PageArrives(r)`, that Auth0 does not fail for ever while the token is good. The property has the bad token as its exception.

## 5. Proofs

All theorems hold for every value of the constants that satisfies the named assumptions next to them,
which only say that sentinels are no values, that kinds are kinds, that bounds are numbers, that inputs are of their
types, that a page holds something and the ids are finite, and, for the catalog, that a short
SKU is its own short form. In each component one inductive invariant carries the rest:

- **`SalesOrdersProofs`** proves `TypeOK /\ Control` first (no handler dereferences a draft
  or an input that is not there), then `IInv`. The strengthening says what a request may rely on at each await:
  a stored document is the one first stored (`WriteOnce`), a draft about to be inserted by an edit
  continues an order that is gone or had no name (`DraftOK`), and an answer refers to something that
  existed (`AnswerOK`). Without `DraftOK` the invariant about stored copies is not inductive: it is
  between `FindByName` and `CreateOrder` that the fact "the name was free" must be carried as "the
  source is gone". `RegistryStep` shows that a step of any request is an insertion, a removal or a
  stutter of the registry, which gives `ImplementsRegistry` and, with `Monotone` (a history never forgets), most of the rest.
- **`AccountsProofs`** has three layers. `BInv`: every entry in the metadata, and every copy of it a
  request holds, is of an account that was stored (`EntriesAreGrounded`, `CopiesAreGrounded`).
  `PInv`: as long as no other request about the same user overlaps, the copy is what is stored, so the
  patch loses nothing. `CInv`: what an import did not find was inserted by a request that overlaps it
  or by a client. Each is inductive on top of the one before.
- **`StoresProofs`**: `IInv` says where each request is, that a store that exists was added by its own
  request to an account that is there, and that what is held is of the right account. `StepOfOne` reduces a step to
  the tables and the request that takes it. The refinement needs only one more fact: a removal that
  commits has loaded every store the account has (`RemoveRows`), so it maps to `Close`. `LoneAnswers` adds `Current`: while nothing
  overlaps, the list held is the list stored. `RInv` explains what a removal leaves behind (`RemovalsExplained`): each time somebody else
  adds to the account it is shown that this request overlaps the removal, and goes on overlapping it.
- **`CatalogProofs`**: `IInv` says of every step that the handler holds what it will use (`About`),
  that what it holds was stored like that once (`Copied`), and what it is about to delete (`Doomed`).
  `known`, every type ever stored, makes "a product's two references to its type agree" inductive across deletions of types; row ids are never
  reused, since a row is named by the request that inserts it. The lemmas `Others`, `TablesStay`, `GotoKeeps` and
  `EndKeeps` dispose of everything a read does; `WrittenAgrees` is the heart: writing only
  the columns that differ cannot mix the name of one type with the key of another as long as names
  are unique. `LoneInv` is about a request that has the catalog for itself: at each await, what it loaded is what
  the tables hold (`Loaded`), whence it is refused by no unique column (`LoneRequestsAreNotRefused`) and what it answered is stored until the
  next request comes (`LoneAnswersHold`). It needs `RowsHold`, what foreign keys and unique columns always keep.
- **`CatalogOptionsProofs`**: the heart is about the swap alone. Putting a variant's options into a form of the type is
  idempotent, and two variants that it leaves alone may be mixed column by column into a third that it leaves alone. Hence
  `SavedIsSettled`, for any interleaving of saves. `Current` says that a copy is current while nobody who saves the same SKU overlaps
  (`NoRival`), `Written` that the last row saved of a SKU is what is stored, which gives `ImportsStoreAPrefix` and `NoRowIsPassedOver`.
- **`ListingsProofs`** has two walks. `UserDirectory`: users are in the order of their ids, so all that is ahead of a listing comes after
  all it got (`GotInOrder`), and who stayed is in one or the other (`StayedListed`), until a deletion on an earlier page
  moves somebody over the line. `OrderPages`: orders go by date, with ties in any order, so a page is told by a number: how many stored orders
  are later (`Before`). One that is tied with none is on the page asked for exactly if this number is among its rows. While
  nothing is written before the page, who was not seen is not skipped (`NoneSkipped`) and who was seen is not ahead (`NoneAhead`). `CountHolds` carries the count over the
  second await, from above unless an order was placed and from below unless one was deleted; `ExpectedRows` shows that the rounded-down
  number of pages, or the offset, says of a page what the total does, and that only grows with it.
- **`InMemoryProofs`** has three parts.
  `LineItemRules`: `Passed` says that the flags pushed are those of the rules passed. That a list is complete and in order is said by
  counting (`Lists`), not by recursion, so the invariant is a step at a time: `PushLast` appends what comes after
  all that is listed, `FourChecks` does so for the four reasons of a rule, whether its property is missing or there.
  `ShopifyInstall`: `InstallInv` is inductive thanks to `NoneUntold`: a token is told of only
  once there is an installation, so that a refused token (`spoilt`) cannot be forgotten by a later
  connection. `OneMore` and `TwoMore` say what becomes of the latest event of each type.
  `MonogramPool`: `Kept` adds to its two statements what the pool keeps: places and holders
  agree, a connection being made is nobody else's, the queue holds just those who wait and is empty
  while something is free, and the field is empty only until the first query got a connection.
- **`OrderImportProofs`** builds on `SalesOrdersProofs`, which `OrderImport` instantiates: a step of a
  request is one of `SalesOrders`, so its lemmas apply. What is new is shown here: an event that starts a
  request (`EmitKeepsSales`) and the end of the process (`CrashKeepsSales`) keep the invariant of the sales
  module. `CopiesKeepTheName` adds that whatever is stored of an import, by itself or by an edit, keeps the
  name of the event (an import always has one, so that an edit does not rename it), and so the unique
  names of the collection give `OneCopyPerOrder`.
The theorems also state properties the runs do not list by name, because the invariant they check implies
them: `UniqueNames`, `PlacedIsLoadable`, `DeletedOnce` (sales), `EntriesAreGrounded`, `LoneReadsAreCurrent` (accounts),
`LastIsNotLost`, `WaitersAreServed` (pool), `ProductsAgree`, `AnswersFit` (catalog), `AnswersListOwnStores` (stores),
`SyncTriesEveryName` (import).

Each safety and action property of a run is thus stated by a theorem. Only model-checked: the liveness properties `WaitingEnds`,
`ListingsEnd` and `AnnouncementsSettle`, since liveness under fairness is beyond the prover. One property was corrected on the way: see the
last point of the first list in section 6.

## 6. What the checks show of the code

Worth knowing, and true of every interleaving the models have:

- Placing an order is idempotent by name only because of the unique index; the lookup before it is an optimisation.
  It is also what keeps a MyEasySuite order to one copy, since the event carries `order_id` in place of the announced name.
- An edit is stored only when its order has been deleted meanwhile or never had a name; then it is
  stored as a new order (`CopyReplacesRemoved`). Only such a copy can become an order no one can read.
- One order that can be stored but not read again fails every page of a listing it is on; a walk misses
  what was on that page, and what a deletion moved over the edge of a page, and nothing else.
- `pages` of a GraphQL answer is rounded down: a last page that is not full is not counted. Count and rows part only by what
  was placed between the two queries (more rows than counted) or deleted (fewer), never otherwise.
- The page of the HTTP listing is a number of rows to skip: page 1 is all but the first row of page 0 and one more (`CountsMatchRows`
  says which rows an HTTP page has; `WalkMissesNone`, that such a walk still misses nobody).
- An announcement is answered before its order is placed; if the process ends in between, only another
  announcement places it.
- Metadata in Auth0 may lag behind Postgres for good, but never runs ahead of it.
- Two accounts of one company code come from overlapping imports or from a client; nothing in the table prevents it.
- An account with stores survives `RemoveAllUserAccounts`, and survives a deletion that overlaps the addition of a
  store; its caller is told otherwise.
- A listing of users ends although failed pages look full, misses nobody unless a user of an earlier page
  is deleted meanwhile, and never lists one twice. Under a token that could not be loaded, or has
  expired, one user is answered as an empty success and a listing is not answered at all.
- Queries to MyEasyMonogram that overlap lose connections, but never so many that the service stops.
- Product types may share a name (nothing makes it unique), and then a product may carry the name of one and the key of the other.
- An option value is stored in the option that offers it whichever column it stood in, unless names or
  values are ambiguous; a value whose option name is not of the type is dropped and the answer is OK. Under
  a type whose options have no names all three stored options get the last unnamed value. Values also go astray under a
  type with one option that has no name but offers a value: the values no option offers stay without a name too, and the last of
  them takes the place of the one offered. The models first had `ValuesGoWhereOffered` without this exception;
  the attempt to prove it showed that it fails, and the run now has such a type.

Where documents and code part:

- Edits are dropped by `save` (the finding, with the run `sales_doc_edit`, which is expected to be violated).
- The comment on `save` of accounts (`AccountsRepository.ts:114`) says "If SKU/UUID/ID is defined, attempts to Upsert". A
  creation under the id of a stored account is refused instead: `upsertById` persists a new entity, and that is an INSERT.
  `RemovalIsAskedFor` and the theorem `Removals` describe what the code does and so contradict that comment on purpose:
  that they hold is the disagreement, and an implementation that did what the comment says would violate them, since a client that
  names a stored id would become the owner of that account. Whether the comment or the code is meant is for its authors to say. Of a
  loaded account `save` does update the row. `StoresRepository.ts:100` has the same words over the same code.

Seen while modelling, without a run:

- `CatalogService.ts:83-99` stores only what is missing, where `catalog/README.md:66-73`
  has the sync apply what MyEasySuite says to a stored product and variant as well; a stored variant is never
  refreshed (`CatalogService.ts:46`).
- `VariantsRepository.ts:45` links product and type of a new variant only, so that a stored one saved for another product takes that
  product's type name and keeps its own key (`Variant.ts:111`: "Must obey ProductType VariantOption rules").
- A product saved under the id of a stored one is a second one, unless its SKU is the same. Personalization is not validated on an edit.
  Domain events of orders are raised and sent to nobody.
- `ShopifyAccount.spec.ts:88` expects the event `InstallInitiated` to carry the id of the account, which holds there only because
  `UUID.generate` is mocked: each event is of a UUID of its own. The constant `ShopifyAccountInstallStatus.ACCEPTED` is `"PENDING_ACCESS_TOKEN"`, while the code writes `"ACCEPTED"`.
- The default dates of a listing are computed when the class is loaded (`SalesOrdersQueryArgs.ts:20-23`), so a process
  that runs for long lists by the dates of its start. Costs become cents by a multiplication in binary floating point (`CatalogServiceUtils.ts:86`).
- An imported order's seller is a company code, where the accounts in a token (`AuthenticatedUser.ts:28`) carry both an id and a code.

## 7. Not modelled

- Order authorisation (`canManageOrders`): a pure predicate over the claims of a token. No accounts
  refuses, an account that is not there is unauthorised, otherwise the permission `manage:orders`
  decides. It is asked when an order is placed by HTTP (`OrdersController.ts:147`) and nowhere else: edits, deletions and reads
  are not checked. `SalesOrders` has its refusal as one more reason for which a placement fails.
- `aqp` query parsing: stateless, and `convertUrlToMongoQuery`, its only user, has no caller.
- Result, value objects, exception filters, logging: what they do to a handler is in the handler's steps.
- Preview, health, configuration, module wiring: pure I/O and start-up.
- Shopify's `confirmInstall`, which has no caller, and the two GETs of `ShopifyApiController` that `ShopifyController`,
  registered first, shadows. `StoresController`, whose endpoints throw `NotImplemented`.
- In `OrderPages`: the text of query strings (`page` and `size` come over HTTP as strings), the page number reported by
  HTTP, the range of dates, and the list of merchants and sellers (`options`).
- In `UserDirectory`: users of social connections, who may share an email, and Auth0's own limit of 1000 users to a listing; Auth0 is
  taken to list users in the order of their creation. The token of MyEasySuite, made by the same factory, is one reason for `FetchFails`.
- The contents of orders, addresses, prices, colours: data no property tells apart, except
  line item properties, which `LineItemRules` has, and options, which `CatalogOptions` has.
- MongoDB, Postgres, MikroORM, EventEmitter2, Auth0, MyEasySuite, MySQL: external; each is modelled from how the
  code uses it, and `PROJECT.json` marks the definitions.
