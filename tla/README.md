# A TLA+ model of Koom Server

Koom Server is the backend of a civic communication app: one Go process in front
of PostgreSQL, with WebSockets, SMS login and push notifications. This directory
holds TLA+ modules of the parts whose correctness depends on the order of events,
the TLC configurations that check them, and TLAPS proofs of their main
invariants. Paths below are relative to `src/internal` unless they start with
`src/`.

- [1. The system](#1-the-system)
- [2. Plan](#2-plan)
- [3. Modules](#3-modules)
- [4. Runs](#4-runs)
- [5. Proofs](#5-proofs)
- [6. What is not shown](#6-what-is-not-shown)

## 1. The system

### Components

| Component | State | Operations | Correct when |
|---|---|---|---|
| Realtime hub (`realtime/hub.go`, handlers in `httpapi/server.go`) | maps group / user / address to clients; per client a 256-event channel, a closed flag, the socket | Register, Unregister, BroadcastGroup, NotifyUser, Drain, CloseAll; ReadPump, WritePump | the maps agree; a channel is closed once, exactly when its client is out; limits hold and slots come back; a client of a broadcast gets it or is torn down; nobody waits for a slow client |
| Phone login (`service/phone_auth_service.go`, `storage/repository_phone_auth.go`) | codes: times, attempts, consumed; users | RequestCode, VerifyCode | codes are spaced and limited per window; a code logs in once, never after its attempts; a code is not burnt without a reason |
| Refresh sessions (`storage/repository_sessions.go`) | tokens: revoked, expires | login, Refresh, Logout | one successor per token, one live token per login, logout is final |
| Content moderation (`service/content_moderation.go`, `storage/content_moderation.go`) | moderation items, messages, public requests, mutes | gate, publish or block, approve, reject, automatic mute | rejected content is gone, decisions are final and made by moderators, mutes are earned |
| Groups and membership (`storage/repository.go`, `repository_members.go`, `group_membership.go`) | groups, members with roles | create, join, leave, add, remove, promote, demote | one owner, who is never removed; role checks hold when the change is made |
| Invites (`storage/repository_invites.go`) | invite rows with a status | invite, accept, decline, list; invite codes | an accepted invite makes a member, once; an invitation can always be answered |
| Group creation requests (`storage/group_creation_requests_review.go`) | requests with a status, groups made for them | submit, approve, reject, ask for more, tell the requester | a request is decided once and makes at most one group; the requester hears what is true |
| Public requests (`storage/repository_public_requests.go`) | requests, votes, comments, read marks | create, vote, comment, delete, hide, set status, mark read | who writes had the right to it, counts agree with votes, a rejected comment is gone |
| Comment mutes (`storage/group_comment_mutes.go`) | one row per group and user | mute, unmute, automatic mute | a muted user cannot comment |
| Rate limiter (`httpapi/rate_limiter.go`) | per key a count and a reset time | Allow, clean-up loop | an address gets at most twice the limit in a window, whatever it sends; a full table empties |
| Push (`push/fcm.go`, `storage/push_tokens.go`) | device tokens | register, delete, send, retry, drop invalid ones | nobody is notified twice without a lost answer; no live token loses its registration and no token is skipped without cause; access tokens are used while they live |
| Learned rules (`storage/adaptive_moderation.go`) | patterns with action and weight | upsert, match | the last decision about a text counts |
| Platform roles (`storage/admin_roles.go`) | allowlist, role of a user | sync at start, apply at login | whoever is taken off the list loses the role at the next login |
| Server life cycle (`src/cmd/server/main.go`) | listener, hub | start, drain, shut down | every socket is closed in bounded time |
| The rest | none, or single rows | configuration, migrations, statistics, files, pages, signing and hashing, SMS, providers | pure functions, read-only queries, outside services |

### Interaction

Each HTTP request runs in a goroutine of its own: the rate limiter admits it by its
address, `auth` loads the user, a handler of `httpapi` calls a `service` method, which runs SQL
statements of `storage`. Services keep no state, so concurrent requests meet only
in PostgreSQL, in the hub's mutex and in the limiter's. Most mutations go through
`WithAuditEvent`: a READ COMMITTED transaction that stores the change and an audit
row. After the commit the handler publishes events to the hub and starts
goroutines that send push notifications.

A WebSocket has three goroutines at some time: the handler that registers it and
sends `connection.ready`, ReadPump and WritePump. They, publishers and the shutdown
share the client's channel, closed by whoever unregisters it first.

### What is hard

- **Reads outside the transaction that acts on them**: code limits, verification,
  refresh, the moderation gate, role checks.
- **READ COMMITTED transactions that count**: two rejections of one author.
- **Row locks and guarded updates** (`FOR UPDATE`, `FOR SHARE`, `WHERE status =
  'pending'`, `revoked_at IS NULL`, advisory locks) that make the above right.
- **One client torn down from four sides** while publishers hold a snapshot with it.
- **Commit without answer**, failing statements after a code is used up, notices sent
  after the lock is gone.
- **Outside services**: a lost answer is retried, a context runs out or is cancelled in the
  middle of a loop, a cached access token runs out, a device token dies.
- **Clock readings taken before the lock** they are used under.
- **Shutdown** against connections that are just being accepted.

`PROJECT.json` lists each hazard at its line, with the properties about it.

## 2. Plan

The modules, in the order of how much the server depends on them; all of them exist.

1. `Hub` - everything else delivers through it, and no test reaches its races.
2. `PhoneAuth` - the only way into the system.
3. `RefreshSessions`.
4. `Moderation` - the largest transactions of the service.
5. `Membership` - who is in a group, with which role; roles are read without locks.
6. `GroupCreation` - reviews of one request by several administrators, the notices after
   them, and the allowlist of platform roles that admits them.
7. `PublicRequests` - votes, comments with their reviews and mutes, hiding, status: where
   public requests, mutes, roles and moderation meet.
8. `Push` - device tokens, the cached access token, retries and contexts.
9. `RateLimiter` - windows, proxies, the clean-up loop and the bound on keys.

Six abstract specifications say in a page what a component promises, and the detailed
modules are shown to implement them, by TLC in the runs and by proof in general:

| Abstract | Implemented by | Property | Promise |
|---|---|---|---|
| `Mailboxes` | `Hub` | `MailboxesKept` | a client connects once, within the limits, leaves in one step and for good; its box takes events only while it is connected |
| `OneTimeCode` | `PhoneAuth` | `OneTimeCodes` | a code is spent by one holder, or dies, and nothing after that |
| `LoginSession` | `RefreshSessions` | `OneTokenAtATime` | a login has one token, renewed one for one, and never one again once it is over |
| `ReviewedContent` | `Moderation`; comments of `PublicRequests` | `ReviewsAtomic`; `CommentsReviewed` | an item is decided once, in one step with what that does to its content; what was taken away stays away |
| `GroupRoster` | `Membership` | `RosterKept` | the ways into a group, one pending invitation per user, answered once, the owner only goes with the group |
| `RequestDecisions` | `GroupCreation` | `DecidedOnce` | a request is granted with one group, or refused, once |

Left for later: frames of `Hub` with contents, so that it can be composed with
`Moderation` (the order of events about one message) and with `Membership` (what a
socket hears after its user left). The code promises neither, so such a composition would
state what one wishes of it.

## 3. Modules

Every module names its grain in its header. In all of them a step is one critical
section, one SQL statement, or one transaction from the point where a lock makes
it atomic. Definitions called mutants sit before the definition they alter; they
are seeded faults that show that a property can fail and no action uses them.

### Hub

One module for the hub, its clients' goroutines, the two WebSocket handlers, the
publishing calls (`Post`, each with its `Route`) and the shutdown.

| TLA+ | code |
|---|---|
| `groups`, `users`, `remoteIPs` | the three maps under `Hub.mu` |
| `send`, `sendClosed` | the contents of `Client.Send`, and whether Unregister closed it |
| `handler`, `reader`, `writer` | the goroutine of the request, `ReadPump`, `WritePump` |
| `conn` | the socket: open, or closed by either pump; the peer may leave silently |
| `route`, `todo`, `failed` | per call: targets and snapshot still to serve, the client to drop |
| `drain`, `closing` | the stage of `Drain`, the clients `CloseAll` still has to close |
| `got`, `owed`, `closedAll` | history: frames written, clients of snapshots, clients of `CloseAll` |

`Register` is the critical section with the limits; `QueueReady` is the bare channel
send that follows it, which blocks on a full buffer and panics on a closed channel
(`PanicOnClosed`: the recoverer answers, the pumps never start). `Snapshot`,
`Deliver` and `DropFailed` are the steps of a broadcast, `CollectAll`, `CloseOne` and
`EndDrain` those of `CloseAll`. The reader ends by deadline, error or a refused
message and unregisters before it closes the socket; the writer ends when the channel is
closed or a write fails.

`Mail` instantiates `Mailboxes`: connected are the clients in `groups` or `users`
(`Connected`), gone those with `sendClosed`, the box is the channel. So `MailboxesKept` says
that the three maps, the flag and the channel change together, whoever calls Unregister and
how often, that registration keeps all three limits although each is read from another
map, and that no event enters the channel of a client that was unregistered before.

### PhoneAuth

One phone number; statements are keyed by the number or a code, so numbers do not
interact. `RequestCode` is `ReadClock`, `BeginTx` (which fixes `created_at`), `Issue`
(from the advisory lock to the commit), `SendCode`; `VerifyCode` is `ReadCode`,
`CountWrong` or `CheckName`, `Consume`, `FindUser`, `CreateUser`, `OpenSession`. Each
statement may fail (`RequestFails`, `VerifyFails`). Time is a counter of abstract units
bounded by `MaxTime`. `TestPhone` selects the path of the test number, where no code
is checked. Which digits are sent is not modelled: a verifier's code is right or wrong.
History variables record wrong answers, consumed codes, newcomers and database errors.

`OneTimeCode` is what a code promises: made, then spent by one holder, or dead; nothing
after that. `Codes` instantiates it with the life of a code (not issued, live, dead by
its expiry or by its attempts, spent) and the verifiers it let in, and `OneTimeCodes`
says that every step of the login is a step of it or none. The read, the comparison and
the update of the code are separate statements, so a code may die between them.

### RefreshSessions

Rows of `refresh_tokens` of one user. `Login` inserts one; `Refresh` is
`ReadForRefresh` then `Rotate` (revoke and insert in one transaction, whose commit may
end in an error for the caller) or `RotateRefused`; `Logout` is `ReadForLogout` then
`Revoke`. `parent` and `login` are history. `LoginSession` is what a login's tokens promise;
the model maps each login to its tokens that are not revoked.

### Moderation

One author in one group. A post goes `Enter` (membership, rate limit), `Judge` (any
verdict), `Admit` (membership again), then `Publish`, or `Queue` (resource and pending
item in one transaction), or `BeginBlock` and `CommitBlock`. A review is
`BeginApprove`/`CommitApprove` or `BeginReject`/`CommitReject`, with `AbortReview` for
a rollback. Begin stands for all statements up to the last read, since the locks
they take order them against everything else; the commit is a step of its own since
another transaction may commit in between. `Removing`, `MembershipHeld` and `RoleHeld`
are those locks. `Edits` says which posts edit a message, `Legacy` which items stem from
before items named a resource (the branch of the code that publishes on approval).
Deleting a resource, leaving, losing a role, manual mutes and the 15 minute window are
steps of the surroundings. `Age` lets rejections leave the window in any order, which
allows more than the clock does.

`ReviewsAtomic` is the refinement of `ReviewedContent`: status of an item, existence of its
resource and publication change as one, and a decided item is not decided again. That a
rejection finds its resource live and removes it in the same step is part of it.

### Membership

One group; statements name their group, so groups do not interact. `role` is
`group_members`, `status`, `target` and `inviter` are `group_invite_requests`, `code`
says whether the group has an invite code (a signed code carries it). An operation
whose reads lock what they read, or read what never changes, is one step: joining,
leaving, a role set by the owner, declining, deleting the group. The others are the
sequence of their statements:

| Operation | Steps |
|---|---|
| `RemoveMember` | `ReadActorRole`, `ReadTargetRole`, `RemoveGroupMember` (DELETE to commit) |
| `CreateInviteRequest` | `CanInviteToGroup`, `CreateInviteRequest` (insert, or keep the pending row) |
| `InviteUserByID` | `CanInviteToGroup`, `InviteUserByID` |
| `AcceptInviteRequest` | `AcceptInvite` (update the row, insert the member unless there), `CommitAccept` |

`AcceptInvite` ends in `conflict` when the unique constraint on group, target and
status refuses the update. `Held` and `Entering` are the locks of an open accept, for
which others wait. No route calls `RemoveMember` and `InviteUserByID` yet; they are
modelled as the service offers them, and the constants `Removing` and `Adding` are the
sets of such calls, which may be empty. `raced` remembers calls during which the role
of one of their two users changed, `added` who was added directly.

`RosterKept` is the refinement of `GroupRoster`. Its acceptance is one step,
`CommitAccept`, and leaves the places alone when the user was a member already. A user
who was a member when the accept inserted and leaves before it commits ends outside with
an accepted invitation: `ON CONFLICT DO NOTHING` found a row that is gone by then.

`RemovalJustified` excuses a removal that raced with a role change, because the DELETE
checks only for the owner: an admin can remove a member promoted to admin since the
role was read, which `src/docs/production-security-checklist.md:23` rules out.

### GroupCreation

`status` and `link` are rows of `group_creation_requests`, `groups` those groups, named by
the review that makes them. A review is `Authorize` (the role is read with the account),
for an approval `ReadRequest`, then one transaction, which locks the row first:
`Approve`, `Mark`, `TooLate`, or `CodeTaken`, which is rolled back and tried again up to
`Attempts` times. `Tell` is the handler's event to the requester after the commit.
`CallFails` ends a review anywhere; after the commit it loses the notice.
`last` is what the requester heard last, `blurred` a request that was decided again
while a notice of it was due. `RequestDecisions` has a request granted with one new group, or
refused, once; `Decisions` instantiates it, and asking for more information is no step
of it.

The roles are the other half: `listed` is `admin_phone_allowlist`, a login reads it
(`BeginLogin`) and stores the role in a second statement (`EndLogin`), the operator edits
the list, and a starting server upserts its phones one by one (`StartSync`, `SyncPhone`,
`SyncFails`). `cut` and `struck` follow accounts that left the list while no login was in
flight: their next login must take the role away.

### PublicRequests

One request of a group. A call asks for one operation (`job`) and goes through the
statements of it: `Begin`, for comments `CheckMute` and `Judge`, `ReadRequest`,
`ReadActor`, `ReadRole`, and the write that ends it. Each read is a step since none of
them locks. A vote is two steps, `CountVotes` (write and count, with its own row
locked) and `CommitVote`, so two voting calls may overlap; `Broadcast` shows the counts. A
comment that needs a review gets an item with it, and `ApproveComment` and
`RejectComment` are reviews of it; a rejection deletes the comment in the way a
moderator would and fails if that fails. Roles change, authors are muted
automatically and mutes expire while calls run (`Others`). An expired mute no longer
silences but stays open until it is ended or replaced, so `ClearMute` succeeds on it.

`lacks` is history: the rights a call needs and has not had at any moment since it
began. `PostingJustified` and `ModeratingJustified` say that it is empty when the call has
written. A user who loses the right during the call may still write, which the code
allows. `blurred` excuses counts that overlapping votes or lost events may falsify.
`CommentsReviewed` maps comments and their items to `ReviewedContent`, the specification
`Moderation` implements for the other kinds of content.

### Push

`rows` are the registered tokens, a notice is a goroutine of `NotifyUsers` or
`notifyGroupAboutNewPublicRequest`: `List`, the access token (`ReadCache`, or `Issue` and
`StoreAccess`), then per token `Send`, the answer (`Accepted`, `RefusedToken`,
`RefusedCall`, `Unavailable`, `AnswerLost`) and `Retry` as long as attempts are left, then
`Cleanup` of refused tokens. `left` is what remains of the ten seconds of the notice, and
`cancelled` holds the notices whose request is over: `Cancel` ends the context of those that
were started with their request's, which is the invite's notice alone, before or after
their goroutine has begun. The two are kept apart, so that `EveryTokenTried` can excuse a
skipped token by the time of its own notice, or by a cancelled invite, and by nothing else.
`dead` are the tokens FCM no longer knows (`Uninstall`), and `Misfit` the notices it refuses
for their content or for the server's credentials; `isInvalidTokenError` takes both for an
invalid token, and `LiveTokenKept` says that nothing else takes a registration from a live
token: neither other errors nor lost answers, retries, or a notice that ends early. Times are
what is left, never a clock: `Tick` lowers all of them. The cache counts the life of an
access token from the answer, and is therefore ahead of the real life by up to a timeout;
`Margin` is the five minutes that make up for it. Each answer of the token endpoint grants a
lifetime of its own (`granted`), 3600 seconds when it names none.

### RateLimiter

`visitors` is the map, an entry its count and how far its reset time is ahead. A request
gets its key (`Direct`, `Forwarded` through one or two proxies, with any
header the client wrote) and reads the clock; `Allow` runs under the mutex with a reading up
to `Lag` old, and so does the clean-up (`TickerFires`, `Sweep`). `ages` is history: how
long ago the last `2 * Limit` admissions of an address were, by who really sent. `Junk` stands
for the texts in a header that are no address.

There are no accounts in it. `rateLimit` asks for the user (`httpapi/server.go:618`), but it
wraps the whole router (line 75) and runs before `auth` (line 99) has found out who calls, so
every key is an address: what is bounded is what an address is admitted. Proxies add to
the one `X-Forwarded-For` line, as the Caddy of the deployment does; of several lines the
code would read the first.

## 4. Runs

`public_requests`, `members` and `push` take about two minutes, `group_creation` about
one, the others well under one.

| Run | Instance | Shows |
|---|---|---|
| `hub_registry` | 3 sockets, two users and addresses, limits of 1 and 2, a shutdown | the three maps, a drain that misses nobody, and the refinement of `Mailboxes` |
| `hub_liveness` | 1 socket, 2 publishers (one by two ways), a shutdown; liveness | no silent loss; dead peers are unregistered, unregistered clients wind down, publishers end, a drain reaches everyone |
| `phone_codes` | 3 requests, 2 codes per window of 2; 2 verifiers, 1 attempt | spacing and quota, lost logins, dead codes, and the refinement of `OneTimeCode` |
| `refresh_tokens` | 4 rows, 3 refreshes, 1 logout | successors, logout, and the refinement of `LoginSession` |
| `moderation_queue` | a post, its edit, an old item; 2 moderators, threshold 2 | rejected content, roles at commit, earned and missed mutes, and the refinement of `ReviewedContent` |
| `moderation_readme` | 1 post | **violated**: content is visible before its review |
| `members` | public and private group, 3 users, 2 invitations; the mixes of calls `Blends` | one owner, removals and invitations by rank, entry by invitation, and the refinement of `GroupRoster` (1.2 million states) |
| `member_reinvite` | 3 users, 2 invitations, calls that invite and accept | **violated**: an invited user is not let in |
| `public_requests` | 3 users, 9 mixes of 3 calls | rights, counts, and the refinement of `ReviewedContent` by comments (790 000 states) |
| `group_creation` | 1 request, 3 reviews, 1 account, 2 attempts | faithful and current notices, revoked roles, and the refinement of `RequestDecisions` (560 000 states) |
| `push` | 2 notices, one an invite's, the other a misfit on 1 of 2 devices; 1 app removed; 2 attempts, timeout 2, lifetime 3, margin 2 | live access tokens, counted copies, kept registrations, tokens tried (3.7 million states) |
| `rate_limiter` | 2 addresses, 1 proxy, 3 headers, 2 calls; limit 2, window 3, lag 1, 2 keys; liveness | twice the limit at most, silent keys go (59 000 states) |

**Bounds.** Two publishers and one socket are enough for a snapshot with someone who
leaves in between, three sockets for a limit that two of them reach while the third is
refused. A buffer of one is full at once, as one of 256 is after 256 events. The quota of
`phone_codes` is two, so that the last allowed and the first refused case both occur, and
the third request can fall inside and outside the window of the first two. With one
attempt, one verifier's wrong answer kills the code the other has read already. Four token
rows let a chain of two rotations stand beside a second login. With a threshold of 2 and
two moderators two rejections can overlap at the threshold and a third follow. Two
invitations are what a user needs to be invited again; the third user is an admin between
owner and target. Three reviews let a question be followed by two decisions that race;
accounts do not interact, so one is enough. Each mix of `public_requests` sets three operations
that can disturb each other side by side, so that every operation meets the ones that
touch its rows, asked for by the owner, by a platform administrator and by a member without
the right; `Jobs` names the mixes. Automatic mutes meet the author of the comment (`Talkers`). In `push` the
context is the longest the assumption allows for its margin, so the boundary is met; two
devices give a loop that goes on after a failure, two attempts a retry; one token may die
(`Mortal`), the other is the misfit's. All access tokens of the run live equally long; the
proofs have any lifetimes. In
`rate_limiter` a limit of 2 tells twice the limit from the limit, the table of two keys is
full with three clients at the door, and `Lag` lets a call and the sweep hold old readings
together; admissions are remembered for one address (`Watched`). `MaxTime` of `PhoneAuth` is the only
bound that cuts behaviours off: time stops, calls do not. The other bounds are sets of
calls, which are constants of the modules and arbitrary in the proofs.

**Deadlock.** `CHECK_DEADLOCK FALSE` is set where calls are used up: a state in which
every call has ended is final. In `Push` and `RateLimiter` time goes on. Progress is what
the liveness properties check.

**Fairness** is weak, per goroutine. In `Hub`: a goroutine that can run goes on running
(the Go scheduler), reads and writes end by their deadlines (`SetReadDeadline`,
`SetWriteDeadline`), a publishing call and a drain that have begun go on. No fairness is
assumed of peers, of new requests or of a peer that reads. In `RateLimiter`: time passes,
the ticker fires, the clean-up and who waits for the mutex get it; nobody has to send
a request.

### Disagreements and faults

Two runs show what contradicts a document:

- `moderation_readme`: `persistPublication` stores the message or request and its
  pending item together and the content is visible from then on; `src/README.md`
  says it is moderated before it is published and that approved items are published.
- `member_reinvite`: a user accepts, leaves, is invited again and accepts again; the row
  accepted first violates the unique constraint, and the accept fails for ever.
  `src/docs/PROJECT_PROMPT.md` wants private groups to be joinable by invitation.

Three faults contradict only what other lines of the code intend. The modules have the
behaviour, and the properties say how far it goes:

- `rate_limiter`: the branch of `httpapi/server.go:618` that would count an account under
  its own key is dead, since `auth` runs later. `TwiceLimit` holds for addresses only.
  `src/docs/production-security-checklist.md:7` asks for limits by phone number and address,
  which is what there is.
- `push`: the notice of an invite runs with the context of its request
  (`httpapi/server.go:418`), which is cancelled when the handler returns, instead of the
  background context that every other notice has. `EveryTokenTried` excuses a cancelled
  invite and no other cancellation.
- `push`: `isInvalidTokenError` (`push/fcm.go:164`) takes refusals of the notice or of the
  server's credentials for the death of the token and deletes its rows. `LiveTokenKept`
  excuses a misfit notice and no other failure.

## 5. Proofs

Eight modules prove the safety properties below for all values of the constants, from the
named assumption of each module only. In each, an inductive invariant (`Inv`; `IInv` in
`Hub` and `Push`; `SessionInv` for the sessions), which TLC agreed with first, has a lemma
per action, or per group of actions that change the same variables; the theorems follow
by PTL. Every one also proves `TypeCorrect`, that the type invariant holds.

| Module | Theorems about | What the invariant adds |
|---|---|---|
| HubProofs | `IndexesAgree`, `ClosedIffUnregistered`, `SurvivorsCameLater`, `NoSilentLoss`, `MailboxesKept`, and that no slot leaks | which stages of handler, reader and writer go together, e.g. that a pump that has ended has unregistered, that what `CloseAll` still has to close contains everyone registered since before, and that a client a call has still to serve was in a snapshot. The limits of `Mailboxes` are kept since the agreement of the maps makes the checks of `Register`, each on its own map, checks of the connected set (`Crowds`) |
| PhoneAuthProofs | `CodesSpaced`, `WindowQuota`, `LoginLostOnlyToRace`, `ExhaustedStaysDead`, `OneTimeCodes` | the order of the three times of a request, what a verifier past its read knows of its code, one login per code, and that attempts equal the wrong answers. The quota rests on counting lemmas about finite sets |
| PhoneAuthProofs, sessions | `OneSuccessor`, `OneLivePerLogin`, `LogoutStopsRotation`, `OneTokenAtATime` (instances of `RefreshSessions`) | that a rotated row is revoked, so a rotation that still finds it live is the first, and that a row given to an answered logout stays revoked |
| ModerationProofs | `RejectedGone`, `DecisionFinal`, `ReviewerIsModerator`, `MuteEarned`, `AutoMuteApplied`, `ReviewsAtomic` | that an item under review is pending, held by one reviewer, with a live resource no other review removes; that a resource is created only for a post without one; that what a transaction counted is rejected for good, and that it counted its own rejection (`OwnCounted`) |
| MembershipProofs | `OneOwner`, `InvitedIn`, `AnswerFinal`, `RemovalJustified`, `InviteJustified`, `RosterKept` | that what a call read still holds unless it raced, that an open accept holds a pending invitation nobody else holds and never inserts the owner, that a deleted group has no rows. The roster needs two conjuncts more (`RosterInv`): one pending invitation per user, and that the target of an accept that will insert is still outside |
| PublicRequestsProofs | `PostingJustified`, `ModeratingJustified`, `RejectedCommentGone`, `TallyExact`, `CommentsReviewed` | for each stage of a call, which rights it has had by then (`Passed`); that only a posted comment has an item (`CommentsPosted`). The tally needs an invariant of its own, `TallyTrue`: without overlap there is one voting call under way, and its counts are those of the table as it leaves it |
| GroupCreationProofs | `NoticeFaithful`, `LastNoticeCurrent`, `RevokedAtLogin`, `DecidedOnce` | that a request is approved exactly when a group was made for it, that a final verdict that committed is the status, that an account off the list has no role left to resolve; `NoticeDue`, that a notice due alone says the status |
| PushProofs | `AccessTokenLive`, `CopiesCounted`, `LiveTokenKept`, `EveryTokenTried` | that what a notice holds for an invalid token is dead, or refused as a misfit (`RefusalsReal`), that an access token outlives the context it is used with and the cache is ahead of it by less than a timeout (`AccessEnough`), and what is known of the tokens at each stage (`Phases`) |
| RateLimiterProofs | `TwiceLimit`, and that a request is counted for the address that sent it whatever header it carries | that the ages are in order, that an entry's count says how many of them fall into its window, which began no longer ago than the entry says, and that what the window before it admitted is older than the span |

The seven refinements are proved as `HubKeepsMailboxes`, `CodesAreOneTime`,
`SessionsAreLogins`, `ReviewsAreAtomic`, `CommentsAreReviewed`, `RosterIsKept` and
`DecisionsOnce`: the initial states map to initial states, and under the invariant every
step maps to a step of the abstract specification or leaves its variables alone.

A run checks the refinement where it says more than a property does, and such a property
stays as a theorem: `ClosedIffUnregistered`, `OneLivePerLogin`, `DecisionFinal`,
`AnswerFinal` and `RejectedCommentGone` are proved and in no run of their own; the seeded
faults that broke them break the refinements.

**Assumptions.** `Push` needs every lifetime of an access token to exceed `Timeout`, and
`Margin + 2 >= 2 * Timeout`: the code has about an hour, ten seconds and five minutes. `RateLimiter` needs `Lag < Window`: a call
waits for the mutex for less than a window, which is a minute. `Hub`, `PhoneAuth`,
`Moderation` and `PublicRequests` need finitely many sockets, requests, posts and users,
which are counted. The rest asks for distinct names, natural numbers and well-formed
constants.

**Only model-checked.** The liveness properties (`DeadPeerUnregistered`,
`ClosedSocketWindsDown`, `PublishEnds`, `DrainReachesEveryone`, `SilentKeyForgotten`), since
the prover treats neither fairness nor ENABLED. Every other property of a run is a
theorem. No module declares a RECURSIVE operator.

## 6. What is not shown

Not modelled, or only in part:

- Rules and providers of moderation, learned rules: any verdict may come out, so what
  they match, and what a decision teaches them, changes nothing in the modules.
- Push: payloads, texts, and the signing of the assertion for the token endpoint.
- The hub's client: its message limit and the token in a refresh message.
- The server's start and `http.Server.Shutdown`; the drain and the synchronisation of
  the allowlist are modelled. Migrations run before the server; the tables and
  constraints they create are the state of the modules.
- Files, avatars, pages, statistics, profiles: single rows, reads, or input and output.
- Lists and searches, and the validation of the fields of a request: they only read.
- Configuration, logging, signing, hashing, SMS: pure functions and outside services.

Taken for granted:

- PostgreSQL is taken to do what READ COMMITTED, row locks, unique indexes
  and advisory locks promise; Go's mutexes, channels and scheduler likewise.
- Several server processes: the database steps are the same, but each process has a
  hub and a limiter of its own, so events reach only clients of the publishing process.
- FCM refuses a notice with a class of `isInvalidTokenError` only for a dead token or for a
  misfit, and a 429 or 5xx means that it has not taken the notice; the token endpoint
  grants the lifetime its answer names. `Push` states these in its header.
- Contents: texts, codes, hashes, tokens, JSON, phone formats, SQL text.
- Real time: durations are an order of events, or units in `PhoneAuth`.
