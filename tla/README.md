# A verification development of aa-chat

aa-chat is the backend of a chat: NestJS on Node.js, PostgreSQL behind Prisma,
Redis for presence, Socket.IO for real-time events, Elasticsearch for search, S3
for files and web push for notifications.  The modules here model the parts of
it that keep state others rely on, TLC checks them on small instances, and TLAPS
proves the main properties for every value of the constants.

## How the code runs, and how that is modelled

All services are asynchronous TypeScript in one process.  A request handler runs
without interruption between two `await`s; at each awaited call the handlers of
other requests run.  A Prisma call is one atomic step of the database, and so is
a `$transaction`.  Almost every operation first reads a row and checks it, then
writes the row by its id without repeating the check.  That makes the awaits the
interesting points, so the modules share one form:

- the tables are functions (`role`, `status`, `parent`, ...), one per column;
- a request in progress is a record in a slot, `req[r]`: `pc` names the next
  awaited call, the other fields are the handler's local variables that live
  across an await.  The number of slots is the number of requests in progress;
- the first step of a handler (`Arrive`) takes the client's arguments from a set
  and performs the handler's first read, every later step (`Continue`) is one
  awaited call with the code up to the next one;
- a handler that throws frees its slot (`Finish`), what it wrote stays.

With one slot the requests are sequential, with two they interleave.

## Inventory

| component | source | state | operations | hard parts |
| --- | --- | --- | --- | --- |
| Room membership | `src/room/room-members.service.ts`, half of `rooms.service.ts` | RoomMember rows (role, leftAt, isMuted), RoomInvite rows, isArchived | create a group, addMembers, updateMember, removeMember, leaveRoom, transferOwnership, invites, archive | check and write in different calls; rows that survive leaving; limits |
| Rooms | `rooms.service.ts` | Room rows | create, update, archive, unarchive | events emitted before the write, or not at all |
| Direct messages | `rooms.service.ts` | rooms of two members | find or create | duplicates that no constraint prevents |
| Messages | `src/messages/messages.service.ts` | Message, MessageRead, unreadCount | create, softDelete, markAsRead, markRoomAsRead | derived counters updated outside transactions |
| Message content | same | content, MessageEdit, MessageReaction, MessagePin | update, toggleReaction, pin and unpin | an edit racing a delete |
| Search | `src/search/` | the Elasticsearch index | six event handlers, reindex | unordered writes that may be lost |
| Gateway | `src/gateway/chat.gateway.ts` | sockets, socket rooms, typing timers | connect, disconnect, join, leave, typing | sockets against memberships; timers |
| Presence | `src/gateway/presence.service.ts` | Redis: sockets of a user, presence key with a TTL; User.status | connect, disconnect, heartbeat, setStatus | three stores written one after the other; expiry |
| Auth | `src/auth/auth.service.ts` | RefreshToken rows | register, login, refresh, logout | rotation; reuse; several sessions of a user |
| Notifications | `src/notifications/` | Notification, PushSubscription | fan-out, push, subscribe | stale online check; partial failure |
| Files | `src/files/` | the bucket, File rows | confirm, upload, delete | two stores |
| Users | `src/users/` | User, UserSettings, UserBlock | profile, settings, blocks | none across requests |
| Plumbing | `src/common`, `src/config`, `src/health`, `src/main.ts`, `src/database` | none | | |

How they meet: the gateway and the controllers call the same services.
RoomMembers decides who may post and read; Messages writes `unreadCount` into the
RoomMember rows; Messages, Rooms and Users emit in-process events that Search
turns into index writes nobody awaits; Messages starts Notifications without
awaiting them, and these ask Presence who is online.

What makes each correct: membership, that roles mean what the comments say and
that every admission is authorised; messages, that the derived counters agree with
the rows and that threads keep their shape; search, that the index converges and
deleted content stays deleted; presence, that a connected user is online; auth,
that a refresh token is used once; notifications, that an offline recipient gets
a push or an unsent mark.  The hazards are listed one by one in `PROJECT.json`.

## Modules

| module | what it is |
| --- | --- |
| `RoomMembers` | membership and invites of one room |
| `MCRoomMembers` | the same for TLC, with its symmetry |
| `RoomMembersProofs` | theorems about it |
| `Messages` | threads, soft deletes, receipts and unread counters of one room |
| `MCMessages` | the same for TLC |
| `MessagesProofs` | theorems about it |
| `MessageContent` | content, edit history, reactions and pins, with the index of messages |
| `MCMessageContent` | the same for TLC |
| `MessageContentProofs` | theorems about it |
| `Post` | what the API promises of a message: the abstract specification of `MessageContent` |
| `SearchIndex` | one Elasticsearch index behind unordered, lossy writes; instantiated by `MessageContent` and by `Rooms` |
| `SearchIndexProofs` | what such an index is on its way to hold; lemmas for both |
| `Auth`, `MCAuth` | accounts and sessions |
| `AuthProofs` | theorems about it |
| `Presence`, `MCPresence` | who is online, in three stores |
| `PresenceProofs` | theorems about it |
| `ChatGateway` | sockets, socket.io rooms, typing timers |
| `Rooms` | name and archive flag of groups, with the index of rooms |
| `DirectMessages` | the direct messages of a pair |
| `RoomsProofs` | theorems about rooms and direct messages |
| `Files` | bucket and table |
| `Notifications` | notifications and web pushes of one recipient |
| `Services`, `MCServices` | those five in one run, one at a time: gateway, rooms, direct messages, files, notifications |
| `ServicesProofs` | theorems about gateway, files and notifications, each by itself, and the types of the five |

### RoomMembers

A row is `role[u]`, `active[u]` (leftAt is null) and `mute[u]`; leaving or being
kicked clears `active` and keeps the rest, as the code does.  `role[u] = "none"`
means there is no row.  An invite goes from unused to open, and from there to
expired or deleted; `Expire` is the clock passing `expiresAt`, at any moment.
The actions carry the names of the methods: `LeaveRoom`, `LeaveRoomCount` and
`LeaveRoomWrite` are the three awaited calls of `leaveRoom`.  The rejoining
updates of `addMembers` run under `Promise.all`, so each is a step and their
order is free.  The transaction of `useInvite` rolls back when the invite's row
is gone.  Creating a group is one insert plus `addMembers`, called with the
initial members; the constant `RoleInputs` is what a PATCH may carry, which by
UpdateMemberDto is any role, "owner" included.

Left out: `mutedUntil`, `nickname`, the room's name and description, and the
listings.  The room is a group or a channel.

### Messages

One room and its members; `active` and `admins` say who is in it and who has a
role above member.  They change by `ComeOrGo` and `ChangeRole`, which stand for
the operations of RoomMembers; whoever comes back is a plain member.  A message has a status, a
sender, a parent and a reply count.  `delete` is modelled with both its entry
points: the controller, which reads the message, the membership and, for a
message of someone else, the role; and the socket event, which calls
`softDelete` at once.  The decrement of the parent's count is a call of its own,
which may fail (`DecrementFails`) or never come (`Crash`).  Reading is modelled with
the receipts of one message, the batch of `markRoomAsRead` (`ReadBatch` is its
`take: 500`) and the reset of RoomMembersService.markAsRead.  markAsRead takes the
room from the request and never compares it with the message's: the receipt may be of a
message of this room and the reset of another room, or fail because the user has no row
there (`MarkAsReadElsewhere`), or the reset may be of this room for a message of another
(`MarkOtherAsRead`).  The reset may fail after the receipts are written
(`ReadResetFails`).  Two controllers
declare `POST rooms/:id/read`; which one answers depends on the order of their
registration, so both are modelled.

Five variables are history only: `failures` bounds the failures; `lost`,
`redeleted`, `repeated` and `astray` record what the drift of the counters is
made of; `astray` holds a user's receipts that no reset has followed.  No guard but the bound on failures reads them.

Left out: the content with its edits, reactions, pins, files and notifications,
which no action here reads; mutes, which only refuse a message.

### MessageContent, SearchIndex and Post

The rows of one room's messages: `status`, `sender`, `content`, `edits` (the
previousContent of the MessageEdit rows), `reactions` and `pins`.  The actions are
the methods of MessagesService (`Update` and `UpdateWrite` are the two steps of
`update`, and so on), reached by the socket events and by the routes of the
controller, which differ: only the route lets an admin delete someone else's
message.  The write of an edit does not repeat the check that the message is
there, so `UpdateWrite` may hit a deleted one; the field `late` of a request is
history that names the requests this may happen to.

`SearchIndex` is one index: its documents, the writes on their way to it (a set:
nobody awaits them, they arrive in any order, and one that fails is logged and
forgotten) and a reindex that holds the rows it read.  A partial document is
merged, or becomes the document where there is none (`doc_as_upsert`).
`MessageContent` and `Rooms` instantiate it with their rows, and send a write in the
action that emits the event.  `SearchMessages` and `SearchRooms` are the two ways
SearchService answers, by Elasticsearch and by the fallback to PostgreSQL.
`sent`, `arrived`, `lost` and `disordered` are history, by which the properties say
when index and table must agree.

`Post` is the abstract specification: a message is published once; its text changes by
changes accepted while it was up, and once taken down it is not found again.  It has
two views, because the code has: `shown` is what a reader gets who asks for a message
(`Shown`: findById, history, thread and edit history, which do not find a deleted one),
`listed` is the text in lists that do not look at isDeleted (`Listed`: getPinnedMessages
and the last message of each room in the list of rooms).  A message taken down has no
text there, but a change accepted before and written late puts one there again, each
accepted change once (`open`, mapped to the edits and deletes past their checks).
What a search finds is not part of it: the index follows in its own time, and
`IndexAgrees`, `EditsNeverResurface` and `DeletedLeavesSearch` say how.

### Auth

A session is a RefreshToken row: `state`, `owner`, `device` (address and user agent, either
of which a client may lack) and `token`, whose hash it holds.  `Register`, `Login`, `Refresh`,
`Logout`, `LogoutAll` begin the requests; `StoreFind` to `StoreClean` are the calls of
storeRefreshToken, shared by three of them.  Its search is for the user's open sessions at the
address (`Reusable`); it compares the user agent only if the client has one (`Fits`), so a
client without takes over any session at the address, and it is left out for a
client that has neither (`Anonymous`), who gets a new session every time.  Which session
`findFirst` returns is left open.
`Matches` is bcrypt: it compares 72 bytes, and the first 72 bytes of all refresh
tokens of a user are the same, so the comparison never tells two of them apart,
and `RevokeAll`, the answer to the reuse of a token, is reached by logging out
everywhere only.  `Expire` is the clock, `Fail` a failing call or a restart.

### Presence

The three stores of PresenceService, `sockets`, `presence` with its `lease`, and
`dbStatus`, plus `told`, what the user's rooms heard last.  Every socket has a connect
and a disconnect handler, one step per awaited call, which may overlap; events
of the client (`UpdateStatus`, `Heartbeat`) and PATCH /users/me come in between.
`Lapse` is the time to live of the key, in two halves so that a heartbeat can be
in time; `Crash` cuts off every handler and socket.  `mixed` and `cutShort` are
history: users of whom handlers overlapped or broke off, and sockets whose own
did.

### ChatGateway, Rooms, DirectMessages, Files, Notifications

`ChatGateway`: a handler reads the membership and joins the socket in a later
step; typing timers run down (`Elapse`) and call back (`TypingTimeout`).
Memberships begin and end at any time, as RoomMembers lets them.

`Rooms`: update and archive emit their event with a lazy Prisma query in hand,
so `UpdateEmit` comes before `UpdateRow`, and a failure in between leaves the event
sent; unarchive emits none.

`DirectMessages`: `FindDm` finds no open one, `CreateDm` makes it, a call later.

`Files`: `objects` is the bucket, `fileRow` the table.  Thumbnails are objects like others, with
keys of their own (`ThumbnailKeys`): a client who knows one, as every reader of a message with
an image does, may confirm it as a file, and deleting that file takes the thumbnail
away from the image (`severed`, history).  An upload
writes thumbnail, object and row; a delete goes the same way and stops wherever
a call fails.  Clients upload by a presigned URL as often as they like until it
expires, and may confirm any key that exists, more than once.  The thumbnails of all names without an
extension share one key, as `slice(0, -0)` leaves nothing of the name.

`Notifications`: one recipient, several messages and devices.  The steps of a
notice are those of processRecipient and notifyMention; the devices are pushed to at once;
one that answers 404 or 410 is deactivated.  Presence and the reachability of a
device change at any time.

`Services` has these five in one run, one at a time.  They share no variable, and what one
needs of another its module lets change at any time, so a step of one neither
enables nor disables a step of another; `active` picks the service whose
behaviour is looked at, and the product of their states is not enumerated.  Nothing is
claimed of several services at work at once; each theorem of `ServicesProofs` and `RoomsProofs`
is about the specification of one service.

## Runs

| run | cfg | question |
| --- | --- | --- |
| `members_sequential` | `MCRoomMembersSequential.cfg` | do the rules of roles, mutes and invites hold over every sequence of requests? |
| `members_concurrent` | `MCRoomMembersConcurrent.cfg` | what holds of joining when requests interleave? |
| `mute_doc` | `MCRoomMembersMute.cfg` | is muting for admins, as the API's summary says? (it is not) |
| `owner_race` | `MCRoomMembersOwnerRace.cfg` | can a room lose its owner to a race? (it can) |
| `messages_threads` | `MCMessagesThreads.cfg` | threads, reply counts and deletes |
| `messages_unread` | `MCMessagesUnread.cfg` | unread counters against receipts |
| `content_rows` | `MCMessageContentRows.cfg` | history, wiping and freezing of messages; do the rows keep the promise of `Post`? |
| `content_index` | `MCMessageContentIndex.cfg` | when does the search agree with the table, and does a deleted message leave it? |
| `auth` | `MCAuth.cfg` | rotation, duplicates and revocation of sessions |
| `auth_logout` | `MCAuthLogout.cfg` | does a logout end the session of its device? (not always) |
| `presence` | `MCPresence.cfg` | what do the three stores agree on, and is who stays away seen to be away? |
| `services` | `MCServices.cfg` | the other five services, one after the other |

`members_sequential`: three users, one slot, one invite with any of maxUses null,
1 and 2, and every role a PATCH may carry.  Three users are an owner, an admin
and a member, so every pair of roles meets, and transfers can go on in a ring.
The owner role grows only by a PATCH that gives it; the last owner never leaves
others behind; only the owner (or leaving) ends an admin's role; a mute survives
leaving and returning; a use of an invite is not spent on a member.

`members_concurrent`: two slots.  An invite is used at most `maxUses` + 1 times:
the bound is met, so the code does exceed the limit, and never by more than the
requests in progress explain.  Everyone who enters is a plain member, and enters
by addMembers or by a counted use of an invite that still exists.  PATCHes carry
nothing here, which keeps the run small: they change roles and mutes, while a
transfer makes the admins who return.  Neither changes who may enter.

`owner_race`: the same, and PATCHes may give the admin role.  Someone is added after the leaving owner
counted the others and before leftAt is written; the room is left with a member
and no owner.

`mute_doc`: one slot.  A plain member mutes a member: `updateMember` compares
roles only when the PATCH carries one.

`messages_threads`: two users, one of them promoted and demoted at any moment, three
messages, two slots, one failure.  Three messages are a thread with two replies
(or a chain, if the check of the parent failed).  Two slots make a delete race a
reply, and two deletes race each other.  One failure is a lost decrement or a
crash.  Nobody leaves here, to keep the run small; `messages_unread` has the
coming and going.

`messages_unread`: two users who read, of whom one posts and deletes and the other leaves
and comes back; two messages, two slots, one failure (a crash, or a reset that throws).  With
`ReadBatch = 1` the second unread message is beyond the batch.  The counter may well be
lower than the messages without a receipt (it is reset wholesale, and by requests for
messages of other rooms): the property is that it is never higher than those and the
messages whose receipt no reset has followed since the counter was last reset.

`content_rows`: an author and an admin, one message, two texts, three slots, so that
an edit, a delete and a second edit, reaction or pin meet.  After the delete nothing
changes but by requests that had already read the row; the original text is in
the history however edits overlap; and readers see what `Post` promises, in
both of its views.  Two
edits in progress do lose the text between them, which no property denies.  One message
is enough: no action reads a second one.

`content_index`: the same without reactions and pins, two slots, the index enabled, one write lost, one
edit, a reindex at any moment.  The search of both engines agrees once all writes of a message have
arrived in order and no reindex holds an older row: a lost, an overtaken or a
reindexed write is the only reason for a difference.  No edit brings a deleted
message back into the results; a first write that arrives late, or a reindex
that read the row before, does.  A deleted message leaves the search for good,
or one of its writes was lost or overtaken.

`auth`: three kinds of clients (address and user agent, address only, neither), two slots,
three sessions, three tokens.  One user, who comes back as often as the tokens allow, uses
all three; the other, who only registers, shares the address (`Uses`, `Returning`).
Requests in progress together may duplicate a session of a client that has an address or a
user agent, or rotate one twice, never more often than there are requests; a client without
either has no such bound, as the code does not look for its session.  A revoked session stays
revoked although a login that found it open goes on to write it; a shared address does not mix
users.

`auth_logout`: a user with two devices, one slot.  The logout of one device ends
the session of the other, because bcrypt does not see the part in which the
tokens differ.

`presence`: one user, two sockets, one of which chooses a status, one restart, a
PATCH to "offline".  Two sockets are enough for a connection to overlap the disconnection
of another and that of itself.  The set of sockets is exact but for sockets cut
off by a failure or dropped while connecting; where no handlers overlapped the
stores agree; and whatever happened, a user who stays away is without a presence
key in the end, so that pushes go out again.  That the set and the status column
may be wrong for good is what `cutShort` and `mixed` exempt.

`services`: one user with two sockets in one room; two requests on one group, whose
index loses no write (`content_index` has the losses); three rooms and two requests of a
pair; two file requests on three keys, two of them without an extension, and clients that
upload to the third and confirm it or its thumbnail; one message to a recipient with two devices and a second user of them.
A socket that hears a room without membership joined before the membership ended;
typing stops, or a disconnect cleared the timer and left the indicator; a search
of rooms agrees with the table but for unarchived rooms and changes that overlapped
or failed; a pair has at most as many open direct messages as requests overlap;
bucket and table agree but for work that is under way or broke off and for thumbnails someone
made files of; a push reaches every device that was reachable all along and is recorded, if no
call of the database or Redis fails before.  The services run one at a time.

Deadlock is not checked, because the modelled systems may stop: a room that all
have left, all the messages of the bound posted and deleted, all sockets closed.
Bounds: the sets in the cfgs; `UnlimitedBound`, the uses tried of an invite without
a limit; `MaxFailures`, `MaxLosses`, `MaxRoomLosses` and `MaxCrashes`, the faults;
`MaxEdits` and `MaxRoomEvents`, how often a row changes; `Choosers` and `Patched`, who sends status
updates and which are patched; `ClientKeys`, the keys clients upload to or confirm; `Uses` and `Returning`, who uses which client; one event handler at a
time of a user (Presence) and of a socket (ChatGateway).  Each is above what the
hazard it bounds takes: one loss, one restart, two overlapping requests.
Symmetry is declared where values are interchangeable and the run has no
liveness property.

### Fairness

Three runs check liveness, each under what the code relies on.  `content_index`: a call
of Elasticsearch ends, answered or by its requestTimeout, as arrival or as loss;
nothing is said of requests or reindexes, which may never come or stop half-way.
`presence`: a handler that has begun goes on, since Redis and the database answer
or the call fails, and Redis drops a key nobody renews; no client is bound to do
anything, and heartbeats only come from open sockets.  `services`: a timer of the
process runs down and calls back.  All of it is weak fairness.

## Proofs

Every invariant and every action property of the passing runs is a theorem, for
all values of the constants that satisfy the named assumptions of the modules.
Nothing else is assumed; that a database call is atomic is part of the models.
An invariant is seldom inductive as it stands, so each proof has a
strengthening that says what is true between the calls of a handler, and
one lemma per action that keeps it.

`RoomMembersProofs`, from `ConstantsAssumption`:

- `TypeCorrect`: `Spec => []TypeOK`.
- `OvershootBounded`: `Spec => []InviteOvershootBounded`.  The bound is not
  inductive: between check and increment a request holds a promise to count.
  The invariant adds, for every invite, the number of slots in flight towards
  its increment: uses plus requests in flight stay below `maxUses` plus the number
  of slots.  Beginning one more needs a free slot and a use left, counting one
  moves a unit from the second term to the first.
- `OwnerUnique`: with one slot and no PATCH giving "owner", `Spec =>
  []AtMostOneOwner`.  The invariant adds that the actor of a transfer in
  progress is the owner.  Both assumptions are needed: with two slots two
  transfers end in two owners.
- `ComesInPlain` (`JoinsAsPlainMember`), `EntriesAreCounted` (`AdmissionIsCounted`) and
  `MutesSurvive` (`MuteSurvivesRejoin`), for any number of slots: eight steps write
  rows of members (`RowWrite`), and only three of them let a user into a room that exists
  (`Entries`).  That a counted use is of an invite that exists rests on `LinksOK`.
- `OwnerStays` (`OwnerNeverAbandons`), `AdminsAnswerToOwners` (`OnlyOwnerManagesAdmins`),
  `OwnersGrowByPatch` (`OwnersGrowByPatchOnly`) and `UsesAdmit` (`EachUseAdmitsOne`), with
  one slot (`Sequential`) and whatever roles a PATCH may carry.  No write of these
  handlers repeats the checks made before it; `Informed` says of each slot what
  its checks have established, and with one slot it is still so when the slot
  writes.  With two it is not: the actor of a kick may have been demoted and the
  target of a transfer may have left.  So the hypothesis stays in the theorems.

`MessagesProofs`, from `ConstantsAssumption`:

- `TypeCorrect`.
- `ThreadsFlat`: `Spec => []OneLevelThreads`.  The strengthening `ThreadInv` says of
  each slot what stays true of the message it holds: the parent found by a
  reply's check still exists and is in no thread when the reply is written,
  because `parentId` is written once, at insertion.
- `ReplyCountsAccounted`: `Spec => []ReplyCountAccounted`, on top of `ThreadInv`.
  Each step moves one unit between live replies, slots that owe a decrement,
  lost decrements and repeated deletes.
- `RedeletesAreBounded`, where there is a slot: `Spec => []RedeletesBounded`.  Once a
  message is deleted no slot sets out to delete it, so what remains is to count,
  per message, the repeated deletes plus the slots between check and write: they stay
  below the number of slots, because the first delete has used up one.
- `UnreadIsBacked`: `Spec => []UnreadBacked`.  The invariant adds that receipts, and
  the batches `markRoomAsRead` carries, are of messages that exist: so a new
  message is unread by all others, and each increment has a message behind it.  A receipt
  takes a message from those the counter may count only when its reset has come, and
  the reset takes the counter to zero; a reset that fails, dies or hits another room moves the
  receipt to `astray`, where it still counts until the next one.
- `RightUsersDelete`: `Spec => DeletedByRightUser`.  The invariant (`RightInv`) adds that
  `isAdmin` was only given to someone who has or had a role, and that a slot about
  to write has the sender or such a user: it lasts since a message keeps its sender.

`SearchIndexProofs` is about any index the two indexed modules instantiate.
`Tracks(d, t)` says that document `d` is on its way to be `t`: of each field, the last
write under way that sets it has `t`'s value, or none sets it and the document has the
value already; or else a write of `d` was lost or overtaken.  A reindex counts as one
more write, of the row it has read.  Lemmas keep `Tracks` when a write is sent
(towards the new target), arrives or is lost, and while a reindex starts, writes and ends;
`SettledIs` draws the conclusion once nothing is under way.

`MessageContentProofs`, from `ContentAssumption` and `KeepAssumption` (the mark of a field
that a partial update leaves alone is not a content).  `RowsInv` says what an edit
and a delete may still rely on when they write (`Carries`): the message exists, and what
an edit read is the original if nobody has edited since.

- `ContentTypes`: `Spec => []TypeOK`.
- `OriginalIsKept`: `Spec => []OriginalKept`.
- `DeletedStaysFrozen`: `Spec => DeletedIsFrozen`.  A request past its check of the message
  is marked late by the delete, or the message is still live.
- `PromiseKept`: `Spec => KeepsPromise`, the refinement of `Post`.  A check accepts a change, a
  post publishes, an edit of a live message changes both views and a delete takes it down;
  an edit of a deleted message is a late change of the list alone, which the step may take because the
  request is still open; everything else is a stutter.
- `SearchesAgree`: `Spec => []IndexAgrees`.  The target of a message's document is read off
  its row; each row write sends the index write that moves `Tracks` to the new target.
- `EditsDoNotResurface`: `Spec => EditsNeverResurface`, since the writes of edits say
  nothing of the flag and only a first write or a reindexed row sets it.

`AuthProofs`, from `AuthAssumption`.  `SessionInv` follows each request from the call
that decides whose token it holds to the call that stores it; it lasts
because a token is signed once and a row keeps its owner.

- `TypeCorrect`, `SessionsKeepTheirUser` (`SessionKeepsItsUser`), and
  `RevocationIsFinal` (`RevokedIsFinal`, from the types and each step).
- `RotationsAreBounded`: `Spec => []RotationsBounded`.  The refreshes that have revoked a session and
  those that have found it open and will revoke it are together no more than the requests:
  none sets out once it is revoked.
- `DeviceSessionsAreBounded`: `Spec => []DeviceSessionsBounded`, for devices that are not
  `Anonymous`.  A device's live sessions and the
  requests about to create one are together no more than the requests, because a request
  sets out to create one only where it found none live; an expired session that a request
  has found and will renew counts as live.

`PresenceProofs`, from `PresenceAssumption`:

- `TypeCorrect`.
- `OpenSocketsCounted`: `Spec => []SocketsCounted`.  `Counted` says where in its
  handlers a socket is in the set; other sockets of the user add and remove themselves only.
- `StoresAgree`: `Spec => []PresenceAgrees`.  Of a user none of whose handlers overlapped or
  broke off at most one handler runs (`Solo`), and how far it is says what key, row and
  set hold already (`UserOK`); that the last socket leaves an empty set is
  `OpenSocketsCounted` again.

`RoomsProofs`, about rooms and direct messages by themselves:

- `RoomTypes` and `RoomSearchesAgree`: `RoomsSpec => []RoomIndexAgrees`, from `RoomsAssumption`.  The code
  tells the index before it writes the row, so what the index is on its way to be
  follows from the row and from how far the one request on the group is (`Target`); groups
  with two requests at once are muddled, and the property says nothing of them.
- `DmsAreBounded`: `DmSpec => []DmsBounded`, from `DmAssumption`.  Open rooms and requests that will
  create one are together no more than the requests there are; a request finds none only
  where no room is open.

`ServicesProofs`, about three services, each by itself:

- `MembersHear`: `GatewaySpec => []WhoHears`, from `GatewayAssumption`; the rooms a handler has read
  and not yet joined are counted in (`HearInv`).
- `BucketMatchesRows`: `FilesSpec => []StorageMatchesRows`, from `FilesAssumption`.  `StorageInv` says what a request
  under way on a key has done and what the others on it have not: an upload is alone on its key,
  a confirm has found an object or been crossed by a delete.  Of a request on a thumbnail's key it says that
  it makes no thumbnail, and of the rows of such keys that they name none: what it may
  do to a file is to sever its thumbnail.  Of the object behind such a row nothing is claimed.
- `AwayGetsPush` and `PushesHaveRows`: the invariants `AwayIsPushed` and `PushesAreRecorded`, from
  `NotificationsAssumption`.  While a notice is processed a device without an excuse can still have the
  push, is to be tried or has it; `NoticeFails`, a failing call of the database or Redis, excuses all.
- `ServiceTypes`: the types of all five in the specification of the run, `Services`, where a step
  of one is a stutter of the others.  Their safety is proved service by service.

Model-checked only: `DeletedLeavesSearch`, `AwayIsNoticed` and `TypingStops`.  They are
liveness under fairness, which is out of the prover's reach.  Of the properties that runs show
violated, `OwnerNeverAbandons` is proved for one request at a time (`OwnerStays`) and refuted by
`owner_race` for two; `MuteByAdminsOnly` and `LogoutOnlyThisDevice` fail with one request already.
`AtMostOneOwner` is proved and in no run.

## Hazards without a property

`PROJECT.json` lists the hazards with the properties that would notice them.  Of some there is nothing
to claim, because the code does not prevent them: two transfers at once; two joins of a user spending two
uses; a role that was lost before it is used; a room event that precedes a failing write, and the
unarchiving that sends none; the refresh that rotates another device's session; a key deleted
by the disconnect of one socket while another connects; the PATCH of a status; typing timers
cleared by a disconnect; the socket of a kicked member; a push counted as sent to a device that is gone.
Where a property's comment exempts such a case (`PresenceAgrees`, `RoomIndexAgrees`, `TypingStops`, `WhoHears`,
`PushesAreRecorded`), it says nothing about the hazard, and shows that there is no other way for it to fail.

## Not modelled

Profiles, settings and blocks (single-row writes; blocks are stored and consulted
by nothing that sends messages), the index of users (the same calls as for rooms), slugs,
descriptions and avatars, mutedUntil, listings and the building and scoring of
search queries, image processing, texts of notifications, HTTP plumbing,
configuration and health probes.  NotificationsService.notifyReaction,
PushNotificationsService.sendToUsers and PresenceService.getUserIdFromSocket have no
caller.  Rate limits are those of the framework.  Two server processes at once
are not modelled: `Crash` is the restart of the only one.

## Plan

What is left, in this order:

1. Presence and Notifications in one module, in place of `PresenceChanges`.
2. An abstract `Membership` (who is in, in which role) that RoomMembers implements, with the
   refinement proved.
