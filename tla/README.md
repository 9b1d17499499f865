# Verification of the terminal chat application

TLA+ models of the C++ chat server, its client, its database and their protocol, the TLC
configurations that check them on small instances, and proofs checked by TLAPS
for every value of the constants.

## The system

| part | state | operations | talks to |
|---|---|---|---|
| `main` of the server | listening socket | accept, start a detached thread | handlers |
| `handle_client`, one thread per connection | its socket, user, room, read buffers | authenticate, enter, one handler per message type, leave | `clients`, the database, every socket it writes to |
| `clients` | vector of (socket, username, room) under `clients_mutex` | push_back, set_room, erase, searches | all handlers |
| `ChatDatabase` | one SQLite handle under `mutex_`, tables `users` and `messages` | open, register, authenticate, add, recent, list rooms | handlers |
| framing (`protocol.cpp`) | bytes in flight, the reader's buffer | send_all, send_frame, extract_frames, read_next_frame | both programs |
| message codecs | none | encode and decode records | both programs |
| names, limits, command lines | none | trim, valid_username, sanitize_room, dm_room_key, limit parsing, commands to requests | both programs |
| client | connection and authentication flags, user, room | connect, input thread, receive thread, shutdown | framing |
| SHA-256, salts | none | hashing | database |

What is hard here: handlers share `clients` only in short critical sections and
use what they copied after the lock is released; file descriptors are process
wide and are reused as soon as they are closed; several threads write to one
socket; a blocking `send()` waits for a peer, and to a peer that is gone it fails
without anybody looking at the result; storage may fail half-way through
a handler; joins, notices, history and broadcasts interleave. The hazards are
listed with their lines in `PROJECT.json`.

What makes each part correct: `clients` matches the handlers; nobody in a room
misses a message of it; notices tell the truth; what is shown is stored or its
author knows better; a leaver's descriptor is released; frames arrive whole, in
order, once, whatever TCP does to the stream; a database call happens at once or
not at all; records, names and commands mean the same to both programs.

## Modules

* `ChatDatabase`: the two tables and the statements of the methods. Each method
  holds `mutex_` throughout, so each is one operator used inside one step, which
  `DatabaseHandle` shows to be right. A
  password stands for its digest, the key `dm:a:b` for the set `{a, b}`. If
  `StorageFails`, any statement may fail; a query that fails returns a prefix.
* `ChatServer`: `main` and `handle_client`. `pc[c]` is where the handler of
  connection `c` is (`none`, `auth`, `enter`, `loop`, `leave`, `close`, `done`);
  `fd`, `user`, `room` are its locals; `owner` is the process's descriptor table.
  Reading a frame puts the calls the handler will make into `todo[c]`; the
  `Call...` actions make them one at a time, so that other threads run between any
  two accesses to shared state: a critical section, a database call, one
  `send_frame`. `broadcast_to_room` is therefore one step for the copy and one
  step for each recipient. What the code does under `clients_mutex` only touches
  memory: nothing in there blocks, so a critical section is one step and the mutex
  is no variable; nothing is claimed about waiting for it. A `send()` may not
  succeed: `lost` are the peers that are gone, to which it fails (as it does on a
  closed descriptor) and the caller goes on as if it had not; `stalled` are those
  that have stopped reading, and `waiting[c]` is the connection a blocked `send()`
  keeps even if its descriptor is closed and given to another one; `LongTexts` are
  the texts that came in a full frame and, encoded with a time and a name, fit
  into none, so that `send_frame` refuses the message or the history that holds
  them. A `DirectMsg` carries, as an auxiliary field, the `session` that
  `find_client_by_username` found. `out` records the frames written to each
  connection while its peer is there, of the kinds in `Watched`, so that an
  instance keeps only the history its properties look at. `Restart` ends the
  process at any point and starts it again on the same tables: all that was in
  memory has its initial value, and clients connect anew.
* `DatabaseService`: what the class promises the threads that share it: between
  the start and the return of a call there is one step in which it takes effect.
  `DatabaseHandle`: the class itself. `main` goes through `open()`, whose
  statements may each fail; a handler's call locks, prepares, steps (row by row
  for a query), finalizes and returns, and `call[t].at` says where it is. The
  two sorts of `get_recent_messages` are there as SQL has them, against the
  count of later rows that `ChatDatabase` defines. `Service` is the refinement:
  a call has its reply from the step that fixes its result.
* `ChatServerProperties`: the properties. `MCChatServer`: constants and symmetry
  for TLC.
* `FrameChannel`: what framing promises, a FIFO of frames. `Framing`: `send_all`
  and `send_frame` of any number of threads, the byte stream, and the reader;
  `send()` takes and `recv()` returns any non-empty part, the loop of
  `extract_frames` is one step per turn. Bytes are digits in base `ByteValues`
  and headers have `kFrameHeaderSize` of them. `Strange` is a peer that writes a
  length above the limit. `MCFraming` instantiates it.
* `Bytes`: big-endian integers on byte strings. `Codecs`: the records of
  `protocol.cpp` on them. `Digest`: padding, block loop and password check around
  a compression function that is a parameter. `TextRules`: what both programs do
  with names, rooms, keys, limits and lines; a string is a sequence of symbols,
  and a command word is one symbol. `Algorithms` picks an input and states what
  the functions must make of it; `MCAlgorithms` gives the inputs.
* `ChatClient`: `connect()`, `main`/`authenticate` and `receive_messages` of the client, one
  step per flag, string or frame, and the server's handler as the client sees
  it. `main` and `receiver` say where the threads are, `frames` is the batch of
  the last `recv()`. Assigning a string takes two steps; a prompt drawn between
  them may show `Torn`, since no lock protects the strings.

* Proofs: `ChatServerProofs` (types, descriptors, registry, and the server's steps
  sorted by what they do to a handler's calls), `ChatServerFrameProofs` (accounts,
  notices, messages: what is true of the frames written), `DatabaseHandleProofs`,
  `ChatClientProofs`, `FramingProofs`, `AlgorithmsProofs` (codecs, digests, text),
  and two modules of lemmas: `SortedSequences` on finite sets sorted by a strict
  total order, `BytesProofs` on induction, integers and byte strings.

Definitions whose comment starts with `Fault:` are not part of the
specifications. Each is a wrong version of the definition after it, and is used
to see that a property notices it.

## Runs

| run | instance | checks |
|---|---|---|
| `server_messages` | 2 connections, 3 frames each (log in, then chat or join), 2 rooms, window of 1 row, 2 clock values, peers that may be gone, restarts | `NoMissedMessage`, `DescriptorsOwned`, `RegistryMatchesHandlers` |
| `server_failures` | 2 connections, log in and one chat, direct message or room switch, failing storage, one peer that may stop reading or be gone | `ShownIsStoredOrReported`, `EchoMeansDelivered`, `PresenceAccurate`, `NoSilentNeighbours` |
| `server_commands` | 2 connections, register or log in and one frame of any type but direct messages, fair threads, one peer that may stop reading | `TypeOK`, `OneCreator`, `LeaverIsClosed`, `MessageIsShown` |
| `framing` | 1 writer, 3 calls, payloads of 0 to 3 bytes, limit 2, a strange peer | `ImplementsChannel`, `InvalidMeansStrange`, `InvalidCostsOneRead`, `StreamAccounted`, `AllDelivered` |
| `database` | 2 threads, 1 room and 1 direct thread, up to 3 rows, 2 clock values, limits 1 and 2, failing statements, failed starts and restarts | `ImplementsService`, `SchemaBeforeCalls`, `StatementsAreHeld`, `LockIsReleased` |
| `client_session` | 1 client, 2 names, 4 lines typed, 1 frame of another handler | `PromptShowsUser`, `NoLostLogin`, `QuietRoomAgrees`, `NoFalseAlarm`, `LeavingEnds`, `AnswerEndsWait` |
| `algorithms` | 48 records and all pairs of them, byte strings up to 10 bytes, names of up to 2 characters, texts and lines of up to 5 | `RecordsRoundTrip`, `DecodingIsSound`, `PaddingIsSound`, `PasswordMatchesItself`, `OneKeyPerPair`, `LabelNamesOther`, `RoomsAreNoThreads`, `RoomNameLeadsBack`, `HistoryIsOwn`, `CommandsAreUnderstood`, `CredentialsArrive` |

What they show, where it is not plain from the names. `NoMissedMessage` holds over
a restart because the row is stored before anything is sent, and those who come
back replay it. `ShownIsStoredOrReported` has an exception the code makes: the
"not stored" line is one more `send()`, and if the author's connection is gone it
fails, and the message goes out all the same. `EchoMeansDelivered` speaks of the
session that the handler found: the echo means that it was written to, unless that
very session ended or lost its connection between the search and the send.
`InvalidCostsOneRead`: a refused length takes the frames of its own `recv()` with
it, and none that an earlier one had completed. `ImplementsService` is what lets
`ChatServer` take each database call as one step. `RoomNameLeadsBack` has an
exception the code really has: a name cut at 32 characters right behind a blank
cannot be typed again, since `/join` trims it. `CommandsAreUnderstood` has one
too: `/history @` is answered with the usage of `/dmhistory`. Blanks and tabs are
told apart there: a tab behind the name is trimmed off for `/msg`, and part of the
name for `/dmhistory`.

Bounds. `MaxReads` bounds the frames a client sends, `MaxCalls` the calls of
`send_frame`. In `server_messages` three frames are enough for a client to log in,
change room and chat or return while another does the same, which is every order
of two joins and of a join and a message; a window of one row is full after one
message, so rows beyond the window occur. In `server_failures` two clients are
enough for the target of a message to leave, stall or be gone between any two
calls of the author, and for joins and notices to cross: each logs in and switches
once. One of the two names has an account, the other is offline. That the
descriptor of a target is reused before the send takes a third connection, as in
`v_direct_descriptor`; the proof of `EchoMeansDelivered` covers it. `LongTexts` is
empty in the runs, and in the proofs arbitrary, except where the table below says
that messages fit. Two-valued bytes with two-byte
headers give lengths 0 to 3 with a limit of 2, so the empty, the longest and the
refused length occur; every cut of the stream is explored. A table is not added to
once it has `MaxRows` rows, so with two threads it has up to three, more than
either limit, and with two clock values rows of the same second and rows out of
order. In `algorithms` integers of two two-valued bytes give lengths 0 to 3 and
times -2 to 1; a block of six bytes with a length of four makes byte strings of
every length modulo the block occur, with one, two and three blocks; texts hold
every symbol the rules tell apart, and names include one that begins another. Four
lines are a refused login, an accepted one and two requests. `DescriptorsOwned`
and `RegistryMatchesHandlers` are checked with two connections, where a descriptor
is reused after its first owner has left; the proofs cover any number.

Fairness. `FairSpec` of `ChatServer` is weak fairness of each handler thread's own
steps, which the operating system's scheduler provides; a `send()` to a peer that
does not read is not enabled and owes nothing, one to a peer that is gone returns
an error, and no fairness is assumed of clients or of accept(). In `Framing` the
loops of `send_all` and `read_next_frame` are weakly fair; the connection may go
down at any time. In `DatabaseHandle` a thread that holds the mutex keeps going
and one that can take it takes it (weak fairness): SQLite's calls return. Which of
several waiting threads gets the mutex is not promised by `std::mutex`, so no
property says that a particular call returns. In `ChatClient` both threads and the
server's handler are weakly fair and the person owes no input: a client whose
server has gone stays in `getline` until a line is typed.

### Where the code and its documentation disagree

Each of these runs ends in a counterexample; `PROJECT.json` quotes the lines.

* `v_slow_client`: `broadcast_to_room` blocks in `send()` to a peer that has
  stopped reading, and with it the sender's own client and the recipients that
  come later, though the comment says a slow client cannot stall the rest.
* `v_old_room`: the recipients of a broadcast are copied before they are sent to,
  and `set_room` waits for no broadcast in progress. A client that switches rooms
  in between is sent a message of the old room, though the README says that
  messages are only broadcast to clients in the same room. `NoMissedMessage` does
  not see this: it is about messages that do not come.
* `v_direct_descriptor`: between the search for the target of a direct message
  and the send, the descriptor can be closed and reused.
* `v_history_size`: a history of more than 64 KiB is not sent and not reported.
  `FrameRows` stands for the number of rows that fit; the instance puts it
  between the default and the largest limit, where the program has it for lines
  of a few hundred characters.
* `v_framing_writers`: two threads inside `send_frame` on one socket mix their
  bytes. `ChatServer` treats `send_frame` as one step, so its results hold for
  streams on which this does not happen.

One oddity that no document rules out can be seen in the model too: `/rooms` lists
the keys of direct messages, with nobody online.

## Proofs

Every theorem holds for all values of the constants that the named assumptions
allow (`DatabaseAssumption`, `ServerAssumption`, `HandleAssumption`,
`MarkAssumption`, `ClientAssumption`, `BytesAssumption`, `FramingAssumption`,
`CodecsAssumption`, `DigestAssumption`, `TextAssumption`, `BytesInput`,
`TextInput`); what else one supposes is in its statement. The bounds (`MaxReads`,
`MaxCalls`, `MaxRows`...) are arbitrary numbers in the proofs.

| theorem | property | supposes |
|---|---|---|
| `Typing` | `TypeOK` of the server | |
| `DescriptorOwnership` | `DescriptorsOwned` | |
| `RegistryCorrect` | `RegistryMatchesHandlers` | |
| `SingleCreator` | `OneCreator` | |
| `NeighboursMeet` | `NoSilentNeighbours` | notices are recorded |
| `PresenceTold` | `PresenceAccurate` | notices, `AuthOk` and `Joined` are recorded |
| `NothingUnaccounted` | `ShownIsStoredOrReported` | the report is recorded |
| `EchoIsHonest` | `EchoMeansDelivered` | direct messages are recorded |
| `EveryMessageShown` | `NoMissedMessage` | storage works, a full window and every message fit a frame, no room is the key of a direct thread; chat lines and histories are recorded |
| `SchemaFirst` | `SchemaBeforeCalls` | |
| `StatementsHeld` | `StatementsAreHeld` | |
| `Serialized` | `ImplementsService` | |
| `PromptCorrect` | `PromptShowsUser` | |
| `LoginKept` | `NoLostLogin` | |
| `RoomAgrees` | `QuietRoomAgrees` | |
| `AlarmTrue` | `NoFalseAlarm` | |
| `BytesAccounted` | `StreamAccounted` | |
| `ChannelImplemented` | `ImplementsChannel` | one writer |
| `ReaderStaysInStep` | `InvalidMeansStrange` | one writer |
| `RefusalCostsOneRead` | `InvalidCostsOneRead` | one writer |
| `RoundTrips` | `RecordsRoundTrip` | |
| `DecodersSound` | `DecodingIsSound` | |
| `PaddingSound` | `PaddingIsSound` | |
| `PasswordsMatch` | `PasswordMatchesItself` | a hash is a string, and the compression has no collision on the blocks hashed |
| `ThreadKeys` | `OneKeyPerPair` | |
| `ThreadLabels` | `LabelNamesOther` | |
| `RoomsApart` | `RoomsAreNoThreads` | |
| `RoomNamesLeadBack` | `RoomNameLeadsBack` | |
| `HistoriesAreOwn` | `HistoryIsOwn` | |
| `CommandsUnderstood` | `CommandsAreUnderstood` | |
| `CredentialsComeThrough` | `CredentialsArrive` | |

"Recorded" is a condition on `Watched`, which says which frames the auxiliary
variable `out` keeps; it restricts no behaviour of the server. The other
hypotheses are needed: `v_history_size` shows what happens when a window does not
fit a frame, a text in `LongTexts` is stored and then shown to nobody, a failed query
is a replay that stops early, and `v_framing_writers` shows two writers. Peers that
are slow or gone are in no hypothesis: the theorems hold for any `SlowPeers` and
`LossyPeers`. That no room is a key is `RoomsAreNoThreads`, which `RoomsApart`
proves of `sanitize_room`.

### The server

Typing, descriptors and registry are proved together from one inductive invariant
`IInv`, since none is inductive alone. Typing a pending call to one's own socket
needs `DescriptorsOwned`; the registry argument needs that an entry's socket has
one owner; and both need `HandlerFacts`: only live handlers have calls to make,
only the message loop calls `set_room`, a handler past authentication knows its
user, and an entry's position is below the next one, so that entries stay
distinct. `Waits` is about blocked calls: who waits is at a call that sends, for a
connection that was accepted, and if that has the waiting handler's descriptor it
is its own, so that a reply to one's own client never goes astray. `QuietStep` and
`CallStep` reduce the steps that only read, compute and write to the typing of
their calls; `AcceptStep`, `AuthStep`, `EnterStep`, `LeaveStep`, `CloseStep`,
`CallSetRoomStep` and `RestartStep` treat the steps that change handlers,
descriptors or entries.

A property about frames that were written says nothing about the calls that are
still to be made, so each further invariant adds them. `Script` says what a
handler's list of calls looks like: replies go to its own descriptor, notices and
chat lines name it as their author, and a change of room is followed by the
announcement and the replay of the new room. A pending send reaches the connection
its descriptor is open for, with one exception: `Misled(a, d)` says that `a` waits
for an earlier connection on `d`'s descriptor. `NoneMisled` is why it does no harm to
what is promised to `d`: no step makes a waiting handler bypass a connection that
lives, since only `accept()` gives a descriptor to another one, and whoever waits then
has its list from before.

* `Creators` counts the pending "account created" with the written ones: whoever
  has either owns an account of which nobody else is the creator.
* `Neighbours`: of two handlers in a room one has told the other, or is about to:
  a broadcast is pending whose recipients include the other, or will when it is
  taken, since the other is in `clients` by then.
* `Announcing` and `Present`: a notice about a handler that is pending agrees with
  where it is or is going, and the last notice written about it is right unless
  one is pending for the same recipient.
* `Ordered` and `Reported`: storing comes before sending in every list, so what
  will be shown is known already, is still to be stored, or its failure is still
  to be reported first. Known is also what the author cannot be told because its
  connection is lost, and `lost` only grows until a restart.
* `Echoed`: in every list the send to the target comes before the echo. It names the
  session that was found, on that session's descriptor and not `Misled`; so when it is
  made the frame is written to that session, or the session is done or lost. A
  message too long for a frame is echoed to nobody.
* `Covered`: each row that a handler in the room whose connection stands has to
  show is shown, or its author's broadcast will reach the handler, or a replay
  that holds the row is pending. It needs `Authored` and `ChatFollows` (a row is
  broadcast after it is stored) and that a row in the window stays in every later
  replay that is still pending: the window is the set of the highest rows, counted
  by the lemmas of `SortedSequences`.

### The database

`IInv` is `TypeOK`, `MainOK` (only `main` in `open()` holds the mutex under its
own name, and it serves after the whole schema), `CallsOK` (what a call has read
and what it will read are together what its query selects, and it has a reply exactly
from the step that fixes the result) and `HoldersOK` (a thread holds the mutex
exactly between lock and return, and a statement exactly between prepare and
finalize). That is why the tables do not change under a query, and why the
rows read so far stay a prefix of what the abstract call returns. `Serialized`
then shows each step to be a step of `DatabaseService` or a stutter. The nested
query is the hard part: sorting backwards, cutting at the limit and
sorting forwards yields the rows with fewer than `limit` later rows, in order.
`SortedSequences` proves that a finite set has one sorted sequence and that an
element's place in it is one more than the number of elements before it.

### The client

All that the server has sent and the receiving thread has not handled is one
sequence, `Coming`: the batch at hand, then the connection. Before a login is
accepted there is one token among main before it sends, the request, the
`AuthFail` that answers it, and `g_auth_failed`; that is why an old refusal cannot
answer a new attempt. `AuthOk` occurs once, and `g_authenticated` is set after it
has left `Coming` and the strings are assigned. `RoomOK` says that the last frame
of `Coming` that names a room names the server's, or `g_room` is it.

### Framing

`ReaderInv` (types, what the lists hold in each place of the reader, and
`StreamAccounted`) is inductive for any number of writers. It rests on what the
recursive functions compute: `ReadWhatWasWritten` and `WriteWhatWasRead` (integers
and their bytes), `EncodedAppend` and `EncodedSplit` (frames in a row). With one
writer, `WriterInv` says that the stream and what is still to be sent make up the
encoding of the frames sent, with a strange length only at the end, and `InOrder`
that the frames found are the first ones sent. `HeadOfPending` brings them
together: a header in the buffer is that of the next frame sent and the bytes
behind it are that frame, or it is a strange peer's length. `Handed` adds, for the
cost of a refusal, that between calls of `extract_frames` every complete frame has
been found.

Induction is done on numbers with the set of those for which a fact holds
(`Induction`), and `Recursion` shows that a function given by a start and a step
exists; both follow from the least element of a set of numbers.

### Codecs, digests and text

The sets of inputs are constants, so the theorems about `Algorithms` are about
inputs of any length. What the assumptions on them say is what the code provides:

* `BytesInput`: the lengths of a record's strings and of a list fit in the integers
  written in front of them, and times in 64 bits. Names, rooms and keys have a few
  dozen characters, contents fit a frame, a history has at most 200 rows, and a
  timestamp is an `int64_t`. A list of users fits while fewer than 65536 clients are
  in a room. What is hashed is shorter than 2^64 bits.
* `TextInput`: a name in the set of names passed `valid_username`; a line or field
  typed has no newline in it, since `std::getline` ends at one; a line is the text
  typed, with or without a command word in front.
* `TextAssumption`: letters and digits are none of the blanks and separators
  (`isalnum`), a command word is a symbol of its own and no character, and the limits
  are in order (`1 <= kHistoryLimit <= MaxHistory`, `1 <= RoomMax`).

*Codecs.* A decoder is a function `T` of a byte string and an offset, an encoder a
function `E` of a value from a set `V`. `ReadsBack(T, E, V)`: `T` finds what `E` wrote
wherever it stands and stops behind it; `FindsOnly`: where `T` succeeds, something `E`
writes is there. The two are proved of integers and of byte strings of a given
length, and then of whatever is put together from these: a pair (the second decoder starts
where the first stopped), a string (a length and so many bytes), a value in another
form (`int64`), and a list (a count and so many values, by induction on the count).
From `FindsOnly` follows that a truncated encoding is refused: what a decoder accepts
inside it would be an encoding that is a proper part of another one, and reading back
the longer one stops at its own end.

*Digests.* The last bytes of the padding are the input's length, and the zeros in
front are the fewest that fill a block; so padding is injective, and inputs of
different lengths have different last blocks. For `PasswordsMatch`, two messages whose
loops end in the same hash have the same last block unless the compression collides;
so they have the same number of blocks, and going backwards, block by block, the same
blocks. `NoCollisions` is about the calls made for the salted passwords at hand, not
about all possible ones: no compression of longer strings to shorter ones has that
property everywhere. The stored form is cut at its first `$`, which is the one that
`hash_password` put there, since a salt has none. `HashesAreStrings` is the type of the
compression. The instance that `algorithms` checks satisfies both.

*Text.* `find`, `trim` and the order of strings are characterised once: `find` gives the
first place of a symbol or none, `trim` the part between the first and the last symbol
that is not a blank, and `Less` decides between any two texts by the first place where they
differ. The key `dm:a:b` is then taken apart at the first `:` behind the prefix, as names
hold none (`ThreadKeys`, `ThreadLabels`), and a room has no `:` at all (`RoomsApart`).
A line typed is a command word and a text; `TypedIs` says what trimming leaves of the
two, `RequestIs` which request the chain of conditions in the chat loop makes of it,
and one lemma per request what its handler finds there. The two exceptions in the
properties, a room cut right behind a blank and `/history @`, are the only ones.

### Only model-checked

Liveness under fairness (`LeaverIsClosed`, `MessageIsShown`, `LockIsReleased`,
`LeavingEnds`, `AnswerEndsWait`, `AllDelivered`) is out of the
prover's reach. Every safety property that a passing run checks is proved.

## Not modelled

* The 64 rounds of SHA-256: 32-bit arithmetic of that depth is out of TLC's reach
  and covered by test vectors. `Digest` takes them as a parameter, instantiated
  without collisions.
* Terminal output (colours, banner, help, echo mode, time formats) and build
  files.
* Inside `ChatServer` and `ChatClient`, parsing and wording: a room is what
  `sanitize_room` returned, a refused frame is one action, the two greeting texts
  are one. `TextRules` has the parsing.
* Characters: a text holds no NUL, at which `sqlite3_bind_text` with length -1
  stops, and `isalnum` is a set given to `TextRules`.
* That a server starts again after it has ended: the code does not set
  `SO_REUSEADDR`, so `bind` may fail for a while. `Restart` may happen and nothing
  relies on it; `DatabaseHandle` has the failing start.
* A negative row limit, which SQL takes for none: the server never passes one
  (`HistoryIsOwn`).

## What is left

The model covers the parts of the program that have behaviour, and the safety
properties are proved for all instances. The links between the modules are stated
in words only: `ChatServer` takes a database call as one step because of `Serialized`,
`send_frame` as one because of `ChannelImplemented`, and a room as no key because of
`RoomsApart`. One composed specification in which the three are instances would make
them theorems too. The rounds of SHA-256 remain a parameter.
