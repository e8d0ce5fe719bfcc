# simple-rtsp in TLA+

A verification development for simple-rtsp: an RTSP server that describes a
video and an audio track, and a client that sets them up and asks for PLAY. The
repository is unfinished where the media themselves are concerned (the sending
and receiving threads are empty), so what can go wrong today is the control
plane, the codecs and the algorithms on buffers, and that is what is modelled.

## The system

| component | state | operations | talks to |
|---|---|---|---|
| server control plane (`rtsp-server.c`) | the accept loop's stack slot `ctx`; per handler thread a copy of it and the request in hand | accept, fill the slot, create a thread; receive, answer, close | clients over TCP; its own threads through the slot |
| client control plane (`rtsp-client.c`) | `cseq`, `ctx.session`, `ctx.media[*].port` | OPTIONS, DESCRIBE, one SETUP per medium, PLAY, each followed by a receive | the server |
| message transport (`rtsp-common.c`) | offsets into a message | `rtsp_send_msg` in segments, `rtsp_recv_msg` until header and payload are there | sockets |
| message codec (`rtsp-common.c`) | attribute lists | marshal, demarshal, size calculation | both programs |
| session description (`sdp.c`) | media and attributes | create, marshal, demarshal | both programs |
| start code search (`hevc.c`) | two pointers | `hevc_find_startcode` | (no caller yet) |
| RTP packetizer (`rtp.c`) | `_seq`, a fragment header | `rtp_nalu2rtp`, `rtp_marshaller` | the two video queues |
| video pipeline (`rtsp-server.c`, `main.c`) | NALU queue, RTP queue | wait, dequeue, pack, post | packetizer |
| cdk library (binary, headers in `cdk/`) | | sockets, threads, locks, lists, memory | everything |

What is hard about it:

* **One stack slot for all handlers.** `run_rtspserver` passes `&ctx`, the
  address of a block-local variable, to every thread it creates
  (`rtsp-server.c:285-294`). A handler copies the slot when it gets to run
  (`:174`), receives from the copy, and sends through the slot itself: it reads
  the slot's handle (`:156`) some time before it calls `send`
  (`rtsp-common.c:203`). No lock orders any of it.
* **Closing by value.** A handler closes the handle in its copy (`:180`), which
  another handler may hold too, and whose value may by then have been given to a
  new connection.
* **Waiting.** A client waits for each response with no timeout and takes
  whatever arrives for the answer; nobody compares CSeq.
* **Streams.** One receive may return several messages
  (`rtsp-common.c:224-270`); the parser makes one of them.
* **Undefined behaviour on ordinary paths.** The RTP queue is initialised through
  a null pointer before the accept loop (`rtsp-server.c:260-265`); the packing
  thread waits for its queue to be empty instead of non-empty (`:206`); a
  TEARDOWN's response has a payload nobody assigned.
* **Index arithmetic** in the start code search, whose bound moves three times,
  and in the packetizer, where two bytes go and three come with every cut.
* **Pointers passed for values and values for pointers.** The packetizer's header
  bytes all go to one place (`rtp.c:10-12`), and a byte is passed for a
  destination (`rtp.c:115`, `:129`).
* **Parsers by hand.** `sdp_demarshaller_msg` nests a `strtok` loop in another and
  both share the next line; words are scanned into 64 bytes without a width; sizes
  are counted apart from the code that writes.

What makes each component correct: the server answers each request on the
connection it came from, once, and lets go of connections that ended; the client
reaches PLAY only with a session and a port for every medium; a transport moves
all bytes of a message once; codecs write what they counted and read what they
wrote; the search returns the first start code and stays in bounds; a fragmented
NAL unit can be put together again. The list of hazards in PROJECT.json has
each at its line, with the property that covers it or the reason why none does.

## Modules

| module | models | composed of |
|---|---|---|
| `RtspMessages` | the requests and responses, what the server answers, what a receive makes of several messages | |
| `RtspNetwork` | the TCP connections: backlog, socket handles, a stream each way | `RtspMessages` |
| `RtspServer` | accept loop, slot, handler threads, end of the process | `RtspNetwork` |
| `RtspClient` | `run_rtspclient` | `RtspNetwork` |
| `RtspOpenServer` | the server with clients of any kind; what it keeps to whoever connects, and its inductive invariant | `RtspServer` |
| `RtspSystem` | one server, any number of clients; its properties and its inductive invariant | `RtspOpenServer`, `RtspClient` |
| `RequestReply` | abstract: what a client takes its connection for | |
| `RtspTransport` | one direction of a connection: `rtsp_send_msg` in segments, `rtsp_recv_msg` in parts | |
| `MessageStream` | abstract: a stream of whole messages | |
| `RtspPlayers` | the same server with players that send any announced method in any order | `RtspOpenServer` |
| `HevcStartcode` | `_find_startcode` and `hevc_find_startcode` | |
| `RtpPacketizer` | `rtp_nalu2rtp` and `rtp_marshaller`: which bytes of a unit are read for which packet, and what gets there | |
| `VideoPipeline` | the packing thread between the queue of NAL units and the packetizer | `RtpPacketizer` |
| `SdpParser` | `sdp_demarshaller_msg` line by line | |
| `RtspParser` | `rtsp_demarshaller_msg` line by line | `SdpParser` |
| `RtspCodec` | a message and its description written, sized, read, answered and read again | `RtspParser` |
| `RtspOpenServerProofs` | theorems about the server with any clients | `RtspOpenServer` |
| `RtspSystemProofs`, `RtspPlayersProofs` | theorems about the two modules that close it | `RtspOpenServerProofs` |
| `RtspTransportProofs`, `HevcStartcodeProofs`, `VideoPipelineProofs`, `RtspCodecProofs` | theorems | |
| `SequenceFolds` | lemmas about sequences: induction on the length, concatenations and sums | |
| `MC...` | instances for TLC | |

### How they correspond to the code

*Server.* `loop` is where the accept loop is: `"startup"` before line 281,
`"accept"` in `cdk_tcp_accept`, `"init"` while the slot is written, `"spawn"` at
`cdk_thrd_create`. `Accept` and `FillSlot` are separate steps because a handler
may run between them: then `conn` already stands for the new connection and the
slot does not. `thr[h]` follows a handler through `_handle_rtsp`: `"start"`
(created, slot not copied), `"recv"`, `"reply"` (a request was parsed), `"send"`
(`rtsp_send_msg` was called), `"close"`, `"done"`. The handler thread is named after the client whose accept
created it; `own[h]` is its private copy, which may be another client's.
`_send_rtsp_rsp` is two steps. `Reply` builds the response and reads the slot's
handle, which is passed by value; both are then in `out[h]`. `SendReply` is the
`send`: it delivers to whatever connection that handle stands for by now. Accepts,
writes of the slot and closes may come between the two. A failed send is not noticed.
`CloseConn` also fails some of the receives blocked on the same handle.
`ProcessExit` is what the end of the process does: all sockets closed, all
threads ended. Three things in the code lead to it: a thread cannot be created (the loop
breaks and `main` returns), undefined behaviour before the loop (`StartUpTraps`)
or in the packing thread (`PackThreadTraps`), and uninitialised memory in a
response (`ReplyTraps`). A fourth is the library's: `cdk_tcp_accept` aborts on an
error (`AcceptAborts`).

*Undefined behaviour* is a choice between going on and ending the process.
On a build where page zero is not mapped `StartUp` never passes and the server
ends before the first accept; the model keeps both outcomes, so that what it
says of the accept loop holds wherever that loop is reached at all.

*Any client.* `AnyClient` of `RtspOpenServer` is the most the server may meet: a connection
that comes at any time, carries any request in any order, whether or not
answers are read, and ends at any time. A client there is a connection: a program that
dials again is another one. What a program needs in order to be among these is that
it dials once per connection (`Unknown`) and that a request in a stream is its own
(`from`, which is bookkeeping of the model and no field of the message).

*Client.* `Send` and `Receive` are the two halves of `_send_rtsp_req` with what
`run_rtspclient` does around them. `cseq` counts the requests, and with the
length of `port` (the number of media) it says which method is next. A response
sets the session and the port only after a SETUP. A description that arrives
twice in one receive lists the media twice, and the client then sets up all of
them. NULL from `rtsp_recv_msg`, a missing description and more media than
`MAX_MEDIA_NUM` end the process (`"trap"`).

*Network.* A message is in a stream from its send to its receive. A receive takes
any number of the messages under way, at least one. `MergedRequest` and
`MergedResponse` are what `rtsp_demarshaller_msg` makes of them: first line of
the first, attributes of all, later values winning. That streams carry whole
messages is what `RtspTransport` shows, for messages that alternate. For answers
that went astray it is an abstraction: every message of these programs is smaller
than the segment size, hence a single `send`, but a receive may still take a part
of the second along. `transport_pipelined` says what is left then.

*Transport.* A message is a number of plain lines and a payload length; its text
is a sequence of tokens, one per line, empty line or payload byte. `SendSegment`
is an iteration of the loop in `rtsp_send_msg`; `ReceivePart`, `ReceiveRest` and
`ReceiveTraps` are the three outcomes of an iteration in `rtsp_recv_msg`, which
`Complete` and `NullLine` decide from all that was received so far. `recv` returns
any number of tokens that are there. Either end may go at any time, in a
message too, and a receive may then fail before it has read what was under way.
`Lockstep` is the alternation of requests and answers.

*Search.* A step is one iteration of one of the three loops. Pointers are offsets;
`base` is the address of the buffer modulo 4. The bit trick on words is modelled
byte lane by byte lane, with its borrows. `touched` holds the offsets that the
last step may have read, those behind an `&&` included.

*Packetizer.* A step is a way through `rtp_nalu2rtp` up to a post: `PackWhole`, or
`BeginFragments` and then a `Fragment` per iteration and `LastFragment`. A packet
is not its bytes but where they come from and what becomes of them: the unit, the
offset and number of bytes given to `memcpy` (`first`, `read`), how many of these
get into the packet (`carried`), what the marshaller was told (`size`, `marker`),
the flags, and which fields of the RTP header are left (`header`). `hdr` is the
template `hdr[2]`; line 125 changes the posted fragment and not the template, so
that no step changes `hdr` back. Three faults meet here. Nothing ever assigns storage to
`rtp->buffer` and `nal->buffer`. The destination of a fragment's copy is
`nal->buffer[header_size]`, a byte taken for an address (`:115`, `:129`): nothing is
carried. `_w8` advances only its own parameter: of the header's twelve bytes
the last one stays, in the packet's first. Each such write may end the process
(`Traps`), and what is said of the other outcome is said of the side of the
source: what is read of a unit, and what the marshaller is told. `fragments`
shows that none of it arrives.

*Pipeline.* `at` is where the packing thread is. A critical section is a step;
waiting splits the thread's in two. `MustWait` is the condition as line 206 has it.
`Dequeue` with an empty queue hands the packetizer a unit of any size, since what is
read there is no unit. No source file posts NAL units: `PostUnit` is external and does
what `rtp_queue_post` does.

*Parsers.* A line is a key and parts: the pieces between colons of an attribute, the
words of any other line. `at = "attrs"` is the nested loop of
`sdp_demarshaller_msg`; it leaves in `j` the line it stopped at. `LineTraps`, and
an attribute without a value, are undefined behaviour, at which the model
stops. In `RtspParser` a text is first line, header and body, and the loop runs on
through the body as the code's does; `scanned` are the nine buffers. `payload`
says whether `strstr` found the announcement of a description.

*Codec.* Words are strings with lengths (`WordLen`), since lengths are what sizes
and buffers are about. `SdpSize` and `RtspSize` count as `sdp_calc_msg_size` and
`rtsp_calc_msg_size` do, `SdpLength` and `RtspLength` measure what the marshallers
write. `Answer` builds the response from what was parsed of the request
(`Response`, `_initialize_rtsp_rsp`) and makes it the next text to be read. The time
of day in `Date` and in a session is one of the times it may be, of the length it
has.

## What is checked

| run | question | instance |
|---|---|---|
| `system_overlap` | what is left of the right order when clients overlap | 3 clients, 2 handles, 1 session, one killed client |
| `system_serial` | does one client after the other get all it was promised | 2 clients, 2 handles, 2 sessions |
| `players` | does the server serve and let go of arbitrary players | 3 players, 2 handles, DESCRIBE, 2 requests in all, 1 player leaves an open connection |
| `players_overlap` | what can get between the newest player and its answer | 4 players, 3 handles, every method, 1 request in all, 2 players leave open connections |
| `hevc` | does the search by words find the first start code | all buffers over {0,1} up to 12 bytes, over {0,1,255} up to 8, at all 4 alignments |
| `transport` | do alternating messages arrive whole | 4 messages of 2 shapes, segments of 2, receives of 3 tokens |
| `transport_pipelined` | what is left when they do not alternate | the same, without `Lockstep` |
| `pipeline` | are units read without loss and their ends told, and what does the inverted wait come to | payload 6, units of 0 to 12 bytes, 2 units packed, 2 posted |
| `codec` | is what is written read back, and does it fit | the client's script; foreign requests of up to 3 header lines of 7 kinds; foreign payloads of up to 4 lines of 7 kinds and 5 written descriptions; 2 media |
| `fragments` | violated: a unit that was cut can be put together again | as `pipeline` |
| `thread_parameter` | violated: a handler reads from the connection it was created for | 2 clients, 2 handles |
| `teardown` | violated: no announced method makes the server trap | 2 players |

**Overlapping clients.** The slot is at most one accept old (`SlotIsRecent`). A
handler may serve another connection than its own but never an older one
(`HandlerNeverOlder`), even though handles are closed twice and used again.
A misrouted answer goes to a later client or to the one accepted directly before
the asker (`AnswersFlowForward`), even when the handle read from the slot was
closed and given to another connection before the send. It need not go to one of
the newest: any number of accepts fit between the reading and the send. An open
connection that nobody serves is new, is waited for by a handler that has not come
to the slot yet, or was lost by its own handler, which found a later connection's
handle there (`OrphansWereSuperseded`): these are what the server leaks, and no
handler that is through leaves what it copied open. The newest is never among them: the
loop, the slot or a handler holds its handle (`HeldInv`).

**Serial clients.** With `Overlap = FALSE` a client is started when the handler of
the one before is done. Then the connection implements `RequestReply`: one
request at a time, each answered once by its own answer. PLAY is sent with a
session and the server's ports for both media, the session never changes between
requests, the server closes no connection that is in use, no client waits for
ever, and nothing is kept of a client that left, killed ones included. `SerialInv`,
from which the safety properties follow, is checked as well.

**Players.** The server's invariant holds with players as well (`PlayersInv`). The newest
player gets an answer, loses its connection or is superseded
(`NewestIsAnswered`), with one exception: an earlier handler that still holds its
handle, closed by another and given to the newest, may take its request before
the accept loop has written the slot, and the answer then goes to the player
before it. `early` has the players to whom that happened (`TakenEarly`). It takes four
players and three handles, too many for a liveness check; `players_overlap` checks
there, with every method, what the answer rests on (`NewestIsInService`): what the
newest player waits for is in its streams or with a handler that will send it there.
`RtspPlayers!LeftAreLetGo` is weaker than the serial one by the superseded
connections. The requests hold any announced method; the track of a SETUP does
not influence where an answer goes and is fixed.

**Transport.** Alternating messages are taken whole, once and in order
(`ImplementsMessageStream`), each is taken unless an end goes (`AllTaken`), and the
line `Content-Length` is always there when it is looked for (`StreamInv`). Without
alternation a receive that begins at a message has that message whole
(`FirstIsWhole`) and does not wait for more than was sent
(`NeverStuckAtAMessage`); no byte is lost or moved (`NothingLostOrReordered`). The first
two follow from the invariant `PipelinedInv`, which the run checks as well. What
does fail, and is no property: the next receive may begin inside a message, and
then wait for an empty line that only a later message brings.

**Packetizer and pipeline.** Each byte of a unit behind its own header is read for
exactly one packet, in order (`UnitsAreReadOnce`); what is read lies inside the unit,
is not empty and fits with its header into the limit (`FragmentsFit`); the E bit is
where a unit ends, and the marshaller is told the marker there and nowhere else
(`EndIsMarked`). The thread dequeues exactly when its queue is empty, so that what it
packs is never a unit somebody posted; and once one is posted it finishes what it has
in hand and stops for good (`StopsForGood`).

**Codec.** The entries of `sdp->media` stand for the `m=` lines, in order, each with
the attributes that directly follow it (`MediaMatch`), and the undefined outcomes
are those, and all those, that one can tell from the text without the parser
(`TrapsForAReason`). A description read back is the description written
(`DescriptionReadBack`). An attribute's value is its line's first word or, for an empty
line, the last one read for that key (`AttributesReadBack`). The calculated sizes are
exact (`SizesAreExact`). The programs' own messages survive both parsers whole
(`OwnMessagesSurvive`), though not by much: the transport of a SETUP's response
is 63 characters long and is read into 64 bytes (`rtsp-common.c:50`, `:163`).

**Three disagreements with the repository's own words.** `thread_parameter`:
`cdk-thread.h:56` calls the pointer "thread's parameter"; the handler may find
another thread's there. `teardown`: line 67 announces TEARDOWN, whose response is
built from an unassigned payload pointer (`rtsp-common.c:33` reads it, `:275`
frees it). `fragments`: `rtp.c:72` is to "transmit the buffer as fragmentation units
(FU)", and what is posted for a unit cannot be put together again. A unit cut in two
is the shortest trace, and its last state has all of it: both fragments carry the
S bit that is to "mark as start fragment" (`:100`), the last one's packet is three bytes
short (`:130`), nothing of the unit got into either (`:115`, `:129`), and of what
`:33` writes to "build rtp header" the last field is left (`:10-12`). That `_wb16` also
loses the high byte of what it is given (`:17`) would only show once the bytes
had their places.

### Bounds

Three clients and two handles are the smallest instance in which a handle is
used a second time while a handler of its first use still holds it, and in which
a slot could be two accepts old. `OneKilled` (a state constraint, used only in
`system_overlap`) lets one client be killed; the others end by their script, by
end of file or by a trap. `ServerRuns`, the other constraint there, explores
nothing behind the end of the server, where clients only take what was sent;
`system_serial` and `players` go on there. One session is enough where no property speaks of
sessions, two where one does. Players send at most `MaxRequests` requests in all,
any of `Methods`, and `MaxLeaves` bounds how many of them leave a connection that
the server still holds; giving up one that is gone is not bounded. `players` has
two requests, so that a second meets a superseded slot, and one method, since no
property there tells them apart; all methods are in `players_overlap` and in
`teardown`. Four players, three handles and two leaves are the smallest instance
in which two handlers hold the handle that one of them closes and a third
connection gets, while the slot is another's. Clients and handles are symmetric
and `system_overlap` and `players_overlap` have no liveness property, so they use symmetry. A buffer of 12
bytes runs the word loop at least twice at one alignment and once at each; 255
is there for the lanes' top bits. The two message shapes are those of the programs
(with and without payload) with as few lines as tell all cuts apart: a segment
and a receive can end at each of their tokens.

With a payload of 6 bytes a fragment carries 3, and units of up to 12 reach: just
fitting, just not, ends on a full fragment, on one byte, and one fragment more.
`SeqSpace` bounds the sequence numbers, of which no property speaks. Two posts and two packed units let a post
come before, during and after each. Headers of 3 lines put an unknown and an empty line
on either side of a known one; payloads of 4 lines put two media with an attribute,
without one, and with a line between, and exceed two media; words are of a length
that fits the buffers and of one that just does not.

### Fairness

Weak fairness of the accept loop and of each handler thread: they are threads
that block only in accept and receive, and the operating system schedules them. A
handler's steps are one condition, since it is always at one of them. Weak
fairness of a client's own steps for the same reason. Starting a client, killing
one, a thread creation that fails and the packing thread's end are never assumed
to happen. A player has to read a response that is there, and to give up a
connection that is gone. The packing thread is scheduled when it can go on; posts,
spurious wake-ups and the outcomes of undefined behaviour are never counted on. The
loops of `rtsp_send_msg` and `rtsp_recv_msg` are
scheduled until they return, and both programs call the receive again when they
are through with a message. The deadlock check is off where the system may stop: when all clients
are through and the process has ended, a message has been read, or the packing
thread waits and nobody posts.

## What is proved

`RtspOpenServerProofs`, for every set of connections, handles and sessions and clients
of any kind (`OpenSpec`). The assumptions are on constants: there are
finitely many handles, and `None` is no client, handle, session or message.

* `ServerInvariance`: `OpenSpec => []ServerInv`. The three properties of interest
  (`SlotIsRecent`, `HandlerNeverOlder`, `AnswersFlowForward`) are not inductive alone. That the slot is recent needs that `conn` stands for the
  newest connection while the slot is written, and that ranks never exceed the
  number of accepts (`LoopInOrder`, `AcceptedOnce`). That a handler is never
  older needs the slot's recency at the moment it is copied. That answers flow
  forward needs that a request in a handler's hands came from an accepted
  connection (`RequestsAreAccepted`), hence that a stream holds its own client's
  requests (`RequestsNameTheirSender`), also after several were taken for one
  (`MergedRequestIsTyped`); and that a response between the reading of the slot and
  the send goes forward too, to whatever connection its handle stands for
  (`RepliesFlowForward`): a handle closed and used again only ever moves to a later one. One lemma per action of the server, and one per kind of
  step of a client, shows that all of it is kept. No step of a client needs more than
  that it is new when it dials.
* `ServerHoldsTheNewest`: the newest connection's handle
  goes from `conn` to the slot to a handler's copy (`NewestIsHeld`). The step that
  could lose it is `CloseConn`, where a handler lets go of a handle that another
  connection may have by now; it closes that connection too, and then there is no open
  connection to be held. That the newest is one connection needs `RanksAreDistinct`.
* `ServerForgetsTheSuperseded`: `OrphansWereSuperseded` is inductive on top of the
  two. A handler comes to serve when it copies the slot; the connection it was created
  for is then that one, or an earlier one that it has lost. A connection stops
  being served in `CloseConn` alone, which closes it.

`RtspSystemProofs` and `RtspPlayersProofs` close the server with simple-rtsp's clients, for
both values of `Overlap`, and with players that send any number of requests. A
step of theirs is a step of the open server or leaves it alone (`SystemIsOpen`,
`PlayersAreOpen`). That implementation needs what each knows of a client that has not
dialled (`ClientsAreKnown`, `PlayersAreKnown`); with it `IInv` (`Invariance`) and `PlayersInv`
(`PlayersInvariance`) are inductive, and the rest is cited: `SlotFreshness`,
`HandlersNeverServeOlder`, `AnswersForward`, `NewestHeld` and
`ForgottenWereSuperseded` of the clients, `NewestPlayerHeld` and
`ForgottenPlayersWereSuperseded` of the players.

`NewestPlayerIsServed` is about players alone, for any number of them, of handles and
of requests: `NewestIsInService` is inductive with two facts more. What a player asks while it is in the backlog stays in its stream
(`UntouchedInBacklog`), and before the slot is written no handler has it but one
that took it early (`HeldBeforeTheSlot`). After that `NewestIsHeld` says that the slot has the newest
connection's handle, so that a handler that answers reads just this one. A connection
has one handle, and a handle closed is another's unless it is this one, with which
the connection is gone.

The second half of `RtspSystemProofs` is about clients that do not overlap (`~Overlap`, and again
any number of clients, handles and sessions). `OneAfterTheOther` shows `SerialInv`, on top of
`IInv` and `HeldInv`, to be inductive. It says where the server's only connection
is on its way from the backlog to the end of its handler (`OneAtATime`, `OnItsWay`),
that handlers close only after clients that left (`LeavingInOrder`), that the request
asked last is in one place, the answer in a handler's hands being one of them, or
answered (`OneOutstanding`), and what the client knows
after so many answers (`ScriptInOrder`). From it:

* `PlaysWhatIsSetUp`, and `WaitsForSomething`: while the server runs, what a client
  waits for is in a stream or with its handler.
* `SessionIsKept`, `OnlyTheLeftAreClosed`: the two action properties.
* `ServesLikeRequestReply`: the whole of accept loop, slot, handlers and streams
  implements `RequestReply`. Sending is its `Ask`, `SendReply` its `Answer`, a
  receive its `Take`, and every other step changes nothing of it.

`HevcStartcodeProofs`, for buffers of any length and content (`BuffersAssumption`)
and any alignment: `SearchInvariance`, `SearchIsCorrect`,
`SearchReadsAreDefined` (in bounds and aligned). The invariant says that no start code begins before `p`,
where `end` is in each loop, and that words are read at boundaries. The heart is
a lemma that a word whose test fails has no zero byte, and that a word with none
hides no start code in the four offsets the step passes over.

`RtspTransportProofs`, for messages of every shape, segments and receives of every
size and any number of messages. Under `Lockstep`: `StreamInvariance` and
`TransportIsAStream`, the implementation of `MessageStream`. The one fact about the
code that carries both is `OnlyTheWholeIsComplete`: of the beginnings of a
message's text, the receiving loop stops at the whole text only. The rest is that
what is received, what is under way and what is not yet sent are adjacent parts
of the text (`Parts`).

Without `Lockstep`: `FirstMessageIsWhole` and `NeverStuck`, from
the invariant `PipelinedInv`. It speaks of places. Each token says where its
message begins, and no two tokens disagree (`InPlace`); of the last message
as much is there as the sender's loop has come with, and of all others the end
(`EndsWith`). So a text that begins with a message goes on with it, and
`OnlyTheWholeIsComplete` says that the loop does not stop before its end. It does
not wait either: the first `Content-Length` line belongs to a message that is all
there, so that at least as much as it announces follows the first header.
`AllArrivesInOrder` needs no places, but the text of all messages sent as one
sequence, and that a further message adds its text at the end.

`SequenceFolds` has that last fact (`FlattenAppend`) and its like for sums (`SumAppend`,
`SumConcat`). `FlattenSeq` and `FoldLeft` are recursive functions, hence a `CHOOSE`: that
there is such a function and that it is the only one is shown by taking the shortest
sequence for which it would fail (`InductionOnLength`).

`VideoPipelineProofs`, for every payload limit above the three header bytes and every
set of unit sizes: `Coverage`, `Fitting` and `EndMarking` from the invariant
`Packetizing`. It says that what was read for the posted packets leads, without gap or overlap, up to where the
packetizer is (`offset`), that `offset` and `left` add up to the unit in hand, and, the
point of it, that in the loop more is left than a whole fragment takes or
something is left at all. Like the properties it is about what is read of a unit and
what the marshaller is told; that none of it gets into a packet is no theorem but
what `fragments` shows.

`RtspCodecProofs` begins with the parser of descriptions alone, for payloads of any
length over any lines: `MediaAreMatched` and `TrapsAreForeseeable`.
The invariant (`DescriptionParsing`) adds to `MediaMatch` which entry is open in the nested loop and that the
line to read next is the one behind its last attribute (`OpenEntry`); the
step that closes an entry knows from there that no attribute is left behind. For
the traps it adds that every line passed could be taken (`PassInv`): a line that the
outer loop skips as an attribute is none of a medium's (`NoAttrAtTop`), one that the nested
loop takes is (`AttrOfTheOpenEntry`), and the media of the text are counted by the
entries (`MediaAreCounted`).

It goes on to requests, responses and payloads of any length, over any words,
and for descriptions of any number of media and attributes. Of the constants it assumes
that first lines have three words, which is all `rtsp_calc_msg_size` can count
(`FirstLinesAssumption`), and that a description has the fields of `sdp_t`
(`DescriptionsAssumption`). The invariant `CodecInv` (`MessagesAndDescriptions`) joins the
two parsers': a description is read only once a response that announces one is read,
and whenever an answer is made, the parser of descriptions has not begun.
`Words` are the strings and, by name, the literals the code writes, of which the provers
do not know that they are strings. Nor do they of words that are put together of others,
as in an answer: what is said of a message's words is that they are of some set `V`.

* `LinesBecomeAttributes`: what each of the nine buffers holds is the word of the nearest
  line passed that had one for it (`Held`), which makes it inductive that a line
  without a word repeats an earlier value, and never another key's.
* `DescriptionsAreReadBack`: `MediaMatch` says that the entries read are at
  increasing places of the text, where the `m=` lines are; `Layout` says where the
  marshaller puts these, by induction on the number of media; and there is only one
  increasing sequence of the same places (`IncreasingAgree`), so entry by entry the
  medium read is the medium written (`MediaReadBack`). Nothing of the body is taken
  for a line of the session (`SessionRead`).
* `SizesAreCounted`: `sdp_calc_msg_size` and `rtsp_calc_msg_size` sum field by field
  what the marshallers write line by line. The equation is shown for a line and a
  medium, and for all of them with `SumConcat`. Its hypothesis `WordsHaveLengths`
  says that `strlen` is a natural number.
* `PayloadsAreMatched`: `MediaMatch` and `TrapsForAReason` where the payload comes out of
  a message.

**Only model-checked:** liveness (`NoHang`, both `LeftAreLetGo`, `NewestIsAnswered`, `AllTaken`,
`Returns`, `StopsForGood`), which is outside the prover's reach, and `OwnMessagesSurvive`. That
one is about the few messages these two programs send and the lengths of their
very words, which are strings put together of others: the provers know neither a
string's length nor that a string with another one behind it is a string. The run goes
through all of these messages, so that a proof would add nothing to it. `OpenSpec` is
not run by itself, since nothing bounds what its clients send; its invariant is
checked in `system_overlap` and `players`, as a part of `IInv` and `PlayersInv`.

## Not modelled

Logging, dates, names and the wording of messages; memory that is leaked or
runs out (`rtsp_release_msg` and `sdp_destroy` only free); the UDP sockets, which
nobody uses; codec names in a description, which nobody reads; IPv6; the values in
an RTP header; who posts NAL units, since nobody does yet; the audio, sending,
receiving, decoding and control threads, whose functions return at once; the
inside of the cdk library, a binary.

## Plan

Of the safety properties, all but `OwnMessagesSurvive` are proved. When buffers have
storage and copies their destination: the properties of the packetizer about what
packets carry (`carried`, `header`). When the sending threads get a body: `VideoPipeline` up to the RTP queue's other end. When a player
may send a header the server does not know, or none it needs: `RtspPlayers` with the requests of
`RtspCodec`.
