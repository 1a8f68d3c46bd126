# urfd in TLA+

TLA+ specifications of the universal reflector in this repository: `urfd`
(`src/reflector/`), which joins nine digital-voice networks on common modules
A..Z, and `tcd` (`src/transcoder/`), its hybrid transcoder.  Small instances are
checked with TLC; the central results are proved for every configuration with
TLAPS.

Contents: [the system](#the-system), [modules](#modules), a section for each part
([streams](#streams), [codec stream](#codecstream), [tcd](#transcoder),
[interlink](#interlink), [fan-out and formats](#what-goes-out-and-what-comes-in),
[the other parts](#the-parts-on-their-own)), [what is proved](#what-is-proved),
[where code and words differ](#where-code-and-words-differ),
[not modelled](#not-modelled).

## The system

`urfd` runs one thread per protocol (DExtra, D-Plus, DCS, MMDVM, YSF, M17, P25,
NXDN, URF), one router thread per module, a codec-stream thread per transcoded
module, a state-report thread, the gatekeeper's reload thread, three directory
lookup threads, the Wires-X thread of YSF and the callbacks of OpenDHT.

| component | state | operations | shared with | correct when | module |
|---|---|---|---|---|---|
| packet streams (`PacketStream`, `Reflector::OpenStream/CloseStream`) | per module: stream id, owner, last packet time, queue | open, push, tickle, close, pop | all protocol threads and the module's router; **no lock of its own** | one talker per module, one module per talker; a stream that is silent is closed; what was said before a close is routed before it | `Streams` |
| protocol threads (`*Protocol::Task`) | `m_Streams`: stream id -> stream; ids of P25 and NXDN; `m_StreamsCache` | packet, `OnDvHeaderPacketIn`, `OnDvFramePacketIn`, `CheckStreamsTimeout`, `HandleQueue`, `HandleKeepalives` | the above, clients | a transmission is opened once and kept by somebody who will time it out; a datagram is taken for what it is | `Streams`, `SharedIds`, `Sessions`, `Fanout`, `Wires` |
| client list (`Clients`, `Client`) | list under a mutex; per client: module mastered, module linked, time of the last keepalive | add, remove, find, mark as master | protocol threads, reports | a master is never removed; nobody remains a master without a stream; one entry for a station | `Streams`, `Sessions` |
| router (`Reflector::RouterThread`) | - | pop, copy to every protocol's queue | streams, protocol queues | every packet reaches every protocol once, in order | `Fanout`, `Service` |
| packets (`Packet`, `DVFramePacket`) | number of a frame in each mode's group | construct, `UpdatePids`, interlink | streams, protocols | groups of each mode come out whole, whoever talks | `Superframes` |
| codec stream (`CodecStream`) | open flag, stream id, packet count, two queues | reset, report, task | its packet stream, tcd | voice comes back in the order spoken, at most once | `CodecStream` |
| tcd (`transcoder/Controller`) | packets per module, codec queues | read, convert, send | codec-stream threads | one reply per packet, when all codecs are set | `Transcoder` |
| URF peers (`URFPeers`, `URFProtocol`, `InterlinkMap`) | peers and their clients; interlink map; search of the DHT | connect, acknowledge, ping, disconnect, reload | clients, gatekeeper | a peer's clients are listed exactly while it is; who list each other get linked; no half links | `Interlink` |
| gatekeeper (`GateKeeper`, `BlackWhiteSet`) | two sets, file times | load, reload, `MayLink`, `MayTransmit` | every protocol thread | decisions follow the files as they are | `Lists` |
| lookups (`Lookup`, `LookupDmr`, `LookupNxdn`, `LookupYsf`) | maps id <-> callsign, backup, last load | download, back up, read file, update | protocol threads, callsigns | the directory says what its sources say, also without the server | `Directory` |
| start and stop (`Main`, `Reflector`, `Protocols`) | `keep_running`, futures | `Start`, `Stop` | all | `Stop` ends; nobody uses what is destroyed | `Service` |
| Wires-X (`WiresXCmdHandler`) | queues of commands and packets | take a command, answer, move a client | YSF thread | an answer arrives whole | `WiresX` |
| configuration (`Configure` of urfd and tcd) | json of the keys | read, check | all at the start | what a component asks for is there | `Configuration` |
| callsigns (`Callsign`, `DVHeaderPacket`) | letters, module, ids, M17 address | set, patch, code, encode | every packet | the address is that of the letters and the module | `Callsigns` |
| codes (`Golay*`, `Hamming`, `BPTC19696`, `QR1676`, `RS129`, `CRC`, `YSFConvolution`, `YSFFich`, `YSFPayload`) | - | encode, decode | protocols | what they repair is repaired | `Codes`, `Payloads`, `NoisyLink` |
| users (`Users`), reports, dashboard, radmin, vocoders | | | | | see [not modelled](#not-modelled) |

The threads meet in four ways: the mutexes of the client list, peers, users,
protocol list, directories and lists; the safe queues of the streams, protocols
and the Wires-X handler; the fields of `CPacketStream`, which nothing protects; and
`keep_running`.

**Behaviours that are hard.**  A module is opened by whichever protocol thread
gets the clients mutex first, but it is closed without it; a thread whose open is
refused still keeps a handle and closes the stream a second time; M17 releases
the mutex before it opens; a close holds its thread until the router has emptied
the queue; clients are removed by disconnects and keepalives at any time, and
relinked while they talk; voice at the transcoder outlives its stream; connects of
two reflectors cross, get lost, and meet a restart or a peer that talks; a list is
emptied and filled while others ask; one file or server feeds a directory while
the other fails; a stop waits for threads that wait for packets.  The list, each
item with its source line and the properties for it, is `hazards` in
`PROJECT.json`.

## Modules

| module | what it is |
|---|---|
| `Floor` | Abstract specification: who has the floor of each module and what was said but not yet routed. |
| `Streams`, `StreamProps` | The open/close protocol of the streams, with the client list, the nine protocol threads, the routers and time; what it is meant to guarantee, and the refinement mapping to `Floor`. |
| `StreamHistory`, `StreamProofs` | How far it does: a history of the threads that meet on a module and of the ids that M17 set, the properties in its terms and the inductive invariants; the theorems. |
| `VoicePath` | Abstract specification: a way that may lose voice, but neither doubles it nor changes its order. |
| `CodecStream`, `CodecStreamProps`, `CodecStreamProofs` | The codec stream of a transcoded module, between its protocol thread and the transcoder; properties and the refinement of `VoicePath`; theorems. |
| `Transcoder`, `TranscoderProps`, `TranscoderProofs`, `TranscoderOrderProofs`, `TranscoderVoiceProofs` | The transcoder daemon: the way of a packet through the four vocoders; properties and the refinement of `VoicePath`; theorems on types and the room of devices, on the order of replies and on whose voice is in them. |
| `Interlink`, `InterlinkProps`, `InterlinkProofs` | How two reflectors link, find each other in the DHT, keep each other alive and part; properties; theorems. |
| `Fanout`, `FanoutProps` | From the streams through router and protocol queues to the packets that the clients of one protocol are sent; properties. |
| `Superframes` | The numbers of a voice packet in each mode's groups, and the groups that are made of them. |
| `Wires` | The datagrams that each protocol encodes, and what its validators take them for. |
| `Codes`, `Payloads`, `NoisyLink` | Error-correcting codes and check sums; the payloads of DMR, YSF and NXDN that carry them; a link that turns bits round. |
| `SharedIds` | The stream ids of P25 and NXDN, one for all stations of a protocol. |
| `Lists` | White and black list, reloaded while they are asked. |
| `Directory` | The refresh loop of the directories. |
| `Service` | Start and stop: which thread starts, waits for and ends which. |
| `Sessions` | How a station of each protocol comes, stays and goes. |
| `WiresX` | The Wires-X commands and their answers. |
| `Configuration` | What urfd and tcd take from the one ini file. |
| `Callsigns` | A callsign, its ids, its M17 address, and the headers that carry it. |
| `MCStreams`, `MCStreamHistory`, `MCCodecStream`, `MCTranscoder`, `MCInterlink` | Instances of the first components for TLC. |
| `FormatProps`, `FormatProofs`, `MCFormats` | `FanoutProps`, `Superframes`, `Wires` and `NoisyLink` side by side: the initial state chooses the part; theorems about `Fanout` and `Superframes`; an instance for TLC. |
| `PartProps`, `PartProofs`, `MCParts` | The eight parts from `SharedIds` on, in the same way; theorems about each of them; an instance for TLC. |

`FormatProps` and `PartProps` put parts side by side that share nothing: an initial
state chooses one part, whose variables then move while those of the others stay 0.
A property of these modules is `part = "..." => ...` with the module's own
property behind it.  Their `FairSpec` is each part's own fairness, in the same
form; a part that has come to its end stutters.

The runs, all within a few minutes on two cores:

| run | configuration | shows |
|---|---|---|
| `floors` | `Streams_floors.cfg` | until two threads meet on a module, ids, owners, masters and handles agree, and the streams implement `Floor`; always, masters stay listed, and an id is on two modules only if M17 opened one |
| `silence` | `Streams_silence.cfg` | silence frees all floors |
| `shared` | `Streams_shared.cfg` | **violated**: a second close takes the next talker's owner |
| `m17_loop` | `Streams_m17_loop.cfg` | **violated**: M17 and DCS open one id on two modules |
| `codec_voice` | `CodecStream_voice.cfg` | voice comes back in order, and, as long as the code may rely on what it relies on, each frame with its own answer |
| `codec_late` | `CodecStream_late.cfg` | **violated**: the thread waits for itself |
| `tcd_voice` | `Transcoder_voice.cfg` | each packet is sent back, once, in order, with its own voice |
| `tcd_faults` | `Transcoder_faults.cfg` | failing devices and overlapping transmissions cost answers, not order |
| `interlink` | `Interlink.cfg` | who list each other get linked; links end on both sides; no talker loses his link |
| `formats` | `Formats.cfg` | what is said is heard by the clients of every protocol |
| `parts` | `Parts.cfg` | the parts that are modelled on their own |
| `nxdn_header` | `NXDN_header.cfg` | **violated**: the header that the NXDN thread uses was not made |

## Streams

State and code:

| variable | code |
|---|---|
| `listed`, `gone` | `CClients::m_Clients`; clients that left it |
| `master[c]` | `CClient::m_ModuleMastered` |
| `linked[c]` | `CClient::m_ReflectorModule` |
| `sid[m]`, `owner[m]` | `CPacketStream::m_uiStreamId`, `m_OwnerClient` |
| `fresh[m]` | `!IsExpired()`: the last packet is younger than `STREAM_TIMEOUT` |
| `queued[m]` | length of the stream's `m_Queue` |
| `handles[p]` | `CProtocol::m_Streams` |
| `lock` | the holder of `CClients::m_Mutex` |
| `pc[p]`, `todo[p]`, `op[p]` | where a thread is, the iterator of `CheckStreamsTimeout`, the arguments of the call in progress |

One action is what a thread does between two points at which another thread can
see it.  Work under the clients mutex that touches nothing else is one action
(`Connect`, `Disconnect`, `Keepalive`, `Unmaster`).  `OpenStream` is split at each
access to the unprotected fields of the stream: the checks (`Admit`, `Refuse`),
the test of the id (`Test`), its assignment (`Claim`), the owner (`Fill`), the
master mark and the header (`Mark`), the handle (`Keep`); `CloseStream` likewise
(`Drained`, `Unmaster`, `Zero`, `Disown`).  Each protocol has its own header
action, with what it does about the module: D-Plus checks the module and moves
the client to it, YSF may move the client by DG-ID, MMDVM links by talkgroup, URF,
P25 and NXDN use the linked module, M17 holds no lock.

Abstractions:

- A client object is listed at most once in its life and has an address of its
  own, so `AddClient`'s test for duplicates never hits.  A reconnection is a new
  client.
- All the frames of a packet are one element of the queue.  `WithVoice` names the
  protocols whose packets are header and voice at once; those for which that
  depends on the packet choose freely.
- Packets are chosen, not received: any client, id and module a packet of that
  protocol can name (`Reach`).  What the gatekeeper or a check refuses is
  `Nothing`.
- Modules are not transcoded: every packet goes straight to the stream's queue.
- The router only takes packets.  `HandleQueue` sends and changes nothing here.
- `Keepalive` may remove any client that is not a master.
- The Wires-X thread, which also links YSF clients, is covered by the choice of
  `YsfHeader`.

### Runs

| run | instance |
|---|---|
| `floors` | two clients of YSF, or one each of YSF and D-Plus, D-Plus and DExtra, NXDN and MMDVM, MMDVM and M17; NXDN reaches A, M17 B, the others A and B; 2 ids, queue of 2 |
| `silence` | URF, DCS and P25, a client and a module each, one id, queue of 1, with fairness |
| `shared` | DCS and DExtra on A |
| `m17_loop` | M17 and DCS on A and B, one id |

Protocols share the modules, and M17 runs beside them: nothing in the code keeps them
apart.  What `StreamProps` states (`Agreement`, `SidsUnique`, the mapping to `Floor`) is
what the code means to guarantee, and it does not always hold: `shared` and `m17_loop`
end in a violation.  `StreamHistory` says how far it does, with two history variables
that no action of the program reads:

- A thread *attends* to the modules it has a handle of and to the one it is opening or
  closing (`Attended`).  `crossed` becomes true when a thread that passed the checks of
  `OpenStream` comes to the stream of a module to which another attends: it is then
  handed out a stream it may have no part in (`Reflector.cpp:290`) and will close it
  too.  It becomes false when all is at rest (`AtRest`): no stream, no handle, no master,
  nothing queued.
- `loose` has the modules whose id was set by a thread without the clients, that is by
  M17.

`AgreeUntilCrossed` and `FloorUntilCrossed` say that while `crossed` is false ids, owners,
masters, handles and queues agree and the floor is taken and given up as `Floor` says.
So the modules may be shared by all protocols, one talker after the other, and what
goes wrong after a meeting is over when the streams come to rest.  `crossed` is one
flag and not one for each module: a client whose mastership was lost on one module may
open a second one, and a stream that is left open without a master keeps its id from
being used elsewhere.  `LockedSidsUnique` says that two modules carry the same id only
if one of them is in `loose`; it holds whatever threads meet.

Bounds: two clients of a protocol (YSF) so that a second talker of the same thread meets
a stream that is open (the refused open, the second handle); two protocols on the same
modules so that threads contend for the mutex and for an id and modules pass from one
to another; two ids so that handles must be told apart, of which both talkers may use
the same; two modules where a talker could hold two.  Two constraints bound `floors`.
`MCOneParty`: in each behaviour one of the pairs comes, which between them have the
threads that relink a talker (YSF, D-Plus, MMDVM), find a stream by address and open
with the clients released (M17).  `MCWindDown`: once two threads have met, no
further call of `OpenStream` begins until all is at rest; the calls and closes under
way go on in all orders, and from rest all begins again.  `AgreeUntilCrossed` and
`FloorUntilCrossed` claim nothing of what is cut off, and `LockedSidsUnique` and
`MastersListed`, like those two, are proved without a bound.  The ids are
symmetric.  `MaxQueue` bounds what waits in a queue: with 1 the router must run
between header and voice, with 2 (`floors`) a close meets a queue that is longer
than one.  The bound disables a push on a full queue; the real queue has none.  In
the run with fairness a push that waits does not hold up its thread for ever, for
the router is fair.

Fairness (`silence`): every thread runs on; the router takes what is queued; time
passes.  Strong fairness of `Unmaster` and `Keepalive` says that a thread that asks
for the clients mutex again and again gets it: it is held for a few instructions
by threads that then wait up to 20 ms for a packet.  `FloorsFreed` assumes that
talkers are silent at last (`Quiet`), since a stream that is talked on stays open.

## CodecStream

| variable | code |
|---|---|
| `phase`, `ids`, `said` | the protocol thread: inside `ResetStats`, open or closed; the ids of the streams it opened; the frames it pushed |
| `isOpen`, `sid`, `total` | `m_IsOpen`, `m_uiStreamId`, `m_uiTotalPackets` |
| `queue`, `local` | `m_Queue`, `m_LocalQueue` |
| `tc` | frames sent on the socket that `tcd` has not answered, or whose answer was not read |
| `pc`, `frame`, `pack` | the codec thread in `Task`, its `Frame` and `pack` |
| `returned` | what was given to `ReturnPacket`, and the answer in it |
| `lost` | frames whose answer was lost |
| `timely` | history: so far every stream was closed when all it had said was answered or lost |

Two threads and the transcoder interleave.  `ResetStats` writes its three fields
one at a time (`Flag`, `Name`, `ResetCount`) while `Task` reads them; `Task` is cut
at each read.  The transcoder answers what has one stream id in the order in which
it was asked, and may let one transmission overtake another: that is what
`Transcoder` has of it (`RepliesSound`).  It answers later or never; `Lose` is
its restart.  A frame is a record: `nr`
counts all that was said and is read by no code, `seq` is set by `SetTCParams`.
Two actions of `Task` are `PopWait` on `m_LocalQueue` (`OtherStream`, `Earlier`):
they are disabled while the queue is empty.

Not in it: frames from URF peers, which bypass the codec stream; the second close
of a stream by a thread whose open was refused (see `shared` above), which would
close the codec stream of a talker.

| run | instance | shows |
|---|---|---|
| `codec_voice` | 3 transmissions, 2 ids, 3 frames, answers may be lost, fairness | order is kept and nothing doubled, always; while `Relied` holds, each frame has its own answer, one lost answer costs one frame, the thread never waits for itself, and all comes back |
| `codec_late` | 2 transmissions, 2 ids, 3 frames, no answers lost | **violated**: the thread waits for itself |

`Relied` is what the code relies on and nothing in it makes sure of.  `timely`: a
stream, which closes `STREAM_TIMEOUT` (1.6 s) after the last push, closes when the
transcoder has answered all it will answer; `codec_late` shows what follows if not.
`NewIds`: transmissions have different stream ids, which the random ids of D-Star,
DMR and M17 nearly do and those of YSF, made from the address, do not: with one id and lost
answers frames of the previous transmission are heard again.  Both are predicates of a state, so the one
passing run explores also what happens without them, and its conditional properties
say nothing there.  Three transmissions let a frame survive one transmission unseen
and meet another, under its own id or a different one; three frames are one for
each, or two that differ in one and a third after them.  The run does not check for
deadlock, since a codec thread that waits for itself when everything is said is one,
and `codec_late` is about it.  Fairness: the codec thread runs on, and what the
transcoder does not lose it answers (`SF`, as the codec thread listens for 5 ms at a
time, between sending, and an answer that has arrived is read by the next
`Receive`).

What is proved of it (`VoiceKeepsOrder`) needs neither.

## Transcoder

| variable | code |
|---|---|
| `packets` | the `CTranscoderPacket`s, with the codecs set (`data`), the audio and `not_sent` |
| `latest` | where the reflector is in the transmission of each module |
| `queue` | `codec2_queue`, `imbe_queue`, the `input_queue` of each device |
| `waiting` | `CDVDevice::waiting_packet`, by channel |
| `depth` | `buffer_depth`, unsigned: `DepthRange` stands for 2^32 |
| `busy` | feed threads between writing a request and `buffer_depth++` |
| `chip` | requests the device has not answered |
| `todo` | the packet a thread has decoded or encoded, and what it still does with it |
| `store` | `data_store`, `audio_store` |
| `replies` | what `SendToReflector` wrote |

Threads: the reader of the reflector's sockets; a feed and a read thread for each of
the two devices (D-Star and DMR); one thread for Codec2 and one for IMBE.  All
modules share them (the transcoder's README.md:15 speaks of an instance per module,
on a thread of its own; the code has one thread per vocoder).  A thread that has
decoded a packet pushes it to the three others, one push an action (`PassOn`), so
that a packet may come back from one vocoder before it is pushed to the next.  The
test and the send are one action (`Finish`), for they are under `send_mux`.  Feeding a
device is one action up to the request, and `buffer_depth++` another (`Count`): the
answer may be read, and counted down, in between, where the count wraps.  A device
answers each channel in order and the channels in any order.  A module's channel on
both devices is named by the module.  Voice is a record of module, transmission and
sequence number; encoding and decoding keep it, and Codec2 at 1600 has two to a
packet of which the second half is kept for the next (`store`).

Faults, where `Faulty` says so: a response that cannot be read, or a request that
could not be written (`NoResponse`), leaves its packet in the waiting queue and its
count in `buffer_depth`; a response of another type (`UnexpectedResponse`) takes the
packet out and leaves the count.  After the first, answers of the channel go to the
packet before theirs, for good, and `OwnVoice` is lost; what is not lost is in the
second run.

| run | instance | shows |
|---|---|---|
| `tcd_voice` | one module, 3 packets, talkers in D-Star, M17 (both rates) and P25, no faults, `Timely`, fairness | each packet is sent back, once, in order, with its own voice in every codec |
| `tcd_faults` | two modules, DMR, 3 packets, faults, transmissions overlap | within a transmission order is kept, and no module hears another (`RepliesSound`) |

`Timely` says that a module's next transmission begins when the one before is sent
back, as `STREAM_TIMEOUT` makes it in practice; without it, one in another codec
enters at another vocoder and may overtake.  Three packets make the device's room of
two and a pair of M17 packets matter, with one more to follow them; a device treats
D-Star and DMR alike, so one codec is enough for the faults and two modules can be
had there.  `MaxPackets` is at most 200, where `AddPacket` ends the daemon.
`DepthRange` of 8 is above every count.  Neither run checks for deadlock: when the
packets of the bound are through, nothing moves.  Fairness: each thread runs on and a
device without faults answers.  `CController::Stop` is not modelled: nothing calls
it, since `main` returns from `pause()` only when a handler is installed, and none is.

## Interlink

| variable | code |
|---|---|
| `file`, `mtime` | the interlink file of each reflector and its modification time |
| `map`, `seen` | `CInterlinkMap`, and its `m_LastModTime`; an item's address is unset, fetched from the DHT, or set |
| `peers`, `age` | `CURFPeers`: the modules a peer is linked for; `m_LastKeepaliveTime`, in rounds |
| `clients` | the clients of protocol URF, a peer and a module each |
| `talking` | those of them that are masters of a stream |
| `asked`, `cfg` | the searches of the DHT under way, and the one static `cfg` of `GetDHTConfig` |
| `net` | CONN, ACKN, PING, DISC and headers under way |
| `owed` | what each reflector's thread does in this round and has not done |

A round is `URF_RECONNECT_PERIOD`; in it each reflector runs `HandleKeepalives` and
`HandlePeerLinks` once and may send the speech of its module.  The network loses and
reorders messages until it is calm; it does not double them.  Peers are looked for
by callsign.  A NACK is only logged, and left out.
The two callbacks of a search share one `cfg` with all other searches, as in the
code: a value is kept if it is newer than what is there, whoever it is about, and
`HandlePeerLinks` empties it when it asks again.  A transmission is a header and an
end.  The mutexes of peers, clients and map are not there: they are
taken in one order (map, peers, clients), and each handler is one action.

Run `interlink`: two reflectors that run the program, a third callsign that is never
reached; four pairs of interlink files (both list each other, with the DHT on one
side; one lists somebody else; an empty file, which lets everybody link); one change
of a file or one restart of one side; silence for three rounds is a timeout.
`LinkOutlivesTalk`, `ClientsFollowPeers`: a peer with a client that talks is kept
whole, whatever disconnects, times out or leaves the file.  `LinksComeUp`: two that
list each other for the same modules get linked, and stay so, after any losses, once
the network is calm.  `LinksGoDown`: a reflector that takes a peer out of its file
ends the link on both sides, once both are silent.  `NoHalfLinks`: a link of one
side does not stay for ever.  A third reflector that answers would add nothing: no
rule relates two peers but the shared `cfg`, which the third name has a part in.
One change is enough, for what it leaves behind is worked off with the messages of
before, in any order, and a second one would start from a state that a loss can
also make.

Fairness: threads run on, streams end, the file is looked at again, and rounds pass.
A calm network delivers, as all that was sent in a round must have been taken before
the next one.  Nothing makes an operator write, a reflector restart or a network
become calm; the liveness properties say what they assume of that in `<>[](...)`.

## What goes out and what comes in

These four share the run `formats`, one part of it each.

### Fanout

| variable | code |
|---|---|
| `protocol` | the protocol whose clients are watched, one to a behaviour |
| `linked` | `m_ReflectorModule` of each client |
| `talks`, `now` | the transmissions so far; `m_uiStreamId` and `m_uiPacketCntr` of each stream |
| `codec` | frames in the codec stream of a module |
| `stream`, `queue` | `m_Queue` of each packet stream, `m_Queue` of the protocol, which all modules share |
| `cache` | `m_StreamsCache`: header, frames and count of each module |
| `out` | what was sent last on each module, and to whom |

Each of the nine `HandleQueue` is an action: D-Plus repeats the header to clients,
DCS and P25 send a packet for a frame, M17 one for two, MMDVM, NXDN and YSF groups of
three, four and five, URF only what is of local origin.  Protocols share nothing
below the router, so one at a time is watched.  Module B is transcoded: its frames
may be lost in the codec stream, and its properties are those that losses leave.
Two transmissions, two frames more than a group, queues of one and one client: the
second transmission meets the cache and the queue of the first, on the same module
or on the other.  `Prompt` names the modules where no packet is under way longer than
`STREAM_TIMEOUT`: only there can `NoEcho` say that nobody hears himself, for the
mark of a master is looked at when the packet is sent, not when it was said.
`Period` is 3 and not 21, so that a D-Plus header repeats within the bound.

### Superframes

A station's protocol numbers its own packets, and `CPacketStream::Push` numbers them
for the other modes (`UpdatePids`); by the numbers the grouped modes put 3, 5 and 4
packets into a datagram, M17 takes every second one.  Talkers in six modes, each
heard by the others, here or at a peer to which the packets go over the interlink;
two transmissions of nine frames, so that in each mode some are left over for the
next, and two lost packets anywhere.  `HeardInAllModes` says that a frame is heard in
its own place and only in the place of a lost one is an earlier frame heard again;
that every group whose last packet came is sent; and that without losses M17 gets
each pair once.  `Fed` leaves out NXDN where the number is not carried (see
[differences](#where-code-and-words-differ)).

### Wires

A datagram is its size and the fields that some validator looks at; a validator is a
form, the sizes and values it accepts; `Forms` has those of the nine protocols in the
order in which their `Task` tries them, `Sends` what the encoders build.  The run
sends every datagram of every protocol to another reflector.  `DatagramsUnderstood`:
it is taken for what it is, but for the five in `Misheard`, and no datagram has two
meanings, so that the order of the validators is of no matter.  Sizes go to 600; UDP
buffers hold more, and no size above is used by any protocol.

### Codes, Payloads, NoisyLink

A word is the set of its bits that are 1.  The tables of the source
(in `Golay24128.cpp`, `Golay2087.cpp`, `QR1676.cpp`, `CRC.cpp`, `RS129.cpp`,
`YSFDefines.h` and others) are stated as the rule that made them: division by the
generator polynomial, the parity checks of a Hamming code, powers in the field of
256, a shift register.  The decoding tables of the shortened
codes hold an error for every syndrome; `Repaired` has those within the distance of
the code (in `Golay2087.cpp` four of the heavier ones are 0).

`Payloads` puts the codes where the datagrams have them: the AMBE frames of NXDN and
YSF, NXDN's SACCH, the YSF voice, signalling and header parts with whitening and
interleaving, the DMR voice frames, their embedded signalling and the link control.
`NoisyLink` encodes, turns bits round, as many as `Known` says of the code (all it
repairs or must notice, or one where the word is long), and decodes; the Viterbi decoder of the FICH and YSF data runs as its own steps, pair
by pair and then back.  `ErrorsRepaired`: what was encoded is decoded, and a check sum
lets no error of that weight pass.  One data word is taken, without regularity, since
the codes are linear: which errors are repaired does not depend on the data.
Every place of the errors is tried.  Vocoder data are opaque.

## The parts on their own

These eight share the run `parts`.

### SharedIds

P25 and NXDN packets have no stream id; the thread draws one and keeps it in one
variable for all stations.  `Stations` c on A, d and e on B; they begin, go on and stop
in any order, packets and terminators get lost, streams time out.  The ids are 0
(none), 1 (one whose lower 16 bits are 0; packets carry no more), and three others.
`HandlesLead`: every open stream is one its thread finds by its id, and so times out.
`FreeIsHeard`: a station without a stream whose module is free opens it with its next
packet that carries a header, under an id by which its thread then knows the stream,
whatever id was left behind (P25: if a terminator took it away).  NXDN is heard with
that packet.  P25 makes the frame of a packet before it looks for the header
(`P25Protocol.cpp:361, 374`), so with the id there was before, 0: it drops the frame of
the packet that opens, like those before it, and is heard from the next one on.  In run `nxdn_header` a station announces
itself again while its stream is open; `Task` uses a header that was not made.

### Lists

The gatekeeper's thread compares the time of each file with what it knows, clears the
set under its mutex, fills it and takes the time, each an action; protocol threads
ask at any time.  Files hold items with and without `*`, comments, lines of 255
characters and more, and may lack a last newline; they are replaced as a whole, get a
younger or an older time, and are removed.  Two changes within two seconds make the
change during a load, the change within the same second and the older time happen.
`NobodyUnlisted`: nobody who is shut out by every version of a list is let in, not
even while it is loaded.  `ListsSettle`: the sets end up as their files say, but for a
file written while it was loaded, or twice in a second.  Fairness: the thread runs on
(it sleeps 30 seconds at a time).  The third list is the map of `Interlink`.

### Directory

One thread takes ids from a server, from a file, or both, by `m_Type`; a failed
download leaves its lines in the string stream, to which the backup is added; an
empty source sets failbit, after which nothing is read.  Contents: one without any
text, one without a valid line, two with lines of which two share an id; the file
changes once, with any time.  `BackupHeld`: after a download the directory has what
the server last sent and a restart without server would find it; `FileWins`: what the
local file says is in the directory in the end.  Both name what they except: a source
without text, a backup that cannot be written, a first line that a cut-off one has
swallowed, a file that did not get a later time.  Three cycles are a download period
(in the code by `RefreshMin`), so that cycles with and without download alternate.
DMR, NXDN and YSF share `CLookup`; the maps of the third have frequencies.

### Service

The main thread starts helpers, protocols and routers and later stops and joins them;
a port may be taken, a transcoder absent; protocol threads open and close streams,
routers pop and copy.  Two protocols and two modules, one with a transcoder, are
enough for a failure before, between and after the others.  `AllProtocolsThere`: a
router never hands a packet to a destroyed protocol.  `OnlyKnownWaits`: start and stop
come to their end unless the main thread waits as one of the four cases of `Stuck`
says, which are real (below); there is no fifth.  Fairness: every thread runs on; a
router that asks for the mutex of the protocols gets it.

### Sessions

One station of one of the eight client protocols, with one address, and its entries
in the list: it connects, polls, talks, links to another module, disconnects with or
without being heard, and dies.  Each protocol's connect, keepalive, disconnect,
header and `HandleKeepalives` is an action.  Who is dropped is told, if his protocol
tells him, by a packet that may be lost.  `OneEntry`: one entry for a station found by
its callsign, and for the others none on a second module unless they strayed;
`DeadForgotten`: a station that died is forgotten, even while it talked.  A timeout is
two periods instead of ten or thirty: it needs one more than the period of a single
keepalive.  Fairness: `HandleKeepalives` runs, and streams close, which is what
`silence` shows of `Streams`.  Addresses are opaque; that two stations share one is in
`Streams` (a client is chosen freely).

### WiresX

A radio's command goes into a queue, ripens a second, and is answered by the
handler's thread in blocks and frames; of an answer only the size matters.  All 26
modules, lists that start at the first, on both sides of a page and of the end, and
behind it; one command and one datagram queued, with the YSF thread taking datagrams
and moving or removing the radio at any time.  `WholeAnswers`: a radio that has heard
the end of an answer has got every block and frame once, in order, and all bytes.

### Configuration

A line is absent, right, wrong, or, for `Transcoded`, in another section; the
initial state changes any two lines of a right file.  urfd reads it into its json
object, applies defaults and checks; tcd reads it for itself.  `KeysThere`: with a file
that urfd accepts, what a component asks for without looking first (`Asked`) is
answered with the type it is read as, the linked and transcoded modules are
configured, each directory has a mode, and tcd, if it runs, transcodes the same
modules.  The lookups ask for URL, refresh period, file name and backup whatever their
mode (`LoadParameters`), while `ReadData` checks them by mode: what the mode makes no
use of (`Unused`) may be missing and is read as an empty string or zero, with a
complaint in the log.  So is the `RegistrationID` of a reflector that has none
(`YSFProtocol.cpp:46`).  These are the two exceptions in `KeysThere`, and what `Used`
says of `CLookup::Thread` is why the first does no harm.  Two lines are
enough, since every check of `ReadData` relates at most two (a binding and an
external address, a mode and what it needs, a set of modules and another).

### Callsigns

One `CCallsign` goes through any sequence of constructors, setters, address, header
and interlink, with both directories changing.  `HeardAsSent`: its M17 address is
read as the same letters and module, and so are its eight bytes; but for addresses
too large.  The names: one the directories have, one that is a reflector's with module,
one of eight letters with a lower-case one and a mark.

## What is proved

`StreamProofs` proves for every set of clients, protocols, modules, ids and every
`MaxQueue`:

- always: `TypeCorrect`, and `MastersListedCorrect` by `CallInv`, which says what a
  thread knows about the client it opens for: it is listed, it is the thread's own,
  and until `Mark` no master.  Without it `Mark` could mark a client that left.
- with the history: `LockedSidsUniqueCorrect` by `SidInv`: who is inside `OpenStream`
  and is not M17 holds the mutex, so what its checks found is still true at `Claim`, but
  for the modules that M17 opened meanwhile, which are in `loose`.
- with the history: `AgreeUntilCrossedCorrect` and the refinement `FloorRefinement`, by
  `UncrossedInv`: while `crossed` is false, `FloorInv`.  No module has two threads that
  attend to it, and one that nobody attends to is free; so opens and closes of one
  stream are done by one thread, and still interleave with the router, time, every
  other thread's use of the client list, and M17 between its check and its claim.
  `OwnFloor` describes each module of a thread at each stage of the thread's work on
  it: whether the id is set, who owns it, whether that client is its master, whether
  anything is queued, which handle names it.  `OwnSids` adds that ids differ among the
  modules of one thread, which is what makes a handle name one stream and which holds
  for M17 too, as only its own thread opens there.  That `crossed` may be false again
  is `RestIsAStart`: at rest there is nothing left that could disagree.

None of the three has a hypothesis on the configuration: `HSpec` is `Spec` with the
history, which restricts no step (`HistoryWatches` is the direction the proofs use).

The refinement maps the holder of a floor to the owner of the stream while he is
its master: a floor is taken at `Mark` and given up at `Unmaster`; all else is
speaking, playing or stuttering.

`CodecStreamProofs` proves, for any number of transmissions, frames and ids and without
`Relied`: `CodecTypeCorrect`, and `VoiceKeepsOrder`, that the codec stream implements
`VoicePath`, that is, frames are heard at most once and in the order in which they
were said.  The invariant, `OrderInv`, says that what was given back, the frame in
hand, the local queue, the frame about to be sent and the queue follow each other in
the order of speech; `CountInv` bounds the sequence numbers by what was said.

With the hypothesis that the properties have, `Relied`, it proves `NeverWaitsThenCorrect`,
`RightVoiceThenCorrect` and `OnlyLostMissingCorrect`, by `ReliedInv`, the thread's
account of its frames: while a stream is open, a frame of it has the sequence number
that its place after those of earlier streams gives it, and any other frame an id that
is not the stream's; what `tcd` still owes is in the local queue, in the same order;
and what was sent and not given back is owed, in hand, or lost.  So the answer that
arrives is that of some frame in the local queue, and the thread, which gives up
frames until it meets one with the answer's id and number, stops at that one: it
neither empties the queue nor stops too early.  `Relied` cannot come back once it is
gone (`RelianceEnds`), which is why it may be assumed of the state before a step.

`TranscoderProofs` proves, for every set of modules and codecs, any number of packets
up to 200 and faults or none: `TranscoderTypeCorrect` and `RoomIsKept`, that a device
never has more than two requests.  The invariant is `DepthInv`: for some n of at most
two, the device has no more than n requests and the count is n, or while the feed
thread has one to count, one below, which for 0 is 2^32 - 1.  Only that form survives
a leak.

`TranscoderOrderProofs` proves of the same instances, faults included:

- always: `RepliesAreSound`.  Within a transmission no reply overtakes another.  The
  invariant is `TurnInv`: when a packet is in the queue or the hardware of a vocoder or
  has its result, no earlier packet of its transmission is still to be passed on to
  that vocoder, and when it has its result none is still there.  It needs `JobInv` (a
  vocoder that decoded a packet passes it to each of the others once) and `StreamInv`
  (a transmission keeps its codec, so that all its packets are decoded at one place).
  A packet is complete only after all vocoders had it; so had they all before it.
  A fault may give an answer to the packet before its own; the order of the lines,
  which is all the argument uses, stays.  `ModuleInv` follows the voice itself: what is
  in a packet, in a device under a channel, or kept as half of a pair is of one module.
- with `Timely`: `RepliesComeInOrder`, that for each module `tcd` implements
  `VoicePath`.  `TimelyInv` says that what is not sent back is of the last
  transmission, so the order within one is an order of all.

`TranscoderVoiceProofs` proves `OwnVoiceCorrect`, for any modules, codecs and number of
packets, with `Timely` and without faults: every reply has, in every codec, the voice of
its own packet.  Both hypotheses are needed: an answer that is lost shifts those of its
channel, and where transmissions of a module overlap the half that is kept of one may be
joined to a packet of the next (TLC finds it in `tcd_voice` with `Timely` false and
talkers in D-Star and P25).  `VoiceInv`, which is inductive beside `OrderInv`, follows the
voice:

- `PlaceInv`, that no packet is lost: what a vocoder has not set is still to be passed
  on to it or in its queue or hardware; and `ValueInv`, that what is set is right;
- `ChipInv`: for each channel, the requests in a device are those of the packets that
  wait on it, in their order, so the answer that is read is that of the head.  That there
  are never more than two (`DepthInv`) is used here: the proof knows a device's requests
  as the first and the second;
- `NumberInv`, that the reflector numbers a transmission without a gap; and `StoreInv`,
  that each store holds the half of the last first packet that M17's thread had.  The
  argument that a second packet finds its own half there is `FirstPlaced`: the packet
  before it has passed, by the order of the queue; nobody after it has, since packets of
  its transmission have not overtaken it (`TurnInv`) and a later transmission has not
  begun while it is under way (`TimelyInv`); and nobody between, since there is no number
  between theirs.

`InterlinkProofs` proves, for any reflectors, names, modules and interlink files, a
network that loses and reorders, restarts and files that change:
`InterlinkTypeCorrect`, `ClientsFollowPeersCorrect`, `TalkersLinkedCorrect` (who talks is
a client), and the action property `LinkOutlivesTalkCorrect`.  The invariant is
`Linkage` of each reflector: the clients are those of the peers, a peer and a module
each, and the talkers are among them.  The second part is what keeps the first: a
peer is removed with all its clients or, if one talks, not at all.

`PartProofs` proves of the parts of `PartProps`, each with the `Inv` of its module:

- `HandlesLeadCorrect` and the action property `FreeIsHeardCorrect` (`SharedIds`), for
  any stations, modules and ids: no handle is kept under the id 0, an open stream is
  under the handle of its own id, and one that is closed belongs to nobody.
- `OneEntryCorrect` (`Sessions`), for any modules and any number of periods: the list
  has no entry of the station or one, whatever `HandleKeepalives` drops; an entry of one
  that names its module is on the module it named, unless it strayed.
- `AllProtocolsThereCorrect` (`Service`), for any protocols and modules in any order:
  before all protocols have been made and from the first that is destroyed on, every
  router is not yet started or has ended.  It is the joins in `Stop` and in the failing
  `Start` that give this; the mutex of the protocols, which `Push` holds, is not needed.
- `NobodyUnlistedCorrect` (`Lists`), for any callsigns, versions of the lists and times:
  a list that nobody has locked is what some version of its file says, or is not read
  at all, and what the thread fills it with is a version too.  So nobody sees one that
  is cleared and not filled.
- `BackupHeldCorrect` (`Directory`), for any contents of page, file and backup, any mode
  and any period: while a refresh is under way the lines of the backup are in the
  stream (`Carried`), one after the other, wherever they begin; in mode `http` they are
  its last lines.  So `UpdateContent` puts them into the maps, and since a later line
  wins over an earlier one, in mode `http` with the values the backup has.  The first
  line is the exception the property has too: a failed download leaves half a line
  before it.
- `WholeAnswersCorrect` (`WiresX`), for answers of any of the sizes that the commands
  make and any number of stations and commands: what the radio has heard and what is
  on its way to it, taken together, end with the first frames of one answer, and how
  many they are is what the thread's block, frame and offset say (`Started`).  The offset
  of a frame has a closed form, `Offset`, and the proof shows that the pieces of 20, 19
  and 40 bytes add up to it over the up to four blocks, and past the size at the end.
- `KeysThereCorrect` (`Configuration`): who runs has read the whole file and found
  nothing wrong.  The proof goes key by key through what `ReadData` checks; it uses of
  the file only that each line is one of `Lines`, so that the number of lines that
  differ from a right file, two in the run, does not matter.  Of a directory it needs
  that what a mode makes use of is what `ReadData` demands of it (`UsedIsNeeded`).
- `HeardAsSentCorrect` (`Callsigns`), for any names, addresses, patches and directories:
  the eighth letter stays blank, which is where the module goes when eight bytes are
  written, and the coded address is always that of the letters and module as they are
  (`Sound`), since every operation that changes one of them codes again.

`FormatProofs` proves what the listeners hear (`Fanout`), for any protocol of the nine,
clients, modules, transmissions, frames and lengths of queues: `WholeGroupsCorrect`,
`NoEchoCorrect`, `EndsHeardCorrect` and the action property `HeardInOrderCorrect`.  Their
invariant, `Inv` of `FanoutProps`, is an account of what is on its way to the protocol
(`Way`) and what is kept of it, module by module:

- `LineUp`: of each module, what is in the queue of the protocol comes before what is in
  the stream, and that before what is in the codec stream, each in the order of speech,
  although the queue holds the packets of all modules;
- `Sent`, `Origins`: what was sent last comes before all of it, and what will be said
  after;
- `HeaderKept`: the header of whatever comes is in the cache, or comes before it.  So
  the header that a frame goes out with is its own;
- and where nothing gets lost: `Gapless`, that no frame is missing between what comes;
  `GroupKept`, that the frames of its group that were before a frame are in their slots
  or on their way, so that the frame that completes it finds them all; `Counted`, that
  M17's count is the number of the frame that comes; `NoneLeftOut`, that a frame that
  completes a group and was said after what is heard is on its way; and `EndComes`,
  that an end that was said is heard or on its way.

It proves `HeardInAllModesCorrect` of `Superframes` too, for transmissions of any length
and any losses: a frame that came is in its slot until another comes for the same
place in the group (`Kept`), so when the last frame of a group comes the others that
came are there; and M17's count is the packet's number as long as none is lost.

In `Fanout`, `GroupKept` is the subtle one: a slot still holds the frame of an earlier group or
transmission, so the proof has to show that a slot is not overwritten between the frame
it was filled with and the one that completes the group.  `HandleDoes` says once what
`HandleQueue` of each of the nine does to cache and output; the rest of the proof looks
at one packet that is taken (`Took`), whichever the protocol.

The invariants that these proofs rest on were checked by TLC on the instances of the
runs before they were proved.

The assumptions are those that each module names (`ConstantsAssumption`, `CodecAssumption`, `TranscoderAssumption`,
`InterlinkAssumption`, `PartsAssumption`, `FormatsAssumption`), which TLC evaluates on its instances; `Relied`,
`Timely` and `~Faulty` are in the statements.

Only model-checked are:

- every liveness property (`ListsSettle`, `FileWins`, `OnlyKnownWaits`, `DeadForgotten`,
  those of `Streams` and `Interlink`): fairness and ENABLED are out of the prover's reach;
- `ErrorsRepaired`: the codes are recursive functions over bits, and there is no
  induction over data;
- `DatagramsUnderstood`: a finite table of the nine protocols and their datagrams, without
  a constant to generalise; the run covers all of it.

## Where code and words differ

Four of these are runs that end in a violation, and `findings` in `PROJECT.json`
quotes what the repository says: `shared`, `m17_loop`, `codec_late` and `nxdn_header`.  The others
were met while modelling; the models have what the code does.

Streams and codec stream:

- `GetStream` without an address never finds a stream, so a header that is repeated
  does not tickle it (DExtra, D-Plus, DCS, MMDVM, NXDN, URF, YSF).
- M17 releases the clients before `OpenStream`; its check and claim are not one, and one
  id can be open on two modules (`m17_loop`).
- A P25 station loses the frames before the first packet that carries a header, and
  that packet's frame.
- The frames of a YSF station carry an id made of its address: when answers of the
  transcoder were lost, the next transmission may hear frames of the one before.
- Stream ids have 32 bits where P25 and NXDN draw them, and 16 in packets and streams.

Start and stop (the cases of `Stuck`):

- `CProtocols::Init` returns with its mutex locked when a port cannot be bound, and
  `Close` locks it again.
- The destructors of the directories wait for threads whose `keep_running` nobody
  resets after a start that failed.
- `Stop` waits for routers, which wait for packets without limit; and for protocol
  threads, which may wait in `CloseStream` for a router that has ended.
- `main` waits in `pause()` with no handler installed: `CController::Stop` and most of
  `CReflector::Stop` are never reached in a running daemon.

Interlink and numbers:

- `m_uiNXDNPacketId` is neither carried over the interlink nor set by the constructor
  that reads it, although the comment at `Packet.h:79` asks that both be updated.
- A P25 frame is made by the constructor of NXDN, with number 0 in NXDN: NXDN clients
  never get a group of a P25 talker.
- A lost frame leaves an earlier frame in its slot; a lost last frame of a group loses
  the group; an odd number of losses shifts M17's pairs.
- The last packet of a D-Star transmission keeps a flag in its number, so its number
  modulo 21 is off by one.
- NXDN's last datagram pushes no last frame; its stream ends by timeout.

Datagrams: a D-Plus reflector does not know the longer last frame that it sends; NXDN
takes its own headers and last frames for voice, since it compares the whole LICH; DCS
knows neither its short keepalive nor its disconnect; MMDVM sends an empty datagram to
a client it gives up; `EncodeConnectPacket` of DExtra and `EncodeClosePacket` are never
called; DMR accepts the headers of private calls and not their frames.

Codes: YSF sends most voice bits three times and reads the middle one; the Viterbi
decoder gives all first states the metric 0, so that near the start only one error is
repaired; `set_layer3_grp` of NXDN sets the same bit for true and false, and
`set_layer3_msgtype` keeps the wrong bits; some decoders are called by nobody
(`bptc.decode`, `crc8`, `checkFiveBit`, Hamming 15113_1, 1063, 16114, 17123).

Wires-X: answers of 283 to 983 bytes are read past the filled buffer; a list that
starts behind the last module wraps around an unsigned count and has 20 entries of
whatever is there; `command` is not initialised, so that a command of several frames
acts on what the stack held, at its first frame and without the check sum; a radio is
moved even while it is a master.

Lists and directories: a file written while it is loaded is not loaded again; a line of
255 characters or more loses all that follow it, and a last line without newline is
lost; a page without text empties the directory; the Wires-X thread reads the YSF
directory without its lock.

Configuration: a gain that is no number throws and nobody catches it, while other
numbers fall back to a default; a malformed binding address without an external one
throws too (`Configure.cpp:521, 571`); tcd cuts gains at 24, urfd takes the default; tcd
does not look at sections; the missing backup of a directory is reported as its file;
one bad `Modules` line fails a file in which a later one is good.

Callsigns: an address of eight letters is read with its eighth as the module; an
address too large is kept without a callsign; `m_uiNXDNid` is left unset by the default
constructor and compared by `operator==`; ids stay those of before when set without an
update, for unknown ids, or after a reload; `PatchCallsign` copies to the beginning
whatever its offset; a text and a buffer of nine letters disagree about the module.

## Not modelled

- **Vocoders** (`codec2/`, `imbe/`): vendored signal processing on fixed and floating
  point numbers, without a state that others share.  `Transcoder` takes a conversion as
  one step that keeps whose voice it is.
- **Last-heard list** (`Users`): a sorted list that only the reports read.
- **Dashboard, radmin, service files, XML and JSON reports**: presentation; they read.
- **OpenDHT**: a library outside the repository.  Of it `Interlink` has what the code
  sees: a search that ends with the values published or with none.
- **Sockets, IP addresses**: opaque; a datagram that cannot be sent is a lost one.
- **Devices of tcd**: how a DVSI device is found and configured.  `CController::Stop` is
  not modelled, since nothing calls it.
- **Texts**: the layout of the reports, logging, the texts in Wires-X answers, the
  suffix of a D-Star callsign, the slow data.
- **`Streams` and `CodecStream` together.**  A second close of a stream (see `shared`)
  closes the codec stream too, which may be that of the next talker.  `Streams` has the
  second close, `CodecStream` has a protocol thread that closes once.
- **Data races inside containers** (the Wires-X thread in the YSF directory, `m_Stream`
  read by protocol threads while `Start` fills it): their outcome is not defined by the
  code, and any outcome refutes everything.
