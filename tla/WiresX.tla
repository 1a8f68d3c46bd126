-------------------------------- MODULE WiresX --------------------------------
(***************************************************************************)
(* Wires-X (CWiresxCmdHandler in WiresXCmdHandler.cpp, IsValidwirexPacket  *)
(* in YSFProtocol.cpp): a radio asks over YSF which room it is in, which   *)
(* rooms there are, or to be moved to another, and is answered a second    *)
(* later by a thread of its own, in frames of at most 40 bytes.  A room is *)
(* a module.                                                               *)
(*                                                                         *)
(* Meanwhile the YSF thread links, moves and removes the radio.  Of an     *)
(* answer the bytes are numbered and their values left out.                *)
(***************************************************************************)
EXTENDS Integers, Sequences, SequencesExt, FiniteSetsExt

CONSTANTS
  Rooms,       \* m_Modules: the modules 1, 2 ...
  Autolink,    \* m_AutolinkModule, or 0
  Starts,      \* where the radio may want the list of rooms to start
  MaxCommands, \* bound on m_CmdQueue
  MaxPackets   \* bound on m_PacketQueue

\* What the constants have to be.
WiresXAssumption ==
  /\ Rooms \in Nat \ {0} /\ Autolink \in 0..Rooms /\ Starts \subseteq Int
  /\ MaxCommands \in Nat \ {0} /\ MaxPackets \in Nat \ {0}

VARIABLES
  client,   \* the module of the radio's entry in m_Clients; 0: none, Gone: no entry
  cmds,     \* m_CmdQueue: [cmd, arg, ripe]
  task,     \* what the handler's thread is doing
  packets,  \* m_PacketQueue
  heard     \* what the radio has got of the last answer

vars == <<client, cmds, task, packets, heard>>

Gone == -1
Nowhere == -1
Idle == [at |-> "idle"]

\* What a command can ask for.
Commands ==
  {[cmd |-> c, arg |-> 0] : c \in {"DX_REQ", "DISC_REQ", "UNKNOWN"}}
  \cup {[cmd |-> c, arg |-> n] : c \in {"ALL_REQ", "SEARCH_REQ"}, n \in Starts}
  \cup {[cmd |-> "CONN_REQ", arg |-> n] : n \in {1, Rooms, Rooms + 1}}

Init ==
  /\ client = Autolink
  /\ cmds = <<>> /\ task = Idle /\ packets = <<>> /\ heard = <<>>

-----------------------------------------------------------------------------
\* The YSF thread.

\* A poll, a disconnect or a timeout, a header with a group id.
Connect == client = Gone /\ client' = Autolink /\ UNCHANGED <<cmds, task, packets, heard>>
Leave == client # Gone /\ client' = Gone /\ UNCHANGED <<cmds, task, packets, heard>>
Talk ==
  /\ client # Gone /\ \E m \in {1, Rooms} : client' = m
  /\ UNCHANGED <<cmds, task, packets, heard>>

\* IsValidwirexPacket: a command in one frame, or the first frame of a longer
\* one, says what it is; of a later frame the beginning is what the stack held,
\* and the length of a list that is neither "01" nor "11" is what Task held.
Ask ==
  /\ Len(cmds) < MaxCommands
  /\ \E c \in Commands :
       cmds' = Append(cmds, [cmd |-> c.cmd, arg |-> c.arg, ripe |-> FALSE])
  /\ UNCHANGED <<client, task, packets, heard>>

\* What the handler has made goes out, all of it.  The radio begins anew with a
\* header.
Flush ==
  /\ packets # <<>>
  /\ packets' = <<>>
  /\ LET all == heard \o packets
         last == Max({i \in DOMAIN all : all[i].fi = "header"})
     IN heard' = SubSeq(all, last, Len(all))
  /\ UNCHANGED <<client, cmds, task>>

-----------------------------------------------------------------------------
\* How an answer of some bytes is cut.

\* Mutant: only whole blocks are counted.
WholeBlocks(size) == IF size > 260 THEN (size - 260) \div 259 ELSE 0

\* bt: the blocks that follow the first, each with a byte of its own.
LaterBlocks(size) == IF size > 260 THEN 1 + (size - 260) \div 259 ELSE 0

\* The length to which it is filled up with blanks.
Filled(size) ==
  LET length == size + LaterBlocks(size)
  IN IF length > 20
     THEN 40 * ((length - 20) \div 40 + IF length % 40 > 0 THEN 1 ELSE 0) + 20
     ELSE 20

\* WiresxCalcFt: the number of the last frame of each block.
CalcFt(length) ==
  CASE length > 220 -> 7
    [] length \in 181..220 -> 6
    [] length \in 141..180 -> 5
    [] length \in 101..140 -> 4
    [] length \in 61..100 -> 3
    [] length \in 21..60 -> 2
    [] length <= 20 -> 1

\* The bytes in a frame: the first names the reflector, the second does in half.
Piece(bn, fn) == CASE fn = 0 -> 0 [] fn = 1 /\ bn = 0 -> 20 [] fn = 1 /\ bn # 0 -> 19 [] OTHER -> 40

Frame(fi, bn, fn, bytes) ==
  [fi |-> fi, bn |-> bn, fn |-> fn, bt |-> LaterBlocks(task.size),
   ft |-> CalcFt(Filled(task.size)), from |-> task.offset, to |-> task.offset + bytes,
   size |-> task.size]

SendPacket(frame) ==
  /\ Len(packets) < MaxPackets
  /\ packets' = Append(packets, frame)

-----------------------------------------------------------------------------
\* The thread of the handler.

\* The radio takes some time from sending to listening.
Ripen ==
  /\ \E i \in DOMAIN cmds : ~cmds[i].ripe
  /\ cmds' = [i \in DOMAIN cmds |-> [cmds[i] EXCEPT !.ripe = TRUE]]
  /\ UNCHANGED <<client, task, packets, heard>>

\* How many rooms a list has: the difference is unsigned, and one that begins
\* behind the last room thus has 20, whatever is there in memory.
Entries(start) == IF start \in (Rooms - 20)..Rooms THEN Rooms - start ELSE 20
ListSize(entries) == 29 + 50 * entries + 4

\* The answer: its bytes, whether the list follows once more, and the room that
\* the radio is moved to.  Lists of less than 20 are filled up, for the FT2D,
\* and then sent as they are.
Answering(size, again, room) ==
  [at |-> "header", size |-> size, again |-> again, room |-> room,
   bn |-> 0, fn |-> 0, offset |-> 0]
Answer(c) ==
  CASE c.cmd = "DX_REQ" -> Answering(129, 0, Nowhere)
    [] c.cmd \in {"ALL_REQ", "SEARCH_REQ"} ->
         LET n == Entries(c.arg)
         IN IF n < 20 THEN Answering(1033, ListSize(n), Nowhere)
            ELSE Answering(ListSize(n), 0, Nowhere)
    [] c.cmd = "CONN_REQ" /\ c.arg \in 1..Rooms -> Answering(91, 0, c.arg)
    [] c.cmd = "DISC_REQ" -> Answering(91, 0, 0)
    [] OTHER -> Idle

TakeCommand ==
  /\ task = Idle /\ cmds # <<>> /\ Head(cmds).ripe
  /\ cmds' = Tail(cmds)
  /\ task' = Answer(Head(cmds))
  /\ UNCHANGED <<client, packets, heard>>

SendHeader ==
  /\ task.at = "header"
  /\ SendPacket(Frame("header", 0, 0, 0))
  /\ task' = [task EXCEPT !.at = "payload"]
  /\ UNCHANGED <<client, cmds, heard>>

SendPayload ==
  /\ task.at = "payload"
  /\ SendPacket(Frame("communications", task.bn, task.fn, Piece(task.bn, task.fn)))
  /\ LET next == [task EXCEPT !.offset = @ + Piece(task.bn, task.fn)]
     IN task' = IF task.fn < CalcFt(Filled(task.size)) THEN [next EXCEPT !.fn = @ + 1]
                ELSE IF task.bn < LaterBlocks(task.size)
                THEN [next EXCEPT !.fn = 0, !.bn = @ + 1]
                ELSE [next EXCEPT !.at = "trailer"]
  /\ UNCHANGED <<client, cmds, heard>>

SendTrailer ==
  /\ task.at = "trailer"
  /\ SendPacket(Frame("terminator", LaterBlocks(task.size), CalcFt(Filled(task.size)), 0))
  /\ task' = IF task.again # 0 THEN Answering(task.again, 0, Nowhere)
             ELSE IF task.room # Nowhere THEN [task EXCEPT !.at = "move"]
             ELSE Idle
  /\ UNCHANGED <<client, cmds, heard>>

\* The client is looked for anew.
MoveClient ==
  /\ task.at = "move"
  /\ client' = IF client = Gone THEN Gone ELSE task.room
  /\ task' = Idle
  /\ UNCHANGED <<cmds, packets, heard>>

Next ==
  \/ Connect \/ Leave \/ Talk \/ Ask \/ Flush \/ Ripen
  \/ TakeCommand \/ SendHeader \/ SendPayload \/ SendTrailer \/ MoveClient

Spec == Init /\ [][Next]_vars

-----------------------------------------------------------------------------

(***************************************************************************)
(* A radio that has heard an answer to its end has got each of its blocks  *)
(* and frames once, and all the bytes of the answer, in their order.       *)
(***************************************************************************)
WholeAnswers ==
  heard # <<>> /\ Last(heard).fi = "terminator" =>
    LET data == SubSeq(heard, 2, Len(heard) - 1)
        frames == heard[1].ft + 1
    IN /\ Len(data) = frames * (heard[1].bt + 1)
       /\ \A i \in DOMAIN data :
            /\ data[i].bn = (i - 1) \div frames /\ data[i].fn = (i - 1) % frames
            /\ data[i].from = IF i = 1 THEN 0 ELSE data[i - 1].to
       /\ Last(data).to >= heard[1].size

(***************************************************************************)
(* The inductive invariant behind WholeAnswers: what the radio has got and *)
(* what is on its way ends with the beginning of one answer, which is as   *)
(* far as the thread has come.                                             *)
(***************************************************************************)
Sizes == {91, 129} \cup {ListSize(n) : n \in 0..20}
Frames(size) == CalcFt(Filled(size)) + 1
Total(size) == Frames(size) * (LaterBlocks(size) + 1)

\* The bytes before a frame, if ft is the number of the last one of each block.
Offset(bn, fn, ft) ==
  (IF bn = 0 THEN 0 ELSE 40 * ft - 20 + (bn - 1) * (40 * ft - 21))
  + IF fn < 2 THEN 0 ELSE (IF bn = 0 THEN 20 ELSE 19) + 40 * (fn - 2)

\* A frame of the answer of a size: 0 is the header, then the data.
IsData(f, size, k) ==
  LET bn == k \div Frames(size)
      fn == k % Frames(size)
  IN /\ f.bn = bn /\ f.fn = fn /\ f.from = Offset(bn, fn, Frames(size) - 1)
     /\ f.to = f.from + Piece(bn, fn)
IsFrame(f, size, k) ==
  /\ f.size = size /\ f.bt = LaterBlocks(size) /\ f.ft = Frames(size) - 1
  /\ f.fi = "header" <=> k = 0
  /\ f.fi = "terminator" <=> k = Total(size) + 1
  /\ k \in 1..Total(size) => IsData(f, size, k - 1)

\* From an index on s is the beginning of an answer.
IsAnswer(s, from, size) ==
  /\ from \in 1..Len(s) /\ Len(s) - from <= Total(size) + 1
  /\ \A i \in from..Len(s) : IsFrame(s[i], size, i - from)

\* The data that the thread has sent of an answer.
Sent == IF task.at = "trailer" THEN Total(task.size) ELSE task.bn * Frames(task.size) + task.fn
Sending == task.at \in {"payload", "trailer"}

Started(all) ==
  \/ all = <<>> /\ ~Sending
  \/ \E from \in DOMAIN all, size \in Sizes :
       IsAnswer(all, from, size) /\ (Sending => size = task.size /\ Len(all) - from = Sent)

Inv ==
  /\ cmds \in Seq([cmd : {"DX_REQ", "DISC_REQ", "UNKNOWN", "ALL_REQ", "SEARCH_REQ", "CONN_REQ"},
                   arg : Int, ripe : BOOLEAN])
  /\ \/ task = Idle
     \/ task \in [at : {"header", "payload", "trailer", "move"}, size : Sizes,
                  again : Sizes \cup {0}, room : Int, bn : 0..3, fn : 0..7, offset : Nat]
  /\ task.at = "header" => task.bn = 0 /\ task.fn = 0 /\ task.offset = 0
  /\ task.at = "payload" => /\ task.bn <= LaterBlocks(task.size) /\ task.fn < Frames(task.size)
                            /\ task.offset = Offset(task.bn, task.fn, Frames(task.size) - 1)
  /\ heard \in Seq(Range(heard)) /\ packets \in Seq(Range(packets))
  /\ heard # <<>> => \E size \in Sizes : IsAnswer(heard, 1, size)
  /\ Started(heard \o packets)
=============================================================================
