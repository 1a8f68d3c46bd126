----------------------------- MODULE FanoutProps -----------------------------
(***************************************************************************)
(* What the listeners of one protocol hear.                                *)
(***************************************************************************)
EXTENDS Fanout

Newest(packet) == packet.frames[Len(packet.frames)]

\* What goes out is one transmission's: the header in it, kept since it came,
\* is that of its newest frame, although the packets of all modules and of
\* transmissions after one another share a queue.
RightHeader ==
  \A m \in Modules : out[m].kind # "nothing" => out[m].header = Newest(out[m]).talk

\* Where nothing gets lost the frames of an outgoing packet belong together: they
\* are successive frames of one transmission and start where a group starts.
\* An M17 packet holds the voice of a pair of frames and goes with the second.
WholeGroups ==
  \A m \in Modules \ Transcoded :
    LET frames == out[m].frames
    IN  out[m].kind = "voice" =>
          /\ \A k \in DOMAIN frames :
               /\ frames[k].talk = out[m].header
               /\ frames[k].pid = frames[1].pid + k - 1
          /\ frames[1].pid % Size(protocol) = 0
          /\ protocol = "m17" => frames[1].pid % 2 = 1

\* Nobody hears himself, also not the end of what he said when he stops being a
\* master, where packets do not stay under way longer than STREAM_TIMEOUT; and
\* what came from a peer goes to no peer, or linked reflectors send it round.
NoEcho ==
  \A m \in Modules :
    out[m].kind # "nothing" =>
      LET talk == talks[Newest(out[m]).talk]
      IN  /\ m \in Prompt => talk.by \notin out[m].to
          /\ protocol = "urf" => talk.local

\* On each module things go out in the order they were said and, where nothing
\* gets lost, nothing is left out: a group is followed by the next one.
Before(p, q) == p.talk < q.talk \/ (p.talk = q.talk /\ (p.header \/ p.pid < q.pid))
Follows(a, b) ==
  LET gap == IF protocol = "m17" THEN 2 ELSE 1
  IN  a.kind = "voice" /\ b.kind = "voice" /\ a.header = b.header
        => b.frames[1].pid = Newest(a).pid + gap
InOrder ==
  \A m \in Modules :
    out[m] # out'[m] /\ out[m].kind # "nothing" =>
      /\ Before(Newest(out[m]), Newest(out'[m]))
      /\ m \notin Transcoded => Follows(out[m], out'[m])
HeardInOrder == [][InOrder]_vars

\* Where nothing gets lost a transmission that has ended and left the queues has
\* been ended for the listeners.  Peers are told only the end of what comes from
\* here.
UnderWay(m) ==
  \/ stream[m] # <<>>
  \/ \E i \in DOMAIN queue : talks[queue[i].talk].module = m
EndsHeard ==
  \A m \in Modules \ Transcoded :
    now[m].over /\ ~UnderWay(m) /\ (protocol = "urf" => talks[now[m].talk].local)
      => out[m].kind = "last" /\ out[m].header = now[m].talk

-----------------------------------------------------------------------------
(***************************************************************************)
(* The inductive invariant behind these properties.                        *)
(***************************************************************************)

\* The packets of a module that are on their way to the protocol.
ModuleOf(p) == talks[p.talk].module
InQueue(m) == {p \in ToSet(queue) : ModuleOf(p) = m}
Way(m) == InQueue(m) \cup ToSet(stream[m]) \cup ToSet(codec[m])

\* The order of what is said on one module.
Precedes(p, q) ==
  p.talk < q.talk \/ (p.talk = q.talk /\ ~q.header /\ (p.header \/ p.pid < q.pid))
AllBefore(S, T) == \A p \in S : \A q \in T : Precedes(p, q)
Ordered(s) == \A i, j \in DOMAIN s : i < j => Precedes(s[i], s[j])
OrderedByModule(s) ==
  \A i, j \in DOMAIN s : i < j /\ ModuleOf(s[i]) = ModuleOf(s[j]) => Precedes(s[i], s[j])

\* Packets wait in this order, those behind the codec stream before those in it.
Line(m) ==
  /\ Ordered(stream[m]) /\ Ordered(codec[m])
  /\ AllBefore(InQueue(m), ToSet(stream[m]))
  /\ AllBefore(InQueue(m), ToSet(codec[m]))
  /\ AllBefore(ToSet(stream[m]), ToSet(codec[m]))
LineUp ==
  /\ OrderedByModule(queue)
  /\ \A p \in ToSet(queue) : p.talk <= Len(talks)
  /\ \A m \in Modules : Line(m)

\* The transmission that goes on is the newest of its module; where nothing stays
\* under way for long it is the only one.
Past(m, p) == p.talk < now[m].talk \/ (p.talk = now[m].talk /\ (p.header \/ p.pid < now[m].pid))
Origins(m) ==
  /\ Open(m) => talks[now[m].talk].module = m
  /\ now[m].over => Open(m)
  /\ \A p \in Way(m) :
       /\ p.talk <= Len(talks) /\ ModuleOf(p) = m
       /\ p.header => p.pid = 0 /\ ~p.last
       /\ Open(m) => Past(m, p)
       /\ m \in Prompt => p.talk = now[m].talk
  /\ \A p \in ToSet(codec[m]) : m \in Transcoded /\ ~p.header /\ talks[p.talk].local

\* The header of all that comes is kept, or comes before.
KeepsHeader == protocol \notin {"dextra", "urf"}
Announced(m, t) == cache[m].header = t \/ \E p \in Way(m) : p.header /\ p.talk = t
HeaderKept(m) ==
  KeepsHeader =>
    /\ \A p \in Way(m) : IF p.header THEN p.talk > cache[m].header ELSE Announced(m, p.talk)
    /\ Open(m) => Announced(m, now[m].talk)

\* The frames that come, the next one to be said among them.
Coming(m) ==
  {[talk |-> p.talk, pid |-> p.pid] : p \in {q \in Way(m) : ~q.header}}
    \cup (IF Open(m) /\ ~now[m].over THEN {[talk |-> now[m].talk, pid |-> now[m].pid]} ELSE {})
Frame(t, k) == [talk |-> t, header |-> FALSE, pid |-> k, last |-> FALSE]

\* Nothing is missing between what comes.
Gapless(m) ==
  \A c \in Coming(m) : \A p \in Way(m) : p.talk = c.talk =>
    \A k \in 0..c.pid - 1 : p.header \/ p.pid < k => Frame(c.talk, k) \in Way(m)

\* The frames of its group that were before it are kept, or on their way.
GroupKept(m) ==
  \A k \in 0..Size(protocol) - 1 :
    /\ cache[m].frames[k] # None =>
         /\ cache[m].frames[k].talk <= Len(talks)
         /\ \A p \in Way(m) : Precedes(cache[m].frames[k], p)
         /\ Open(m) => Past(m, cache[m].frames[k])
    /\ \A c \in Coming(m) : k < c.pid % Size(protocol) =>
         LET f == Frame(c.talk, c.pid - (c.pid % Size(protocol)) + k)
         IN  cache[m].frames[k] = f \/ f \in Way(m)

\* The frames are counted from the header on.
Counted(m) ==
  \A c \in Coming(m) :
    \/ cache[m].header = c.talk /\ cache[m].seq = c.pid
    \/ \E p \in Way(m) : p.talk = c.talk /\ IF p.header THEN c.pid = 0 ELSE c.pid = p.pid + 1

\* Which frames complete what goes out.
Step == IF protocol = "m17" THEN 2 ELSE Size(protocol)
Completes(k) == k % Step = Step - 1

\* Of the transmission that is heard no frame that completes a group is left out.
NoneLeftOut(m) ==
  out[m].kind = "voice" =>
    \A c \in Coming(m) : c.talk = out[m].header =>
      \A k \in 0..c.pid - 1 :
        Newest(out[m]).pid < k /\ Completes(k) => Frame(c.talk, k) \in Way(m)

\* An end that has been said is heard, or on its way.
EndComes(m) ==
  now[m].over =>
    \/ \E p \in Way(m) : p.last /\ p.talk = now[m].talk /\ now[m].pid = p.pid + 1
    \/ /\ out[m].kind = "last" /\ out[m].header = now[m].talk
       /\ now[m].pid = Newest(out[m]).pid + 1
    \/ protocol = "urf" /\ ~talks[now[m].talk].local

Unbroken(m) ==
  Gapless(m) /\ GroupKept(m) /\ (protocol = "m17" => Counted(m)) /\ NoneLeftOut(m) /\ EndComes(m)

\* What was sent last comes before all that is on its way.
Sent(m) ==
  out[m].kind # "nothing" =>
    /\ Newest(out[m]).talk <= Len(talks)
    /\ Newest(out[m]).header <=> out[m].kind = "header"
    /\ \A p \in Way(m) : Precedes(Newest(out[m]), p)
    /\ Open(m) => Past(m, Newest(out[m]))
    /\ out[m].kind = "voice" /\ m \notin Transcoded => Completes(Newest(out[m]).pid)

Account(m) == Origins(m) /\ HeaderKept(m) /\ Sent(m) /\ (m \notin Transcoded => Unbroken(m))

Inv ==
  /\ TypeOK /\ LineUp
  /\ \A m \in Modules : Account(m)
  /\ RightHeader /\ WholeGroups /\ NoEcho
=============================================================================
