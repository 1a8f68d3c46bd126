----------------------------- MODULE StreamProps -----------------------------
(***************************************************************************)
(* What the open and close protocol of the streams guarantees.  Agreement  *)
(* and SidsUnique are what the code means to guarantee: StreamHistory says *)
(* as far as where it does.                                                *)
(***************************************************************************)
EXTENDS Streams

\* No two modules carry a stream of the same id: a transmission that comes
\* back to the reflector on another path is not opened a second time.  This is
\* what IsStreamOpen is for, and it needs the check and the claim of the
\* stream to be one critical section of the clients mutex.
SidsUnique ==
  \A m, n \in Modules : m # n /\ sid[m] = sid[n] => sid[m] = NoSid

\* A client marked as master can not be deleted: RemoveClient spares it, and it
\* is listed when OpenStream marks it.
MastersListed ==
  \A c \in Clients : IsAMaster(c) => c \in listed

\* The module m is not in the middle of an open or a close of thread p.
Working(p, m) == op[p].module = m /\ pc[p] \in {"fill", "mark"} \cup Closing

\* A client is a master only of a stream that is open and its own, whatever
\* the threads are doing: nobody is locked out of talking by a stream that ended.
MastersOwn ==
  \A c \in Clients :
    IsAMaster(c) => sid[master[c]] # NoSid /\ owner[master[c]] = c

\* The owner of the stream of m is its master: RemoveClient spares it.
HasMaster(m) == owner[m] # NoClient /\ master[owner[m]] = m

\* "stream open, mark client as master so that it can't be deleted": outside of
\* an open or a close, the stream of a module that is open has a master.
OpenMeansMastered ==
  \A m \in Modules :
    (\A p \in Active : ~Working(p, m)) /\ sid[m] # NoSid => HasMaster(m)

\* And one that is closed has no owner, and nothing queued: what was said on it
\* was routed while it was open, and never opens the next transmission.
ClosedMeansEmpty ==
  \A m \in Modules :
    (\A p \in Active : ~Working(p, m)) /\ sid[m] = NoSid =>
      owner[m] = NoClient /\ queued[m] = 0

\* An open stream that no thread works on is kept by a thread that will time
\* it out, under its id.
OpenMeansKept ==
  \A m \in Modules :
    (\A p \in Active : op[p].module # m) /\ sid[m] # NoSid =>
      \E p \in Active : handles[p][sid[m]] = m

\* Ids, owners, masters, handles and queues agree, outside of the few steps of an
\* open or a close, although no lock covers two of them.
Agreement == MastersOwn /\ OpenMeansMastered /\ ClosedMeansEmpty /\ OpenMeansKept

\* Who has the floor of m: the owner of its stream, while it is its master.
Talker(m) == IF HasMaster(m) THEN owner[m] ELSE NoClient

\* Talkers have the floor as Floor says.
F == INSTANCE Floor WITH holder <- [m \in Modules |-> Talker(m)], air <- queued
\* When the talkers fall silent every floor is freed, for good.
Quiet == <>[][\A m \in Modules : queued'[m] <= queued[m] /\ (fresh'[m] => fresh[m])]_vars
FloorsFreed ==
  Quiet => <>[](\A m \in Modules : sid[m] = NoSid /\ \A c \in Clients : ~IsAMaster(c))

-----------------------------------------------------------------------------
(***************************************************************************)
(* The inductive invariant behind MastersListed and the rest.              *)
(***************************************************************************)

\* The thread's own state, and what it knows of the client it opens for: no
\* other thread lists, removes or marks that client.
OwnCall(p) ==
  /\ \A s \in Sids : handles[p][s] \in Reach[p] \cup {NoModule}
  /\ \A s \in todo[p] : handles[p][s] # NoModule
  /\ pc[p] \in Closing => op[p].sid \notin todo[p]
  /\ op[p].module \in Reach[p] \cup {NoModule}
  /\ pc[p] \notin {"voice"} \cup Opening \cup Closing => op[p] = NoCall
  /\ pc[p] = "voice" => op[p].module = NoModule
  /\ pc[p] \in (Opening \ {"check"}) \cup Closing => op[p].module # NoModule
  /\ pc[p] \in Opening => op[p].client \in listed /\ ProtoOf[op[p].client] = p
  /\ pc[p] \in {"test", "claim", "fill", "mark"} =>
       op[p].sid # NoSid /\ ~IsAMaster(op[p].client)

CallInv ==
  /\ \A c \in Clients : linked[c] \in Reach[ProtoOf[c]] \cup {NoModule}
  /\ \A p \in Active : OwnCall(p)

=============================================================================
