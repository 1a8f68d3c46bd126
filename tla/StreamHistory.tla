---------------------------- MODULE StreamHistory ----------------------------
(***************************************************************************)
(* What the life cycle of streams guarantees in any reflector, whichever   *)
(* protocols share its modules, M17 included.  Two history variables say   *)
(* from when on it may guarantee less; no step looks at them.              *)
(*                                                                         *)
(* Modules that all protocols share do no harm as long as one talker       *)
(* follows the other.  Harm begins when a thread comes to the stream of a  *)
(* module of which another thread has a handle, or which another is        *)
(* opening or closing: OpenStream hands it out although it is not free,    *)
(* and then two threads close it (run shared of README.md).                *)
(***************************************************************************)
EXTENDS StreamProps

VARIABLES
  crossed,   \* two threads have met on a module, and not all is at rest since
  loose      \* modules whose stream id was set by a thread without the clients

hvars == <<vars, crossed, loose>>

\* The modules that thread p answers for: those it has a handle of, and the one
\* it found free and opens, or closes.
Attended(p) ==
  {m \in Modules :
     \/ \E s \in Sids : handles[p][s] = m
     \/ op[p].module = m /\ pc[p] \in {"claim", "fill", "mark", "keep"} \cup Closing}

\* Thread p comes to a stream that another thread answers for.
Crosses(p) ==
  /\ pc[p] = "test" /\ pc'[p] # "test"
  /\ \E q \in Active \ {p} : op[p].module \in Attended(q)

\* Thread p sets the stream id of module m.
Claims(p, m) == pc[p] = "claim" /\ pc'[p] # "claim" /\ op[p].module = m

\* No stream, nothing queued, nobody answers for a module or is a master.
AtRest ==
  /\ \A m \in Modules : sid[m] = NoSid /\ owner[m] = NoClient /\ queued[m] = 0
  /\ \A p \in Active : Attended(p) = {}
  /\ \A c \in Clients : ~IsAMaster(c)

\* How the history goes on with a step of the streams.
Crossing == crossed' = (~AtRest' /\ (crossed \/ \E p \in Active : Crosses(p)))

Loosening ==
  loose' = {m \in Modules : IF \E p \in Active : Claims(p, m)
                            THEN \E p \in Active \cap OpensUnlocked : Claims(p, m)
                            ELSE m \in loose}

HInit == Init /\ crossed = FALSE /\ loose = {}
HNext == Next /\ Crossing /\ Loosening

HSpec == HInit /\ [][HNext]_hvars

-----------------------------------------------------------------------------

(***************************************************************************)
(* Two modules carry the same stream id only if M17 opened one of them:    *)
(* the check for loops in OpenStream is sound for every other pair of      *)
(* protocols, while M17 opens and closes streams beside them.              *)
(***************************************************************************)
LockedSidsUnique ==
  \A m, n \in Modules :
    m # n /\ sid[m] = sid[n] /\ sid[m] # NoSid => m \in loose \/ n \in loose

(***************************************************************************)
(* While no two threads have met on a module since all was at rest, ids,   *)
(* owners, masters, handles and queues agree (OpenStream, CloseStream), on *)
(* modules that talkers of several protocols use by turns.                 *)
(***************************************************************************)
AgreeUntilCrossed == ~crossed => Agreement

(***************************************************************************)
(* And the floor of each module is taken, used and given up as Floor says. *)
(***************************************************************************)
FloorUntilCrossed == F!Init /\ [][crossed \/ F!Next]_(F!floorVars)

-----------------------------------------------------------------------------
(***************************************************************************)
(* The inductive invariants behind these properties.                       *)
(***************************************************************************)

\* What the checks of OpenStream found, a thread that holds the clients knows
\* until the stream is claimed, but for what M17 does in between.
SidInv ==
  /\ LockedSidsUnique
  /\ \A p \in Active \ OpensUnlocked :
       /\ pc[p] \in Opening => lock = p
       /\ pc[p] \in {"test", "claim"} =>
            \A m \in Modules : sid[m] = op[p].sid => m \in loose

\* What thread p is doing with module m.
Stage(p, m) == IF op[p].module = m THEN pc[p] ELSE "scan"

\* A module p answers for, in each stage of p's work on it.
ModuleInv(p, m) ==
  /\ owner[m] # NoClient => ProtoOf[owner[m]] = p /\ owner[m] \in listed
  /\ sid[m] # NoSid <=>
       \/ Stage(p, m) = "fill"
       \/ owner[m] # NoClient /\ Stage(p, m) # "disown"
  /\ Stage(p, m) \in {"claim", "fill"} => owner[m] = NoClient
  /\ Stage(p, m) = "mark" => owner[m] = op[p].client
  /\ Stage(p, m) \in {"keep"} \cup Closing => owner[m] # NoClient
  /\ owner[m] # NoClient =>
       master[owner[m]] = IF Stage(p, m) \in {"mark", "zero", "disown"} THEN NoModule ELSE m
  /\ queued[m] > 0 =>
       owner[m] # NoClient /\ Stage(p, m) \notin {"mark", "unmaster", "zero", "disown"}

\* The handles p keeps of module m: the one under the id of the stream.
HandleInv(p, m) ==
  /\ \A s \in Sids : handles[p][s] = m =>
       IF Stage(p, m) = "disown" THEN s = op[p].sid ELSE s = sid[m] /\ s # NoSid
  /\ Stage(p, m) \in Closing => handles[p][op[p].sid] = m
  /\ sid[m] # NoSid /\ Stage(p, m) \notin {"fill", "mark", "keep"} => handles[p][sid[m]] = m
  /\ Stage(p, m) \in {"fill", "mark"} => sid[m] = op[p].sid

\* The stream ids of the modules of p differ, M17 included: only p opens them.
OwnSids(p) ==
  /\ \A m, n \in Attended(p) : m # n /\ sid[m] = sid[n] => sid[m] = NoSid
  /\ pc[p] \in {"test", "claim"} => \A m \in Attended(p) : sid[m] # op[p].sid

OwnFloor(p) ==
  /\ \A c \in Clients : ProtoOf[c] = p /\ IsAMaster(c) =>
       master[c] \in Attended(p) /\ owner[master[c]] = c
  /\ OwnSids(p)
  /\ \A m \in Attended(p) : ModuleInv(p, m) /\ HandleInv(p, m)

\* Nobody answers for a module that another does, and one that nobody answers
\* for is free.
FloorInv ==
  /\ \A p, q \in Active : p # q => Attended(p) \cap Attended(q) = {}
  /\ \A p \in Active : OwnFloor(p)
  /\ \A m \in Modules : (\A p \in Active : m \notin Attended(p)) =>
       sid[m] = NoSid /\ owner[m] = NoClient /\ queued[m] = 0

UncrossedInv == ~crossed => FloorInv
=============================================================================
