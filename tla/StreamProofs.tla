----------------------------- MODULE StreamProofs ----------------------------
(***************************************************************************)
(* Proofs of the properties of the stream life cycle for every set of      *)
(* protocols, clients, modules and stream ids.                             *)
(***************************************************************************)
EXTENDS StreamHistory, TLAPS

\* A module name is never the "no module" blank, nor a client the null pointer
\* or a stream id zero.
LEMMA Nulls ==
  /\ NoClient \notin Clients
  /\ NoModule \notin Modules
  /\ NoSid \notin StreamIds
  /\ NoSid \in Sids
  BY ConstantsAssumption DEF Sids

\* What the shared parts of the actions do to the types.
LEMMA ScanTypes ==
  ASSUME TypeOK, NEW p \in Active, NEW h, Scan(p, h)
  PROVE  pc' \in [Active -> Points] /\ todo' \in [Active -> SUBSET Sids] /\ op' \in [Active -> Calls]
  BY DEF TypeOK, Scan, Goto, Held, Points, NoCall, Calls, Sids

LEMMA HeaderDoneTypes ==
  ASSUME TypeOK, NEW p \in Active, NEW call \in Calls, NEW h, HeaderDone(p, call, h)
  PROVE  pc' \in [Active -> Points] /\ todo' \in [Active -> SUBSET Sids] /\ op' \in [Active -> Calls]
<1>1. [call EXCEPT !.module = NoModule] \in Calls
  BY DEF Calls
<1>2. CASE Scan(p, h)
  BY <1>2, ScanTypes
<1>3. CASE Goto(p, "voice") /\ op' = [op EXCEPT ![p] = [call EXCEPT !.module = NoModule]] /\ UNCHANGED todo
  BY <1>1, <1>3 DEF TypeOK, Goto, Points
<1> QED
  BY <1>2, <1>3 DEF HeaderDone

LEMMA HeaderDonePoint ==
  ASSUME TypeOK, NEW p \in Active, NEW call \in Calls, NEW h, HeaderDone(p, call, h)
  PROVE  /\ pc'[p] \in {"voice", "scan"} /\ op'[p].module = NoModule
         /\ pc'[p] = "scan" => op'[p] = NoCall /\ todo'[p] = Held(h)
         /\ pc'[p] = "voice" => todo'[p] = todo[p]
         /\ \A q \in Active : q # p => pc'[q] = pc[q] /\ todo'[q] = todo[q] /\ op'[q] = op[q]
<1>1. [call EXCEPT !.module = NoModule].module = NoModule
  BY DEF Calls
<1>2. CASE Scan(p, h)
  BY <1>2 DEF Scan, Goto, TypeOK, NoCall
<1>3. CASE Goto(p, "voice") /\ op' = [op EXCEPT ![p] = [call EXCEPT !.module = NoModule]] /\ UNCHANGED todo
  BY <1>1, <1>3 DEF TypeOK, Goto
<1> QED
  BY <1>2, <1>3 DEF HeaderDone

\* What a header on a kept stream comes to.
LEMMA TickleDone ==
  ASSUME TypeOK, NEW p \in Active, Tickle(p)
  PROVE  /\ pc'[p] \in {"voice", "scan"} /\ op'[p].module = NoModule
         /\ pc'[p] = "scan" => op'[p] = NoCall /\ todo'[p] = Held(handles[p])
         /\ pc'[p] = "voice" => todo'[p] = todo[p]
         /\ \A q \in Active : q # p => pc'[q] = pc[q] /\ todo'[q] = todo[q] /\ op'[q] = op[q]
  BY HeaderDonePoint DEF Tickle, Calls

LEMMA PushTypes ==
  ASSUME TypeOK, NEW m, Push(m)
  PROVE  queued' \in [Modules -> 0..MaxQueue] /\ fresh' \in [Modules -> BOOLEAN]
<1>1. /\ queued \in [Modules -> 0..MaxQueue]
      /\ MaxQueue \in Nat
      /\ queued' = [queued EXCEPT ![m] = @ + 1]
      /\ queued[m] < MaxQueue
  BY ConstantsAssumption DEF TypeOK, Push
<1>2. ASSUME NEW n \in Modules PROVE queued'[n] \in 0..MaxQueue
  BY <1>1
<1>3. fresh' \in [Modules -> BOOLEAN]
  BY DEF TypeOK, Push
<1> QED
  BY <1>1, <1>2, <1>3

\* A header calls OpenStream for a client of the protocol and a module that its
\* packets can name, and links that client to nothing else.
LEMMA HeaderCalls ==
  ASSUME TypeOK, NEW p \in Active, NEW c \in Clients, ProtoOf[c] = p, NEW s \in Sids, Header(c, s)
  PROVE  \E m \in Reach[p] \cup {NoModule, linked[c]} :
           /\ CallOpenStream(p, c, s, m)
           /\ linked' \in {linked, [linked EXCEPT ![c] = m]}
<1>1. CASE DextraHeader(c, s)
  BY <1>1 DEF DextraHeader, Named
<1>2. CASE DplusHeader(c, s)
  BY <1>2 DEF DplusHeader
<1>3. CASE DcsHeader(c, s)
  BY <1>3 DEF DcsHeader, Named
<1>4. CASE MmdvmHeader(c, s)
  BY <1>4 DEF MmdvmHeader
<1>5. CASE YsfHeader(c, s)
  BY <1>5 DEF YsfHeader, Named
<1>6. CASE M17Header(c, s)
  BY <1>6 DEF M17Header, Named
<1>7. CASE P25Header(c, s)
  BY <1>7 DEF P25Header
<1>8. CASE NxdnHeader(c, s)
  BY <1>8 DEF NxdnHeader
<1>9. CASE UrfHeader(c, s)
  BY <1>9 DEF UrfHeader
<1> QED
  BY <1>1, <1>2, <1>3, <1>4, <1>5, <1>6, <1>7, <1>8, <1>9 DEF Header

\* Every variable of the streams keeps its type.
THEOREM TypeCorrect == Spec => []TypeOK
<1>1. Init => TypeOK
  BY ConstantsAssumption DEF Init, TypeOK, NoCall, Calls, Points, Sids
<1>2. TypeOK /\ [Next]_vars => TypeOK'
  <2> SUFFICES ASSUME TypeOK, [Next]_vars PROVE TypeOK'
    OBVIOUS
  <2> USE DEF TypeOK
  <2>1. ASSUME NEW p \in Active, Packet(p) PROVE TypeOK'
    <3> USE ScanTypes DEF clientVars, streamVars
    <3>1. CASE Nothing(p)
      BY <3>1 DEF Nothing
    <3>2. CASE Connect(p)
      <4>1. PICK c \in Clients, m \in Reach[p] \cup {NoModule} :
              listed' = listed \cup {c} /\ linked' = [linked EXCEPT ![c] = m]
        BY <3>2 DEF Connect
      <4>2. linked' \in [Clients -> Modules \cup {NoModule}]
        BY <4>1, ConstantsAssumption
      <4> QED
        BY <3>2, <4>1, <4>2 DEF Connect
    <3>3. CASE Disconnect(p)
      BY <3>3 DEF Disconnect, Remove, ClientsOf
    <3>4. CASE Frame(p)
      BY <3>4, PushTypes DEF Frame
    <3>5. CASE Tickle(p)
      <4>1. PICK s \in Sids, c \in Clients :
              /\ fresh' = [fresh EXCEPT ![GetStream(p, s, c)] = TRUE]
              /\ HeaderDone(p, [client |-> c, sid |-> s, module |-> NoModule], handles[p])
        BY <3>5 DEF Tickle
      <4> QED
        BY <3>5, <4>1, HeaderDoneTypes DEF Tickle, Calls
    <3>8. CASE Voice(p)
      BY <3>8, PushTypes DEF Voice
    <3>6. ASSUME NEW c \in Clients, ProtoOf[c] = p, MmdvmLink(c) PROVE TypeOK'
      <4>1. PICK m \in Modules \cup {NoModule} : linked' = [linked EXCEPT ![c] = m]
        BY <3>6, ConstantsAssumption DEF MmdvmLink
      <4> QED
        BY <3>6, <4>1 DEF MmdvmLink
    <3>7. ASSUME NEW c \in Clients, ProtoOf[c] = p, NEW s \in Sids, Header(c, s) PROVE TypeOK'
      <4>1. PICK m \in Modules \cup {NoModule} :
              /\ CallOpenStream(p, c, s, m)
              /\ linked' \in {linked, [linked EXCEPT ![c] = m]}
        BY <3>7, HeaderCalls, ConstantsAssumption
      <4>2. linked' \in [Clients -> Modules \cup {NoModule}]
        BY <4>1
      <4>3. op' \in [Active -> Calls] /\ pc' \in [Active -> Points]
        BY <4>1 DEF CallOpenStream, Goto, Calls, Points, Opening
      <4> QED
        BY <4>1, <4>2, <4>3 DEF CallOpenStream
    <3> QED
      BY <2>1, <3>1, <3>2, <3>3, <3>4, <3>5, <3>6, <3>7, <3>8 DEF Packet
  <2>2. ASSUME NEW p \in Active, OpenStream(p) PROVE TypeOK'
    <3> USE DEF Goto, Points, Opening, Calls, clientVars, streamVars
    <3>1. CASE Admit(p)
      BY <3>1 DEF Admit
    <3>2. CASE Refuse(p)
      BY <3>2, HeaderDoneTypes DEF Refuse, Release
    <3>3. CASE Test(p)
      BY <3>3 DEF Test
    <3>4. CASE Claim(p)
      BY <3>4 DEF Claim
    <3>5. CASE Fill(p)
      BY <3>5 DEF Fill
    <3>6. CASE Mark(p)
      <4>1. linked' \in [Clients -> Modules \cup {NoModule}]
        BY <3>6 DEF Mark
      <4> QED
        BY <3>6, <4>1, PushTypes DEF Mark
    <3>7. CASE Keep(p)
      BY <3>7, HeaderDoneTypes DEF Keep, Release
    <3> QED
      BY <2>2, <3>1, <3>2, <3>3, <3>4, <3>5, <3>6, <3>7 DEF OpenStream
  <2>3. ASSUME NEW p \in Active, CheckStreamsTimeout(p) PROVE TypeOK'
    <3> USE DEF Goto, Points, Closing, Calls, clientVars, streamVars
    <3>1. CASE StillFresh(p)
      BY <3>1 DEF StillFresh
    <3>2. CASE Expired(p)
      BY <3>2 DEF Expired
    <3>3. CASE Scanned(p)
      BY <3>3 DEF Scanned
    <3>4. CASE Drained(p)
      BY <3>4 DEF Drained
    <3>5. CASE Unmaster(p)
      BY <3>5 DEF Unmaster
    <3>6. CASE Zero(p)
      BY <3>6 DEF Zero, Sids
    <3>7. CASE Disown(p)
      BY <3>7 DEF Disown, NoCall, Sids
    <3> QED
      BY <2>3, <3>1, <3>2, <3>3, <3>4, <3>5, <3>6, <3>7 DEF CheckStreamsTimeout
  <2>4. ASSUME NEW p \in Active, Keepalive(p) PROVE TypeOK'
    BY <2>4 DEF Keepalive, Remove, ClientsOf, Goto, Points, clientVars, streamVars
  <2>5. ASSUME NEW m \in Modules, Route(m) PROVE TypeOK'
    BY <2>5, ConstantsAssumption DEF Route, clientVars, threadVars
  <2>6. ASSUME NEW m \in Modules, Expire(m) PROVE TypeOK'
    BY <2>6 DEF Expire, clientVars, threadVars
  <2>7. CASE UNCHANGED vars
    BY <2>7 DEF vars, clientVars, streamVars, threadVars
  <2> QED
    BY <2>1, <2>2, <2>3, <2>4, <2>5, <2>6, <2>7 DEF Next, Thread
<1> QED
  BY <1>1, <1>2, PTL DEF Spec

-----------------------------------------------------------------------------

\* Which steps can touch a client: only its own thread lists, removes, links it
\* or makes it a master; another thread can at most take its mastership away.
LEMMA OthersClients ==
  ASSUME TypeOK, CallInv, NEW p \in Active, Thread(p), NEW c \in Clients, ProtoOf[c] # p
  PROVE  /\ c \in listed => c \in listed'
         /\ linked'[c] = linked[c]
         /\ master'[c] \in {master[c], NoModule}
<1> USE DEF TypeOK, clientVars, streamVars
<1>1. ASSUME Packet(p) PROVE UNCHANGED master /\ (c \in listed => c \in listed') /\ linked'[c] = linked[c]
  <2>1. CASE Nothing(p) \/ Connect(p) \/ Disconnect(p) \/ Frame(p) \/ Tickle(p) \/ Voice(p)
    BY <2>1 DEF Nothing, Connect, Disconnect, Remove, ClientsOf, Frame, Tickle, Voice
  <2>2. ASSUME NEW d \in Clients, ProtoOf[d] = p, MmdvmLink(d)
        PROVE UNCHANGED <<listed, master>> /\ linked'[c] = linked[c]
    BY <2>2 DEF MmdvmLink
  <2>3. ASSUME NEW d \in Clients, ProtoOf[d] = p, NEW s \in Sids, Header(d, s)
        PROVE UNCHANGED <<listed, master>> /\ linked'[c] = linked[c]
    <3>1. PICK m \in Reach[p] \cup {NoModule, linked[d]} :
            CallOpenStream(p, d, s, m) /\ linked' \in {linked, [linked EXCEPT ![d] = m]}
      BY <2>3, HeaderCalls
    <3> QED
      BY <2>3, <3>1 DEF CallOpenStream
  <2> QED
    BY <1>1, <2>1, <2>2, <2>3 DEF Packet
<1>2. CASE OpenStream(p)
  BY <1>2 DEF OpenStream, Admit, Refuse, Test, Claim, Fill, Mark, Keep, CallInv, OwnCall, Opening
<1>3. CASE CheckStreamsTimeout(p)
  BY <1>3 DEF CheckStreamsTimeout, StillFresh, Expired, Scanned, Drained, Unmaster, Zero, Disown
<1>4. CASE Keepalive(p)
  BY <1>4 DEF Keepalive, Remove, ClientsOf
<1> QED
  BY <1>1, <1>2, <1>3, <1>4 DEF Thread

\* A thread leaves the state of the other threads alone.
LEMMA OthersThreads ==
  ASSUME TypeOK, NEW p \in Active, Thread(p), NEW q \in Active, q # p
  PROVE  handles'[q] = handles[q] /\ pc'[q] = pc[q] /\ todo'[q] = todo[q] /\ op'[q] = op[q]
<1> USE DEF TypeOK, clientVars, streamVars, Scan, Goto
<1>1. ASSUME Packet(p) PROVE handles'[q] = handles[q] /\ pc'[q] = pc[q] /\ todo'[q] = todo[q] /\ op'[q] = op[q]
  <2>1. CASE Nothing(p) \/ Connect(p) \/ Disconnect(p) \/ Frame(p) \/ Tickle(p) \/ Voice(p)
    BY <2>1, TickleDone DEF Nothing, Connect, Disconnect, Frame, Tickle, Voice
  <2>2. ASSUME NEW d \in Clients, ProtoOf[d] = p, MmdvmLink(d)
        PROVE handles'[q] = handles[q] /\ pc'[q] = pc[q] /\ todo'[q] = todo[q] /\ op'[q] = op[q]
    BY <2>2 DEF MmdvmLink
  <2>3. ASSUME NEW d \in Clients, ProtoOf[d] = p, NEW s \in Sids, Header(d, s)
        PROVE handles'[q] = handles[q] /\ pc'[q] = pc[q] /\ todo'[q] = todo[q] /\ op'[q] = op[q]
    <3>1. PICK m \in Reach[p] \cup {NoModule, linked[d]} : CallOpenStream(p, d, s, m)
      BY <2>3, HeaderCalls
    <3> QED
      BY <3>1 DEF CallOpenStream
  <2> QED
    BY <1>1, <2>1, <2>2, <2>3 DEF Packet
<1>2. CASE OpenStream(p)
  BY <1>2, HeaderDonePoint DEF OpenStream, Admit, Refuse, Test, Claim, Fill, Mark, Keep
<1>3. CASE CheckStreamsTimeout(p)
  BY <1>3 DEF CheckStreamsTimeout, StillFresh, Expired, Scanned, Drained, Unmaster, Zero, Disown
<1>4. CASE Keepalive(p)
  BY <1>4 DEF Keepalive
<1> QED
  BY <1>1, <1>2, <1>3, <1>4 DEF Thread

-----------------------------------------------------------------------------

\* A thread keeps its own part of CallInv, packet by packet and step by step.
LEMMA OwnHeaderDone ==
  ASSUME TypeOK, CallInv, NEW p \in Active,
         \A s \in Sids : handles'[p][s] \in {handles[p][s]} \cup Reach[p],
         pc'[p] \in {"voice", "scan"}, op'[p].module = NoModule,
         pc'[p] = "scan" => op'[p] = NoCall /\ todo'[p] = Held(handles'[p]),
         pc'[p] = "voice" => todo'[p] = todo[p]
  PROVE  OwnCall(p)'
<1>1. \A s \in Sids : handles'[p][s] \in Reach[p] \cup {NoModule}
  BY DEF CallInv, OwnCall
<1>2. \A s \in todo'[p] : handles'[p][s] # NoModule
  BY ConstantsAssumption DEF CallInv, OwnCall, Held, TypeOK
<1> QED
  BY <1>1, <1>2 DEF OwnCall, Opening, Closing

LEMMA OwnPacket ==
  ASSUME TypeOK, TypeOK', CallInv, NEW p \in Active, Packet(p)
  PROVE  OwnCall(p)'
<1>1. CASE Tickle(p)
  <2>1. handles' = handles
    BY <1>1 DEF Tickle
  <2> QED
    BY <1>1, <2>1, TickleDone, OwnHeaderDone
<1> USE DEF TypeOK, CallInv, OwnCall, clientVars, streamVars, Opening, Closing
<1>2. CASE Nothing(p) \/ Connect(p) \/ Disconnect(p) \/ Frame(p) \/ Voice(p)
  <2>1. Scan(p, handles[p]) /\ handles' = handles
    BY <1>2 DEF Nothing, Connect, Disconnect, Frame, Voice
  <2> QED
    BY <2>1 DEF Scan, Goto, Held, NoCall
<1>3. ASSUME NEW c \in Clients, ProtoOf[c] = p, MmdvmLink(c) PROVE OwnCall(p)'
  <2>1. Scan(p, handles[p]) /\ handles' = handles
    BY <1>3, ConstantsAssumption DEF MmdvmLink
  <2> QED
    BY <2>1 DEF Scan, Goto, Held, NoCall
<1>4. ASSUME NEW c \in Clients, ProtoOf[c] = p, NEW s \in Sids, Header(c, s) PROVE OwnCall(p)'
  <2>1. PICK m \in Reach[p] \cup {NoModule, linked[c]} : CallOpenStream(p, c, s, m)
    BY <1>4, HeaderCalls
  <2>2. m \in Reach[p] \cup {NoModule}
    BY <1>4
  <2>3. op'[p] = [client |-> c, sid |-> s, module |-> m] /\ pc'[p] = "check"
    BY <2>1 DEF CallOpenStream, Goto
  <2>4. pc[p] = "receive" /\ UNCHANGED <<listed, handles, todo>>
    BY <2>1 DEF CallOpenStream
  <2>5. c \in listed
    BY <2>1 DEF CallOpenStream
  <2> QED
    BY <1>4, <2>2, <2>3, <2>4, <2>5
<1> QED
  BY <1>1, <1>2, <1>3, <1>4 DEF Packet

LEMMA OwnOpenStream ==
  ASSUME TypeOK, TypeOK', CallInv, NEW p \in Active, OpenStream(p)
  PROVE  OwnCall(p)'
<1>1. CASE Refuse(p)
  <2>1. handles' = handles /\ op[p] \in Calls
    BY <1>1 DEF Refuse, TypeOK
  <2> QED
    BY <1>1, <2>1, HeaderDonePoint, OwnHeaderDone DEF Refuse
<1> USE DEF TypeOK, CallInv, OwnCall, Goto, clientVars, streamVars, Opening, Closing, IsAMaster
<1>2. CASE Admit(p)
  BY <1>2, Nulls DEF Admit, MayOpen
<1>3. CASE Test(p)
  BY <1>3 DEF Test
<1>4. CASE Claim(p)
  BY <1>4 DEF Claim
<1>5. CASE Fill(p)
  BY <1>5 DEF Fill
<1>6. CASE Mark(p)
  BY <1>6 DEF Mark
<1>7. CASE Keep(p)
  <2>1. HeaderDone(p, op[p], handles'[p]) /\ op[p] \in Calls
    BY <1>7 DEF Keep
  <2>2. \A s \in Sids : handles'[p][s] \in {handles[p][s]} \cup Reach[p]
    BY <1>7 DEF Keep
  <2> QED
    BY <2>1, <2>2, HeaderDonePoint, OwnHeaderDone
<1> QED
  BY <1>1, <1>2, <1>3, <1>4, <1>5, <1>6, <1>7 DEF OpenStream

LEMMA OwnTimeout ==
  ASSUME TypeOK, TypeOK', CallInv, NEW p \in Active, CheckStreamsTimeout(p)
  PROVE  OwnCall(p)'
<1> USE DEF TypeOK, CallInv, OwnCall, Goto, clientVars, streamVars, Opening, Closing, IsAMaster
<1>1. CASE StillFresh(p)
  <2>1. todo'[p] \subseteq todo[p] /\ UNCHANGED <<listed, master, handles, pc, op>>
    BY <1>1 DEF StillFresh
  <2> QED
    BY <2>1
<1>2. CASE Expired(p)
  <2>1. PICK s \in todo[p] :
          /\ op'[p] = [client |-> NoClient, sid |-> s, module |-> handles[p][s]]
          /\ todo'[p] = todo[p] \ {s}
    BY <1>2 DEF Expired
  <2>2. s \in Sids /\ handles[p][s] \in Reach[p] /\ handles[p][s] # NoModule
    BY <2>1
  <2>3. handles' = handles /\ pc'[p] = "drain"
    BY <1>2 DEF Expired
  <2> QED
    BY <2>1, <2>2, <2>3
<1>3. CASE Scanned(p)
  <2>1. todo[p] = {} /\ pc[p] = "scan" /\ pc'[p] \in {"receive", "keepalive"}
    BY <1>3 DEF Scanned
  <2>2. UNCHANGED <<listed, master, handles, todo, op>>
    BY <1>3 DEF Scanned
  <2> QED
    BY <2>1, <2>2
<1>4. CASE Drained(p)
  BY <1>4 DEF Drained
<1>5. CASE Unmaster(p)
  BY <1>5 DEF Unmaster
<1>6. CASE Zero(p)
  BY <1>6 DEF Zero
<1>7. CASE Disown(p)
  BY <1>7 DEF Disown, NoCall
<1> QED
  BY <1>1, <1>2, <1>3, <1>4, <1>5, <1>6, <1>7 DEF CheckStreamsTimeout

LEMMA CallCorrect == Spec => []CallInv
<1>1. Init => CallInv
  BY ConstantsAssumption DEF Init, CallInv, OwnCall, NoCall, Opening, Closing
<1>2. TypeOK /\ TypeOK' /\ CallInv /\ [Next]_vars => CallInv'
  <2> SUFFICES ASSUME TypeOK, TypeOK', CallInv, [Next]_vars PROVE CallInv'
    OBVIOUS
  <2>1. ASSUME NEW p \in Active, Thread(p) PROVE CallInv'
    <3>1. OwnCall(p)'
      <4>1. CASE Keepalive(p)
        BY <4>1 DEF Keepalive, Goto, CallInv, OwnCall, TypeOK, Opening, Closing, NoCall
      <4> QED
        BY <2>1, <4>1, OwnPacket, OwnOpenStream, OwnTimeout DEF Thread
    <3>2. ASSUME NEW q \in Active, q # p PROVE OwnCall(q)'
      <4>1. handles'[q] = handles[q] /\ pc'[q] = pc[q] /\ todo'[q] = todo[q] /\ op'[q] = op[q]
        BY <2>1, <3>2, OthersThreads
      <4>2. pc[q] \in Opening => op[q].client \in Clients /\ ProtoOf[op[q].client] # p
        BY <3>2 DEF CallInv, OwnCall, TypeOK
      <4>3. pc[q] \in Opening =>
              /\ op[q].client \in listed'
              /\ master'[op[q].client] \in {master[op[q].client], NoModule}
        BY <2>1, <4>2, OthersClients DEF CallInv, OwnCall
      <4> QED
        BY <4>1, <4>3 DEF CallInv, OwnCall, IsAMaster, Opening
    <3>3. ASSUME NEW c \in Clients PROVE linked'[c] \in Reach[ProtoOf[c]] \cup {NoModule}
      <4>1. CASE ProtoOf[c] # p
        BY <2>1, <4>1, OthersClients DEF CallInv
      <4>2. CASE ProtoOf[c] = p /\ Packet(p)
        <5>1. CASE Nothing(p) \/ Connect(p) \/ Disconnect(p) \/ Frame(p) \/ Tickle(p) \/ Voice(p)
          BY <4>2, <5>1 DEF Nothing, Connect, Disconnect, Frame, Tickle, Voice, clientVars, CallInv, TypeOK
        <5>2. ASSUME NEW d \in Clients, ProtoOf[d] = p, MmdvmLink(d)
              PROVE linked'[c] \in Reach[ProtoOf[c]] \cup {NoModule}
          BY <4>2, <5>2 DEF MmdvmLink, CallInv, TypeOK
        <5>3. ASSUME NEW d \in Clients, ProtoOf[d] = p, NEW s \in Sids, Header(d, s)
              PROVE linked'[c] \in Reach[ProtoOf[c]] \cup {NoModule}
          <6>1. PICK m \in Reach[p] \cup {NoModule, linked[d]} :
                  linked' \in {linked, [linked EXCEPT ![d] = m]}
            BY <5>3, HeaderCalls
          <6> QED
            BY <4>2, <5>3, <6>1 DEF CallInv, TypeOK
        <5> QED
          BY <4>2, <5>1, <5>2, <5>3 DEF Packet
      <4>3. CASE ProtoOf[c] = p /\ OpenStream(p)
        <5>1. CASE Mark(p)
          BY <4>3, <5>1 DEF Mark, CallInv, OwnCall, TypeOK
        <5> QED
          BY <4>3, <5>1 DEF OpenStream, Admit, Refuse, Test, Claim, Fill, Keep, clientVars, CallInv
      <4>4. CASE CheckStreamsTimeout(p) \/ Keepalive(p)
        BY <4>4 DEF CheckStreamsTimeout, StillFresh, Expired, Scanned, Drained, Unmaster, Zero,
                    Disown, Keepalive, clientVars, CallInv
      <4> QED
        BY <2>1, <4>1, <4>2, <4>3, <4>4 DEF Thread
    <3> QED
      BY <3>1, <3>2, <3>3 DEF CallInv
  <2>2. ASSUME NEW m \in Modules, Route(m) \/ Expire(m) PROVE CallInv'
    BY <2>2 DEF Route, Expire, clientVars, threadVars, CallInv, OwnCall, IsAMaster
  <2>3. CASE UNCHANGED vars
    BY <2>3 DEF vars, clientVars, streamVars, threadVars, CallInv, OwnCall, IsAMaster
  <2> QED
    BY <2>1, <2>2, <2>3 DEF Next
<1> QED
  BY <1>1, <1>2, TypeCorrect, PTL DEF Spec

\* A client that is marked as master is in the list of clients and is not
\* removed from it, whichever threads run and whatever they share.
THEOREM MastersListedCorrect == Spec => []MastersListed
<1>1. Init => MastersListed
  BY DEF Init, MastersListed, IsAMaster
<1>2. TypeOK /\ CallInv /\ MastersListed /\ [Next]_vars => MastersListed'
  <2> SUFFICES ASSUME TypeOK, CallInv, MastersListed, [Next]_vars PROVE MastersListed'
    OBVIOUS
  <2> USE DEF TypeOK, MastersListed, IsAMaster, clientVars, streamVars
  <2>1. ASSUME NEW p \in Active, Packet(p) PROVE MastersListed'
    <3>1. CASE Nothing(p) \/ Connect(p) \/ Disconnect(p) \/ Frame(p) \/ Tickle(p) \/ Voice(p)
      BY <3>1 DEF Nothing, Connect, Disconnect, Remove, Frame, Tickle, Voice
    <3>2. ASSUME NEW c \in Clients, MmdvmLink(c) PROVE MastersListed'
      BY <3>2 DEF MmdvmLink
    <3>3. ASSUME NEW c \in Clients, ProtoOf[c] = p, NEW s \in Sids, Header(c, s) PROVE MastersListed'
      BY <3>3, HeaderCalls DEF CallOpenStream
    <3> QED
      BY <2>1, <3>1, <3>2, <3>3 DEF Packet
  <2>2. ASSUME NEW p \in Active, OpenStream(p) PROVE MastersListed'
    BY <2>2 DEF OpenStream, Admit, Refuse, Test, Claim, Fill, Mark, Keep, CallInv, OwnCall, Opening
  <2>3. ASSUME NEW p \in Active, CheckStreamsTimeout(p) PROVE MastersListed'
    BY <2>3 DEF CheckStreamsTimeout, StillFresh, Expired, Scanned, Drained, Unmaster, Zero, Disown
  <2>4. ASSUME NEW p \in Active, Keepalive(p) PROVE MastersListed'
    BY <2>4 DEF Keepalive, Remove
  <2>5. ASSUME NEW m \in Modules, Route(m) \/ Expire(m) PROVE MastersListed'
    BY <2>5 DEF Route, Expire
  <2>6. CASE UNCHANGED vars
    BY <2>6 DEF vars
  <2> QED
    BY <2>1, <2>2, <2>3, <2>4, <2>5, <2>6 DEF Next, Thread
<1> QED
  BY <1>1, <1>2, TypeCorrect, CallCorrect, PTL DEF Spec

-----------------------------------------------------------------------------

\* The history watches the streams and changes nothing about them.
LEMMA HistoryWatches == HSpec => Spec
<1>1. HInit => Init
  BY DEF HInit
<1>2. [HNext]_hvars => [Next]_vars
  BY DEF HNext, hvars
<1> QED
  BY <1>1, <1>2, PTL DEF HSpec, Spec

\* Only a claim changes which ids were set without the clients.
LEMMA LooseStep ==
  ASSUME TypeOK, NEW p \in Active, Thread(p), Loosening, NEW m \in Modules
  PROVE  m \in loose' <=> IF Claims(p, m) THEN p \in OpensUnlocked ELSE m \in loose
<1>1. \A q \in Active : q # p => ~Claims(q, m)
  BY OthersThreads DEF Claims
<1> QED
  BY <1>1 DEF Loosening

\* A step of any thread keeps SidInv: whoever is in OpenStream with the clients
\* locked shares it with M17 only, and closers do nothing but reset ids.
LEMMA SidStep ==
  ASSUME TypeOK, TypeOK', CallInv, SidInv, NEW p \in Active, Thread(p), Loosening
  PROVE  SidInv'
<1> USE DEF TypeOK, SidInv, clientVars, streamVars
<1>0. Free \notin Active
  BY ConstantsAssumption DEF Protocols, Free
<1>9. /\ \A q \in Active : q # p => pc'[q] = pc[q] /\ op'[q] = op[q]
      /\ \A m \in Modules : ~Claims(p, m) => (m \in loose' <=> m \in loose)
  BY OthersThreads, LooseStep
<1>1. CASE Packet(p)
  <2>1. /\ UNCHANGED sid
        /\ pc[p] # "claim"
        /\ \/ pc'[p] \in {"voice", "scan"} /\ lock' = lock
           \/ /\ pc'[p] = "check" /\ lock = Free
              /\ lock' = IF p \in OpensUnlocked THEN Free ELSE p
    <3>1. CASE Nothing(p) \/ Connect(p) \/ Disconnect(p) \/ Frame(p) \/ Tickle(p) \/ Voice(p)
      BY <3>1, TickleDone DEF Nothing, Connect, Disconnect, Frame, Tickle, Voice, Scan, Goto
    <3>2. ASSUME NEW c \in Clients, ProtoOf[c] = p, MmdvmLink(c)
          PROVE UNCHANGED sid /\ pc[p] = "receive" /\ pc'[p] = "scan" /\ lock' = lock
      BY <3>2, ConstantsAssumption DEF MmdvmLink, Scan, Goto
    <3>3. ASSUME NEW c \in Clients, ProtoOf[c] = p, NEW s \in Sids, Header(c, s)
          PROVE /\ UNCHANGED sid
                /\ pc[p] = "receive" /\ pc'[p] = "check" /\ lock = Free
                /\ lock' = IF p \in OpensUnlocked THEN Free ELSE p
      <4>1. PICK m \in Reach[p] \cup {NoModule, linked[c]} : CallOpenStream(p, c, s, m)
        BY <3>3, HeaderCalls
      <4> QED
        BY <4>1 DEF CallOpenStream, Goto
    <3> QED
      BY <1>1, <3>1, <3>2, <3>3 DEF Packet
  <2>2. \A m \in Modules : m \in loose' <=> m \in loose
    BY <1>9, <2>1 DEF Claims
  <2>3. ASSUME NEW q \in Active \ OpensUnlocked, pc'[q] \in Opening PROVE lock' = q
    <3>1. CASE q = p
      BY <2>1, <2>3, <3>1 DEF Opening
    <3>2. CASE q # p
      <4>1. lock = q
        BY <1>9, <2>3, <3>2
      <4> QED
        BY <1>0, <2>1, <4>1
    <3> QED
      BY <3>1, <3>2
  <2>4. ASSUME NEW q \in Active \ OpensUnlocked, pc'[q] \in {"test", "claim"},
               NEW m \in Modules, sid'[m] = op'[q].sid
        PROVE  m \in loose'
    BY <1>9, <2>1, <2>2, <2>4
  <2> QED
    BY <2>1, <2>2, <2>3, <2>4 DEF LockedSidsUnique
<1>2. CASE OpenStream(p)
  <2> DEFINE n == op[p].module
  <2>1. ASSUME NEW q \in Active \ OpensUnlocked, q # p, pc'[q] \in Opening PROVE lock' = q
    <3>1. lock = q
      BY <1>9, <2>1
    <3> QED
      BY <1>2, <2>1, <3>1
      DEF OpenStream, Admit, Refuse, Test, Claim, Fill, Mark, Keep, Release
  <2>2. ASSUME p \notin OpensUnlocked, pc'[p] \in Opening PROVE lock' = p
    <3>1. lock = p /\ pc[p] \in Opening
      BY <1>2, <2>2 DEF OpenStream, Admit, Refuse, Test, Claim, Fill, Mark, Keep, Opening
    <3>2. CASE Refuse(p) \/ Keep(p)
      <4>1. pc'[p] \in {"voice", "scan"}
        BY <3>2, HeaderDonePoint DEF Refuse, Keep
      <4> QED
        BY <2>2, <4>1 DEF Opening
    <3> QED
      BY <1>2, <3>1, <3>2 DEF OpenStream, Admit, Test, Claim, Fill, Mark
  <2>3. CASE Claim(p)
    <3>1. /\ \A m \in Modules : sid'[m] = IF m = n THEN op[p].sid ELSE sid[m]
          /\ pc[p] = "claim" /\ pc'[p] = "fill" /\ op'[p] = op[p]
      BY <2>3 DEF Claim, Goto
    <3>2. \A m \in Modules : m \in loose' <=> IF m = n THEN p \in OpensUnlocked ELSE m \in loose
      BY <3>1, LooseStep DEF Claims
    <3>3. p \notin OpensUnlocked => \A m \in Modules : sid[m] = op[p].sid => m \in loose
      BY <3>1
    <3>4. LockedSidsUnique'
      BY <3>1, <3>2, <3>3 DEF LockedSidsUnique
    <3>5. ASSUME NEW q \in Active \ OpensUnlocked, pc'[q] \in {"test", "claim"},
                 NEW m \in Modules, sid'[m] = op'[q].sid
          PROVE  m \in loose'
      <4>1. q # p /\ pc[q] \in {"test", "claim"} /\ op'[q] = op[q]
        BY <1>9, <3>1, <3>5
      <4>2. p \in OpensUnlocked
        BY <3>1, <4>1 DEF Opening
      <4> QED
        BY <3>1, <3>2, <3>5, <4>1, <4>2
    <3> QED
      BY <2>1, <2>2, <3>4, <3>5
  <2>4. CASE Admit(p) \/ Refuse(p) \/ Test(p) \/ Fill(p) \/ Mark(p) \/ Keep(p)
    <3>1. UNCHANGED sid /\ pc[p] # "claim"
      BY <2>4 DEF Admit, Refuse, Test, Fill, Mark, Keep
    <3>2. \A m \in Modules : m \in loose' <=> m \in loose
      BY <1>9, <3>1 DEF Claims
    <3>3. pc'[p] \in {"test", "claim"} =>
            /\ op'[p] = op[p]
            /\ pc[p] = "test" \/ \A m \in Modules : sid[m] # op[p].sid
      <4>1. CASE Refuse(p) \/ Keep(p)
        BY <4>1, HeaderDonePoint DEF Refuse, Keep
      <4> QED
        BY <2>4, <4>1 DEF Admit, MayOpen, Test, Fill, Mark, Goto
    <3>4. ASSUME NEW q \in Active \ OpensUnlocked, pc'[q] \in {"test", "claim"},
                 NEW m \in Modules, sid'[m] = op'[q].sid
          PROVE  m \in loose'
      <4>1. CASE q = p
        BY <3>1, <3>2, <3>3, <3>4, <4>1
      <4>2. CASE q # p
        BY <1>9, <3>1, <3>2, <3>4, <4>2
      <4> QED
        BY <4>1, <4>2
    <3> QED
      BY <2>1, <2>2, <3>1, <3>2, <3>4 DEF LockedSidsUnique
  <2> QED
    BY <1>2, <2>3, <2>4 DEF OpenStream
<1>3. CASE CheckStreamsTimeout(p)
  <2>1. lock' = lock /\ pc[p] \notin Opening /\ pc'[p] \notin Opening
    BY <1>3 DEF CheckStreamsTimeout, StillFresh, Expired, Scanned, Drained, Unmaster, Zero, Disown,
                Goto, Opening
  <2>2. \A m \in Modules : sid'[m] \in {sid[m], NoSid}
    BY <1>3 DEF CheckStreamsTimeout, StillFresh, Expired, Scanned, Drained, Unmaster, Zero, Disown
  <2>3. \A m \in Modules : m \in loose' <=> m \in loose
    BY <1>9, <2>1 DEF Claims, Opening
  <2>4. LockedSidsUnique'
    BY <2>2, <2>3 DEF LockedSidsUnique
  <2>5. \A q \in Active \ OpensUnlocked : pc'[q] \in Opening => lock' = q
    BY <1>9, <2>1
  <2>6. ASSUME NEW q \in Active \ OpensUnlocked, pc'[q] \in {"test", "claim"},
               NEW m \in Modules, sid'[m] = op'[q].sid
        PROVE  m \in loose'
    <3>1. q # p
      BY <2>1, <2>6 DEF Opening
    <3>2. pc[q] \in {"test", "claim"} /\ op'[q] = op[q]
      BY <1>9, <2>6, <3>1
    <3>3. op[q].sid # NoSid
      BY <3>2 DEF CallInv, OwnCall
    <3> QED
      BY <2>2, <2>3, <2>6, <3>2, <3>3
  <2> QED
    BY <2>4, <2>5, <2>6
<1>4. CASE Keepalive(p)
  <2>1. UNCHANGED <<sid, lock, op>> /\ pc[p] = "keepalive" /\ pc'[p] = "receive"
    BY <1>4 DEF Keepalive, Goto
  <2>2. \A m \in Modules : m \in loose' <=> m \in loose
    BY <1>9, <2>1 DEF Claims
  <2> QED
    BY <1>9, <2>1, <2>2 DEF LockedSidsUnique, Opening
<1> QED
  BY <1>1, <1>2, <1>3, <1>4 DEF Thread

\* Neither routers nor time change anything SidInv speaks of.
LEMMA SidCorrect == HSpec => []SidInv
<1>1. HInit => SidInv
  BY DEF HInit, Init, SidInv, LockedSidsUnique, Opening
<1>2. TypeOK /\ TypeOK' /\ CallInv /\ SidInv /\ [HNext]_hvars => SidInv'
  <2> SUFFICES ASSUME TypeOK, TypeOK', CallInv, SidInv, [HNext]_hvars PROVE SidInv'
    OBVIOUS
  <2>1. ASSUME NEW p \in Active, Thread(p), Loosening PROVE SidInv'
    BY <2>1, SidStep
  <2>2. ASSUME NEW k \in Modules, Route(k) \/ Expire(k), Loosening PROVE SidInv'
    <3>1. UNCHANGED <<sid, pc, op, lock>>
      BY <2>2 DEF Route, Expire, threadVars
    <3>2. \A m \in Modules : m \in loose' <=> m \in loose
      BY <2>2, <3>1 DEF Loosening, Claims
    <3> QED
      BY <3>1, <3>2 DEF SidInv, LockedSidsUnique
  <2>3. CASE UNCHANGED hvars
    BY <2>3 DEF hvars, vars, clientVars, streamVars, threadVars, SidInv, LockedSidsUnique
  <2> QED
    BY <2>1, <2>2, <2>3 DEF HNext, Next
<1> QED
  BY <1>1, <1>2, HistoryWatches, TypeCorrect, CallCorrect, PTL DEF HSpec

\* In any reflector, however modules are shared and with M17 opening streams
\* beside the others: if two modules carry the same stream id, M17 opened one of
\* them (IsStreamOpen in OpenStream, CM17Protocol::OnDvHeaderPacketIn).
THEOREM LockedSidsUniqueCorrect == HSpec => []LockedSidsUnique
<1>1. SidInv => LockedSidsUnique
  BY DEF SidInv
<1> QED
  BY <1>1, SidCorrect, PTL

-----------------------------------------------------------------------------

\* What p answers for are modules, and whatever it opens past the test or closes
\* is among them.
LEMMA AttendsOwn ==
  ASSUME TypeOK, CallInv, NEW p \in Active
  PROVE  /\ Attended(p) \subseteq Modules
         /\ \A s \in Sids : handles[p][s] # NoModule => handles[p][s] \in Attended(p)
         /\ pc[p] \in {"claim", "fill", "mark", "keep"} \cup Closing =>
              op[p].module \in Attended(p) /\ op[p].module # NoModule
<1>1. \A s \in Sids : handles[p][s] # NoModule => handles[p][s] \in Modules
  BY DEF TypeOK
<1>2. pc[p] \in {"claim", "fill", "mark", "keep"} \cup Closing =>
        op[p].module # NoModule /\ op[p].module \in Modules
  BY ConstantsAssumption DEF CallInv, OwnCall, Opening, Closing
<1> QED
  BY <1>1, <1>2 DEF Attended

\* A thread touches the streams of the modules it answers for only.
LEMMA OthersModules ==
  ASSUME TypeOK, CallInv, NEW p \in Active, Thread(p), NEW m \in Modules, m \notin Attended(p)
  PROVE  sid'[m] = sid[m] /\ owner'[m] = owner[m] /\ queued'[m] = queued[m]
<1> USE DEF TypeOK, clientVars, streamVars
<1>1. CASE Packet(p)
  <2>1. CASE Nothing(p) \/ Connect(p) \/ Disconnect(p) \/ Tickle(p)
    BY <2>1 DEF Nothing, Connect, Disconnect, Tickle
  <2>2. CASE Frame(p)
    BY <2>2, AttendsOwn DEF Frame, Push, GetStream
  <2>3. CASE Voice(p)
    <3>1. FrameId(p) \in Sids
      BY Nulls DEF FrameId, Calls
    <3> QED
      BY <2>3, <3>1, AttendsOwn DEF Voice, Push, GetStream
  <2>4. ASSUME NEW c \in Clients, MmdvmLink(c) PROVE UNCHANGED <<sid, owner, queued>>
    BY <2>4 DEF MmdvmLink
  <2>5. ASSUME NEW c \in Clients, ProtoOf[c] = p, NEW s \in Sids, Header(c, s)
        PROVE UNCHANGED <<sid, owner, queued>>
    BY <2>5, HeaderCalls DEF CallOpenStream
  <2> QED
    BY <1>1, <2>1, <2>2, <2>3, <2>4, <2>5 DEF Packet
<1>2. CASE OpenStream(p)
  BY <1>2, AttendsOwn DEF OpenStream, Admit, Refuse, Test, Claim, Fill, Mark, Push, Keep
<1>3. CASE CheckStreamsTimeout(p)
  BY <1>3, AttendsOwn DEF CheckStreamsTimeout, StillFresh, Expired, Scanned, Drained, Unmaster, Zero,
                          Disown, Closing
<1>4. CASE Keepalive(p)
  BY <1>4 DEF Keepalive
<1> QED
  BY <1>1, <1>2, <1>3, <1>4 DEF Thread

\* And it makes and unmakes masters of its own clients only.
LEMMA OthersMasters ==
  ASSUME TypeOK, CallInv, NEW p \in Active, OwnFloor(p), Thread(p), NEW c \in Clients, ProtoOf[c] # p
  PROVE  master'[c] = master[c]
<1>1. CASE CheckStreamsTimeout(p)
  <2>1. CASE Unmaster(p)
    <3>1. owner[op[p].module] # NoClient => ProtoOf[owner[op[p].module]] = p
      BY <2>1, AttendsOwn DEF Unmaster, OwnFloor, ModuleInv, Closing
    <3> QED
      BY <2>1, <3>1 DEF Unmaster, TypeOK
  <2> QED
    BY <1>1, <2>1 DEF CheckStreamsTimeout, StillFresh, Expired, Scanned, Drained, Zero, Disown, clientVars
<1>2. CASE OpenStream(p)
  BY <1>2 DEF OpenStream, Admit, Refuse, Test, Claim, Fill, Mark, Keep, CallInv, OwnCall, Opening,
              clientVars, TypeOK
<1>3. CASE Packet(p)
  <2>1. ASSUME NEW d \in Clients, ProtoOf[d] = p, NEW s \in Sids, Header(d, s) PROVE UNCHANGED master
    BY <2>1, HeaderCalls DEF CallOpenStream
  <2> QED
    BY <1>3, <2>1 DEF Packet, Nothing, Connect, Disconnect, Frame, Tickle, Voice, MmdvmLink, clientVars
<1>4. CASE Keepalive(p)
  BY <1>4 DEF Keepalive
<1> QED
  BY <1>1, <1>2, <1>3, <1>4 DEF Thread

\* What the thread of another protocol does leaves the modules of q as they are.
LEMMA OthersFloor ==
  ASSUME TypeOK, TypeOK', CallInv, CallInv', NEW p \in Active, OwnFloor(p), Thread(p),
         NEW q \in Active, q # p, OwnFloor(q), Attended(p) \cap Attended(q) = {}
  PROVE  OwnFloor(q)' /\ Attended(q)' = Attended(q)
<1>1. handles'[q] = handles[q] /\ pc'[q] = pc[q] /\ op'[q] = op[q]
  BY OthersThreads
<1>2. \A m \in Attended(q) :
        m \in Modules /\ sid'[m] = sid[m] /\ owner'[m] = owner[m] /\ queued'[m] = queued[m]
  BY OthersModules, AttendsOwn
<1>3. \A c \in Clients : ProtoOf[c] = q =>
        master'[c] = master[c] /\ (c \in listed => c \in listed')
  BY OthersMasters, OthersClients
<1>4. \A m \in Attended(q) : owner[m] \in Clients \cup {NoClient}
  BY <1>2 DEF TypeOK
<1>5. \A m \in Attended(q) : Stage(q, m)' = Stage(q, m)
  BY <1>1 DEF Stage
<1>6. Attended(q)' = Attended(q)
  BY <1>1 DEF Attended
<1>7. \A c \in Clients : ProtoOf[c] = q /\ IsAMaster(c)' =>
        master'[c] \in Attended(q) /\ owner'[master'[c]] = c
  BY <1>2, <1>3 DEF OwnFloor, IsAMaster
<1>8. OwnSids(q)'
  BY <1>1, <1>2, <1>6 DEF OwnFloor, OwnSids
<1>9. ASSUME NEW m \in Attended(q) PROVE ModuleInv(q, m)'
  BY <1>1, <1>2, <1>3, <1>4, <1>5 DEF OwnFloor, ModuleInv
<1>10. ASSUME NEW m \in Attended(q) PROVE HandleInv(q, m)'
  BY <1>1, <1>2, <1>5 DEF OwnFloor, HandleInv
<1> QED
  BY <1>6, <1>7, <1>8, <1>9, <1>10 DEF OwnFloor

\* The frames of a packet go to no stream, or to one of p that has a master.
LEMMA FramesFindMaster ==
  ASSUME TypeOK, CallInv, NEW p \in Active, OwnFloor(p), Frame(p) \/ Voice(p)
  PROVE  \/ UNCHANGED queued
         \/ \E m \in Attended(p) : Push(m) /\ HasMaster(m)
<1>1. /\ pc[p] \in {"receive", "voice"}
      /\ op[p].module = NoModule
  BY DEF Frame, Voice, CallInv, OwnCall, Opening, Closing, NoCall
<1>2. ASSUME NEW s \in Sids, NEW c, GetStream(p, s, c) # NoModule
      PROVE  GetStream(p, s, c) \in Attended(p) /\ HasMaster(GetStream(p, s, c))
  <2> DEFINE m == handles[p][s]
  <2>1. GetStream(p, s, c) = m /\ m # NoModule
    BY <1>2 DEF GetStream
  <2>2. m \in Attended(p)
    BY <2>1, AttendsOwn
  <2>3. ModuleInv(p, m) /\ HandleInv(p, m) /\ Stage(p, m) = "scan"
    BY <1>1, <2>1, <2>2 DEF OwnFloor, Stage
  <2>4. s = sid[m] /\ s # NoSid
    BY <2>3 DEF HandleInv
  <2> QED
    BY <2>1, <2>2, <2>3, <2>4 DEF ModuleInv, HasMaster
<1>3. CASE Frame(p)
  BY <1>2, <1>3 DEF Frame
<1>4. CASE Voice(p)
  <2>1. FrameId(p) \in Sids
    BY Nulls DEF FrameId, TypeOK, Calls
  <2> QED
    BY <1>2, <1>4, <2>1 DEF Voice
<1> QED
  BY <1>3, <1>4

\* The thread's own modules.  A packet that opens nothing leaves them idle.
LEMMA OwnFloorPacket ==
  ASSUME TypeOK, TypeOK', CallInv, CallInv', NEW p \in Active, OwnFloor(p), Packet(p)
  PROVE  OwnFloor(p)' /\ Attended(p)' = Attended(p)
<1>1. pc[p] \in {"receive", "voice"} /\ op[p].module = NoModule
  <2>1. pc[p] \in {"receive", "voice"}
    <3>1. ASSUME NEW c \in Clients, ProtoOf[c] = p, NEW s \in Sids, Header(c, s) PROVE pc[p] = "receive"
      BY <3>1, HeaderCalls DEF CallOpenStream
    <3> QED
      BY <3>1, ConstantsAssumption
      DEF Packet, Nothing, Connect, Disconnect, Frame, Tickle, Voice, MmdvmLink
  <2> QED
    BY <2>1 DEF CallInv, OwnCall, Opening, Closing, NoCall
<1>2. handles'[p] = handles[p] /\ UNCHANGED <<sid, owner, master>>
  <2>1. ASSUME NEW c \in Clients, ProtoOf[c] = p, NEW s \in Sids, Header(c, s)
        PROVE handles'[p] = handles[p] /\ UNCHANGED <<sid, owner, master>>
    BY <2>1, HeaderCalls DEF CallOpenStream, streamVars
  <2> QED
    BY <2>1 DEF Packet, Nothing, Connect, Disconnect, Frame, Tickle, Voice, MmdvmLink, clientVars, streamVars
<1>3. \/ pc'[p] = "check"
      \/ /\ pc'[p] \in {"voice", "scan"}
         /\ op'[p].module = NoModule
  <2>1. ASSUME NEW c \in Clients, ProtoOf[c] = p, NEW s \in Sids, Header(c, s) PROVE pc'[p] = "check"
    BY <2>1, HeaderCalls DEF CallOpenStream, Goto, TypeOK
  <2>2. CASE Scan(p, handles[p])
    BY <2>2 DEF Scan, Goto, TypeOK, NoCall
  <2> QED
    BY <2>1, <2>2, TickleDone, ConstantsAssumption
    DEF Packet, Nothing, Connect, Disconnect, Frame, Voice, MmdvmLink
<1>4. \A m \in Modules : queued'[m] > 0 => queued[m] > 0 \/ owner[m] # NoClient
  <2>1. CASE Frame(p) \/ Voice(p)
    BY <2>1, FramesFindMaster DEF Push, HasMaster, TypeOK
  <2>2. ASSUME NEW c \in Clients, ProtoOf[c] = p, NEW s \in Sids, Header(c, s) PROVE queued' = queued
    BY <2>2, HeaderCalls DEF CallOpenStream, streamVars
  <2> QED
    BY <2>1, <2>2 DEF Packet, Nothing, Connect, Disconnect, Tickle, MmdvmLink, streamVars
<1>5. \A c \in Clients : c \in listed /\ IsAMaster(c) => c \in listed'
  <2>1. ASSUME NEW c \in Clients, ProtoOf[c] = p, NEW s \in Sids, Header(c, s) PROVE listed' = listed
    BY <2>1, HeaderCalls DEF CallOpenStream
  <2> QED
    BY <2>1 DEF Packet, Nothing, Connect, Disconnect, Remove, Frame, Tickle, Voice, MmdvmLink, clientVars
<1>6. \A m \in Attended(p) : /\ m \in Modules
                              /\ Stage(p, m) = "scan"
                              /\ Stage(p, m)' \in {"scan", "check"}
  BY <1>1, <1>3, AttendsOwn, ConstantsAssumption DEF Stage
<1>10. Attended(p)' = Attended(p)
  BY <1>1, <1>2, <1>3 DEF Attended, Closing
<1>7. ASSUME NEW m \in Attended(p) PROVE ModuleInv(p, m)'
  <2>1. ModuleInv(p, m) /\ owner[m] \in Clients \cup {NoClient} /\ m # NoModule
    BY <1>6, ConstantsAssumption DEF OwnFloor, TypeOK
  <2>2. owner[m] # NoClient => owner[m] \in listed'
    BY <1>5, <1>6, <2>1 DEF ModuleInv, IsAMaster
  <2> QED
    BY <1>2, <1>4, <1>6, <2>1, <2>2 DEF ModuleInv, Closing
<1>8. ASSUME NEW m \in Attended(p) PROVE HandleInv(p, m)'
  BY <1>2, <1>6 DEF OwnFloor, HandleInv, Closing
<1>9. OwnSids(p)'
  BY <1>2, <1>3, <1>10 DEF OwnFloor, OwnSids
<1> QED
  BY <1>2, <1>7, <1>8, <1>9, <1>10 DEF OwnFloor, IsAMaster

\* Opening: each step moves one module of p to its next stage.  The test of a module
\* that nobody else answers for finds it free, and then it is one of p, or finds
\* the stream of p.
LEMMA OwnFloorOpenStream ==
  ASSUME TypeOK, TypeOK', CallInv, CallInv', NEW p \in Active, OwnFloor(p), OpenStream(p),
         \A m \in Modules : m \notin Attended(p) /\ m = op[p].module /\ pc[p] = "test" =>
           sid[m] = NoSid /\ owner[m] = NoClient /\ queued[m] = 0
  PROVE  /\ OwnFloor(p)'
         /\ Attended(p)' = Attended(p) \cup (IF Test(p) THEN {op[p].module} ELSE {})
<1> USE DEF clientVars, streamVars, Goto
<1> DEFINE n == op[p].module
<1>0. Test(p) => pc[p] = "test"
  BY DEF Test
<1>1. /\ Attended(p) \subseteq Modules
      /\ NoModule \notin Modules
      /\ \A m \in Attended(p) : owner[m] \in Clients \cup {NoClient} /\ sid[m] \in Sids /\ queued[m] \in Nat
      /\ op[p].client \in Clients \cup {NoClient} /\ op[p].sid \in Sids
      /\ pc[p] \in {"claim", "fill", "mark", "keep"} => n \in Attended(p)
  BY AttendsOwn, ConstantsAssumption DEF TypeOK, Calls
<1>2. /\ \A m \in Attended(p) : ModuleInv(p, m) /\ HandleInv(p, m)
      /\ OwnSids(p)
      /\ \A c \in Clients : ProtoOf[c] = p /\ IsAMaster(c) =>
           master[c] \in Attended(p) /\ owner[master[c]] = c
  BY DEF OwnFloor
<1>3. CASE Admit(p)
  <2>1. /\ UNCHANGED <<clientVars, streamVars>>
        /\ handles'[p] = handles[p] /\ op'[p] = op[p] /\ pc[p] = "check" /\ pc'[p] = "test"
        /\ \A m \in Modules : sid[m] # op[p].sid
    BY <1>3 DEF Admit, MayOpen, TypeOK
  <2>3. Attended(p)' = Attended(p)
    BY <2>1 DEF Attended, Closing
  <2>2. ASSUME NEW m \in Attended(p) PROVE ModuleInv(p, m)' /\ HandleInv(p, m)'
    BY <1>2, <2>1 DEF ModuleInv, HandleInv, Stage, Closing
  <2> QED
    BY <1>0, <1>1, <1>2, <2>1, <2>2, <2>3 DEF OwnFloor, OwnSids, IsAMaster
<1>4. CASE Refuse(p)
  <2>1. /\ UNCHANGED <<clientVars, streamVars>>
        /\ handles'[p] = handles[p] /\ op'[p].module = NoModule /\ pc[p] = "check" /\ pc'[p] \in {"voice", "scan"}
    BY <1>4, HeaderDonePoint DEF Refuse, TypeOK
  <2>3. Attended(p)' = Attended(p)
    BY <2>1 DEF Attended, Closing
  <2>2. ASSUME NEW m \in Attended(p) PROVE ModuleInv(p, m)' /\ HandleInv(p, m)'
    BY <1>1, <1>2, <2>1 DEF ModuleInv, HandleInv, Stage, Closing, NoCall
  <2> QED
    BY <1>0, <1>1, <1>2, <2>1, <2>2, <2>3 DEF OwnFloor, OwnSids, IsAMaster
<1>5. CASE Test(p)
  <2>1. /\ UNCHANGED <<clientVars, streamVars>>
        /\ handles'[p] = handles[p] /\ op'[p] = op[p] /\ pc[p] = "test"
        /\ pc'[p] = IF sid[n] = NoSid THEN "claim" ELSE "keep"
    BY <1>5 DEF Test, TypeOK
  <2>2. n \in Modules /\ op[p].sid # NoSid
    BY <2>1, ConstantsAssumption DEF CallInv, OwnCall, Opening
  <2>3. Attended(p)' = Attended(p) \cup {n}
    BY <2>1, <2>2 DEF Attended, Closing
  <2>4. n \in Attended(p) <=> sid[n] # NoSid
    <3>1. ASSUME n \in Attended(p) PROVE sid[n] # NoSid
      <4>1. PICK s \in Sids : handles[p][s] = n
        BY <2>1, <3>1 DEF Attended, Closing
      <4> QED
        BY <1>2, <2>1, <3>1, <4>1 DEF HandleInv, Stage
    <3> QED
      BY <2>1, <2>2, <3>1
  <2>5. n \notin Attended(p) =>
          /\ owner[n] = NoClient /\ queued[n] = 0
          /\ \A s \in Sids : handles[p][s] # n
    BY <2>1, <2>2 DEF Attended
  <2>6. ASSUME NEW m \in Attended(p) \cup {n} PROVE ModuleInv(p, m)' /\ HandleInv(p, m)'
    <3>1. CASE m \in Attended(p)
      BY <1>2, <2>1, <2>4, <3>1 DEF ModuleInv, HandleInv, Stage, Closing
    <3>2. CASE m = n /\ n \notin Attended(p)
      <4>1. Stage(p, m)' = "claim" /\ sid'[m] = NoSid /\ owner'[m] = NoClient /\ queued'[m] = 0
        BY <2>1, <2>4, <2>5, <3>2 DEF Stage
      <4>2. \A s \in Sids : handles'[p][s] # m
        BY <2>1, <2>5, <3>2
      <4> QED
        BY <4>1, <4>2 DEF ModuleInv, HandleInv, Closing
    <3> QED
      BY <2>6, <3>1, <3>2
  <2>7. OwnSids(p)'
    BY <1>2, <2>1, <2>2, <2>3, <2>4 DEF OwnSids
  <2> QED
    BY <1>1, <1>2, <1>5, <2>1, <2>3, <2>6, <2>7 DEF OwnFloor, IsAMaster
<1>6. CASE Claim(p)
  <2>1. /\ UNCHANGED <<clientVars, owner, queued>>
        /\ handles'[p] = handles[p] /\ op'[p] = op[p] /\ pc[p] = "claim" /\ pc'[p] = "fill"
        /\ \A m \in Modules : sid'[m] = IF m = n THEN op[p].sid ELSE sid[m]
        /\ op[p].sid # NoSid
    BY <1>6 DEF Claim, TypeOK, CallInv, OwnCall
  <2>4. Attended(p)' = Attended(p)
    BY <2>1 DEF Attended, Closing
  <2>2. ASSUME NEW m \in Attended(p) PROVE ModuleInv(p, m)'
    BY <1>1, <1>2, <2>1, <2>2 DEF ModuleInv, Stage, Closing
  <2>3. ASSUME NEW m \in Attended(p) PROVE HandleInv(p, m)'
    BY <1>1, <1>2, <2>1, <2>3 DEF ModuleInv, HandleInv, Stage, Closing
  <2> QED
    BY <1>0, <1>1, <1>2, <2>1, <2>2, <2>3, <2>4 DEF OwnFloor, OwnSids, IsAMaster
<1>7. CASE Fill(p)
  <2>1. /\ UNCHANGED <<clientVars, sid, queued>>
        /\ handles'[p] = handles[p] /\ op'[p] = op[p] /\ pc[p] = "fill" /\ pc'[p] = "mark"
        /\ \A m \in Modules : owner'[m] = IF m = n THEN op[p].client ELSE owner[m]
    BY <1>7 DEF Fill, TypeOK
  <2>6. Attended(p)' = Attended(p)
    BY <2>1 DEF Attended, Closing
  <2>2. /\ op[p].client \in listed /\ op[p].client \in Clients
        /\ ProtoOf[op[p].client] = p /\ master[op[p].client] = NoModule
    BY <2>1 DEF CallInv, OwnCall, Opening, IsAMaster, TypeOK
  <2>3. ASSUME NEW m \in Attended(p) PROVE ModuleInv(p, m)'
    BY <1>1, <1>2, <2>1, <2>2, Nulls DEF ModuleInv, Stage, Closing
  <2>4. ASSUME NEW m \in Attended(p) PROVE HandleInv(p, m)'
    BY <1>1, <1>2, <2>1 DEF ModuleInv, HandleInv, Stage, Closing
  <2>5. ASSUME NEW c \in Clients, ProtoOf[c] = p, IsAMaster(c)
        PROVE master[c] \in Attended(p) /\ owner'[master[c]] = c
    <3>1. n \in Attended(p) => owner[n] = NoClient
      BY <1>2, <2>1 DEF ModuleInv, Stage
    <3> QED
      BY <1>1, <1>2, <2>1, <2>5, <3>1, Nulls
  <2> QED
    BY <1>0, <1>1, <1>2, <2>1, <2>3, <2>4, <2>5, <2>6 DEF OwnFloor, OwnSids, IsAMaster
<1>8. CASE Mark(p)
  <2>1. /\ UNCHANGED <<listed, sid, owner>>
        /\ handles'[p] = handles[p] /\ op'[p] = op[p] /\ pc[p] = "mark" /\ pc'[p] = "keep"
        /\ \A c \in Clients : master'[c] = IF c = op[p].client THEN n ELSE master[c]
        /\ \A m \in Modules : m # n => queued'[m] = queued[m]
    BY <1>8 DEF Mark, Push, TypeOK
  <2>6. Attended(p)' = Attended(p)
    BY <2>1 DEF Attended, Closing
  <2>2. /\ op[p].client \in listed /\ op[p].client \in Clients
        /\ ProtoOf[op[p].client] = p /\ master[op[p].client] = NoModule
        /\ n \in Attended(p)
    BY <1>1, <2>1 DEF CallInv, OwnCall, Opening, IsAMaster, TypeOK
  <2>3. owner[n] = op[p].client
    BY <1>2, <2>1, <2>2 DEF ModuleInv, Stage
  <2>4. ASSUME NEW m \in Attended(p) PROVE ModuleInv(p, m)'
    <3>1. m # n => owner[m] # op[p].client
      BY <1>1, <1>2, <2>1, <2>2, Nulls DEF ModuleInv, Stage
    <3> QED
      BY <1>1, <1>2, <2>1, <2>2, <2>3, <3>1, Nulls DEF ModuleInv, Stage, Closing
  <2>5. ASSUME NEW m \in Attended(p) PROVE HandleInv(p, m)'
    BY <1>1, <1>2, <2>1 DEF HandleInv, Stage, Closing
  <2> QED
    BY <1>0, <1>1, <1>2, <2>1, <2>2, <2>3, <2>4, <2>5, <2>6 DEF OwnFloor, OwnSids, IsAMaster
<1>9. CASE Keep(p)
  <2>1. /\ UNCHANGED <<clientVars, streamVars>>
        /\ op'[p].module = NoModule /\ pc[p] = "keep" /\ pc'[p] \in {"voice", "scan"}
        /\ \A s \in Sids : handles'[p][s] = IF s = sid[n] THEN n ELSE handles[p][s]
        /\ n \in Attended(p)
    <3>1. op[p] \in Calls /\ n \in Attended(p)
      BY <1>1, <1>9 DEF Keep, TypeOK
    <3>2. op'[p].module = NoModule /\ pc'[p] \in {"voice", "scan"}
      BY <1>9, <3>1, HeaderDonePoint DEF Keep
    <3> QED
      BY <1>9, <3>1, <3>2 DEF Keep, TypeOK
  <2>2. sid[n] # NoSid
    BY <1>2, <2>1 DEF ModuleInv, Stage, Closing
  <2>5. Attended(p)' = Attended(p)
    <3>1. ASSUME NEW m \in Attended(p), m # n PROVE handles[p][sid[n]] # m
      BY <1>1, <1>2, <2>1, <2>2, <3>1 DEF OwnSids, HandleInv, Stage
    <3> QED
      BY <1>1, <2>1, <3>1 DEF Attended, Closing
  <2>3. ASSUME NEW m \in Attended(p) PROVE ModuleInv(p, m)'
    BY <1>1, <1>2, <2>1 DEF ModuleInv, Stage, Closing, NoCall
  <2>4. ASSUME NEW m \in Attended(p) PROVE HandleInv(p, m)'
    <3>1. Stage(p, m)' = "scan" /\ Stage(p, m) \in {"scan", "keep"}
      BY <1>1, <2>1 DEF Stage
    <3>2. m # n => sid[m] # sid[n] \/ sid[m] = NoSid
      BY <1>2, <2>1 DEF OwnSids
    <3> QED
      BY <1>1, <1>2, <2>1, <2>2, <3>1, <3>2 DEF HandleInv, Stage, Closing, NoCall
  <2> QED
    BY <1>0, <1>1, <1>2, <2>1, <2>3, <2>4, <2>5 DEF OwnFloor, OwnSids, IsAMaster
<1> QED
  BY <1>3, <1>4, <1>5, <1>6, <1>7, <1>8, <1>9 DEF OpenStream

\* Closing: the scan picks a module by its handle, and each step of CloseStream
\* moves that module on, the last one away from p.
LEMMA OwnFloorTimeout ==
  ASSUME TypeOK, TypeOK', CallInv, CallInv', NEW p \in Active, OwnFloor(p), CheckStreamsTimeout(p)
  PROVE  /\ OwnFloor(p)'
         /\ Attended(p)' \subseteq Attended(p)
         /\ \A m \in Attended(p) \ Attended(p)' :
              sid'[m] = NoSid /\ owner'[m] = NoClient /\ queued'[m] = 0
<1> USE DEF clientVars, streamVars, Goto
<1> DEFINE n == op[p].module
<1>1. /\ Attended(p) \subseteq Modules
      /\ NoModule \notin Modules
      /\ \A m \in Attended(p) : owner[m] \in Clients \cup {NoClient} /\ sid[m] \in Sids /\ queued[m] \in Nat
      /\ op[p].sid \in Sids
      /\ pc[p] \in Closing => n \in Attended(p)
      /\ \A s \in todo[p] : s \in Sids /\ handles[p][s] \in Attended(p)
  BY AttendsOwn, ConstantsAssumption DEF TypeOK, Calls, CallInv, OwnCall
<1>2. /\ \A m \in Attended(p) : ModuleInv(p, m) /\ HandleInv(p, m)
      /\ OwnSids(p)
      /\ \A c \in Clients : ProtoOf[c] = p /\ IsAMaster(c) =>
           master[c] \in Attended(p) /\ owner[master[c]] = c
  BY DEF OwnFloor
<1>3. CASE StillFresh(p)
  <2>1. UNCHANGED <<clientVars, streamVars, handles, pc, op>>
    BY <1>3 DEF StillFresh
  <2>2. Attended(p)' = Attended(p)
    BY <2>1 DEF Attended
  <2> QED
    BY <1>2, <2>1, <2>2 DEF OwnFloor, OwnSids, IsAMaster, ModuleInv, HandleInv, Stage
<1>4. CASE Expired(p)
  <2>1. PICK s \in todo[p] :
          op'[p] = [client |-> NoClient, sid |-> s, module |-> handles[p][s]]
    BY <1>4 DEF Expired, TypeOK
  <2>2. /\ UNCHANGED <<clientVars, streamVars, handles>>
        /\ pc[p] = "scan" /\ pc'[p] = "drain"
    BY <1>4 DEF Expired, TypeOK
  <2>3. op[p] = NoCall
    BY <2>2 DEF CallInv, OwnCall, Opening, Closing
  <2>4. s \in Sids /\ handles[p][s] \in Attended(p)
    BY <1>1, <2>1
  <2>8. Attended(p)' = Attended(p)
    BY <2>1, <2>2, <2>3, <2>4 DEF Attended, NoCall, Closing
  <2>5. s = sid[handles[p][s]] /\ s # NoSid
    BY <1>1, <1>2, <2>2, <2>3, <2>4 DEF HandleInv, Stage
  <2>6. ASSUME NEW m \in Attended(p) PROVE ModuleInv(p, m)'
    BY <1>1, <1>2, <2>1, <2>2, <2>3, <2>4, <2>5 DEF ModuleInv, Stage, Closing, NoCall
  <2>7. ASSUME NEW m \in Attended(p) PROVE HandleInv(p, m)'
    BY <1>1, <1>2, <2>1, <2>2, <2>3, <2>4, <2>5 DEF HandleInv, Stage, Closing, NoCall
  <2> QED
    BY <1>1, <1>2, <2>2, <2>6, <2>7, <2>8 DEF OwnFloor, OwnSids, IsAMaster
<1>5. CASE Scanned(p)
  <2>1. /\ UNCHANGED <<clientVars, streamVars, handles, op>>
        /\ pc[p] = "scan" /\ pc'[p] \in {"receive", "keepalive"}
    BY <1>5 DEF Scanned, TypeOK
  <2>2. op[p] = NoCall
    BY <2>1 DEF CallInv, OwnCall, Opening, Closing
  <2>3. ASSUME NEW m \in Attended(p) PROVE ModuleInv(p, m)' /\ HandleInv(p, m)'
    BY <1>1, <1>2, <2>1, <2>2 DEF ModuleInv, HandleInv, Stage, Closing, NoCall
  <2>4. Attended(p)' = Attended(p)
    BY <2>1 DEF Attended, Closing
  <2> QED
    BY <1>1, <1>2, <2>1, <2>3, <2>4 DEF OwnFloor, OwnSids, IsAMaster
<1>6. CASE Drained(p)
  <2>1. /\ UNCHANGED <<clientVars, streamVars, handles, op>>
        /\ pc[p] = "drain" /\ pc'[p] = "unmaster"
        /\ queued[n] = 0
    BY <1>6 DEF Drained, TypeOK
  <2>3. Attended(p)' = Attended(p)
    BY <2>1 DEF Attended, Closing
  <2>2. ASSUME NEW m \in Attended(p) PROVE ModuleInv(p, m)' /\ HandleInv(p, m)'
    BY <1>1, <1>2, <2>1 DEF ModuleInv, HandleInv, Stage, Closing
  <2> QED
    BY <1>1, <1>2, <2>1, <2>2, <2>3 DEF OwnFloor, OwnSids, IsAMaster
<1>7. CASE Unmaster(p)
  <2>1. /\ UNCHANGED <<listed, streamVars, handles, op>>
        /\ pc[p] = "unmaster" /\ pc'[p] = "zero"
        /\ n \in Attended(p)
    BY <1>1, <1>7 DEF Unmaster, TypeOK, Closing
  <2>6. Attended(p)' = Attended(p)
    BY <2>1 DEF Attended, Closing
  <2>2. owner[n] \in Clients /\ master[owner[n]] = n
    BY <1>1, <1>2, <2>1 DEF ModuleInv, Stage, Closing
  <2>3. \A c \in Clients : master'[c] = IF c = owner[n] THEN NoModule ELSE master[c]
    BY <1>7, <2>2, Nulls DEF Unmaster, TypeOK
  <2>4. ASSUME NEW m \in Attended(p) PROVE ModuleInv(p, m)'
    <3>1. m # n /\ owner[m] # NoClient => master[owner[m]] = m
      BY <1>1, <1>2 DEF ModuleInv, Stage
    <3> QED
      BY <1>1, <1>2, <2>1, <2>2, <2>3, <3>1 DEF ModuleInv, Stage, Closing
  <2>5. ASSUME NEW m \in Attended(p) PROVE HandleInv(p, m)'
    BY <1>1, <1>2, <2>1 DEF HandleInv, Stage, Closing
  <2> QED
    BY <1>1, <1>2, <2>1, <2>3, <2>4, <2>5, <2>6 DEF OwnFloor, OwnSids, IsAMaster
<1>8. CASE Zero(p)
  <2>1. /\ UNCHANGED <<clientVars, owner, queued, handles, op>>
        /\ pc[p] = "zero" /\ pc'[p] = "disown"
        /\ \A m \in Modules : sid'[m] = IF m = n THEN NoSid ELSE sid[m]
        /\ n \in Attended(p)
    BY <1>1, <1>8 DEF Zero, TypeOK, Closing
  <2>4. Attended(p)' = Attended(p)
    BY <2>1 DEF Attended, Closing
  <2>2. ASSUME NEW m \in Attended(p) PROVE ModuleInv(p, m)'
    BY <1>1, <1>2, <2>1 DEF ModuleInv, Stage, Closing
  <2>3. ASSUME NEW m \in Attended(p) PROVE HandleInv(p, m)'
    BY <1>1, <1>2, <2>1 DEF HandleInv, Stage, Closing
  <2> QED
    BY <1>1, <1>2, <2>1, <2>2, <2>3, <2>4 DEF OwnFloor, OwnSids, IsAMaster
<1>9. CASE Disown(p)
  <2>1. /\ UNCHANGED <<clientVars, sid, queued>>
        /\ pc[p] = "disown" /\ pc'[p] = "scan" /\ op'[p] = NoCall
        /\ \A m \in Modules : owner'[m] = IF m = n THEN NoClient ELSE owner[m]
        /\ \A s \in Sids : handles'[p][s] = IF s = op[p].sid THEN NoModule ELSE handles[p][s]
        /\ n \in Attended(p)
    BY <1>1, <1>9 DEF Disown, TypeOK, Closing
  <2>2. owner[n] # NoClient /\ master[owner[n]] = NoModule /\ queued[n] = 0
    BY <1>1, <1>2, <2>1 DEF ModuleInv, Stage, Closing
  <2>3. ASSUME NEW m \in Attended(p) PROVE ModuleInv(p, m)'
    BY <1>1, <1>2, <2>1, <2>2 DEF ModuleInv, Stage, Closing, NoCall
  <2>4. ASSUME NEW m \in Attended(p) PROVE HandleInv(p, m)'
    <3>1. m # n => handles[p][op[p].sid] # m
      BY <1>1, <1>2, <2>1 DEF HandleInv, Stage, Closing
    <3> QED
      BY <1>1, <1>2, <2>1, <3>1 DEF HandleInv, ModuleInv, Stage, Closing, NoCall
  <2>6. sid[n] = NoSid /\ handles[p][op[p].sid] = n
    BY <1>1, <1>2, <2>1 DEF ModuleInv, HandleInv, Stage, Closing
  <2>7. \A s \in Sids : handles[p][s] = n => s = op[p].sid
    BY <1>1, <1>2, <2>1 DEF HandleInv, Stage
  <2>8. Attended(p)' = Attended(p) \ {n}
    <3>1. \A m \in Modules : m \in Attended(p)' <=> \E s \in Sids : handles'[p][s] = m
      BY <2>1 DEF Attended, NoCall, Closing
    <3>2. \A m \in Modules : m # n => (m \in Attended(p) <=> \E s \in Sids : handles[p][s] = m)
      BY DEF Attended
    <3>3. Attended(p)' \subseteq Modules
      BY DEF Attended
    <3>4. \A m \in Modules : m # NoModule
      BY <1>1
    <3> QED
      BY <1>1, <2>1, <2>6, <2>7, <3>1, <3>2, <3>3, <3>4
  <2>5. ASSUME NEW c \in Clients, ProtoOf[c] = p, IsAMaster(c)
        PROVE owner'[master[c]] = c /\ master[c] \in Attended(p) \ {n}
    BY <1>1, <1>2, <2>1, <2>2, <2>5 DEF IsAMaster
  <2> QED
    BY <1>1, <1>2, <2>1, <2>2, <2>3, <2>4, <2>5, <2>6, <2>8 DEF OwnFloor, OwnSids, IsAMaster
<1> QED
  BY <1>3, <1>4, <1>5, <1>6, <1>7, <1>8, <1>9 DEF CheckStreamsTimeout

\* Keepalives and the removal of clients that are silent leave masters alone.
LEMMA OwnFloorKeepalive ==
  ASSUME TypeOK, TypeOK', CallInv, CallInv', NEW p \in Active, OwnFloor(p), Keepalive(p)
  PROVE  OwnFloor(p)' /\ Attended(p)' = Attended(p)
<1>1. /\ UNCHANGED <<master, linked, sid, owner, queued, handles, op>>
      /\ pc[p] = "keepalive" /\ pc'[p] = "receive"
      /\ \A c \in listed : IsAMaster(c) => c \in listed'
  BY DEF Keepalive, Remove, Goto, TypeOK, streamVars
<1>2. op[p] = NoCall
  BY <1>1 DEF CallInv, OwnCall, Opening, Closing
<1>3. Attended(p)' = Attended(p)
  BY <1>1 DEF Attended, Closing
<1>4. ASSUME NEW m \in Attended(p) PROVE ModuleInv(p, m)' /\ HandleInv(p, m)'
  <2>1. m \in Modules /\ NoModule \notin Modules /\ owner[m] \in Clients \cup {NoClient}
    BY AttendsOwn, ConstantsAssumption DEF TypeOK
  <2>2. Stage(p, m) = "scan" /\ Stage(p, m)' = "scan"
    BY <1>1, <1>2, <2>1 DEF Stage, NoCall
  <2>3. owner[m] # NoClient => owner[m] \in listed'
    BY <1>1, <2>1, <2>2 DEF OwnFloor, ModuleInv, IsAMaster
  <2> QED
    BY <1>1, <2>2, <2>3 DEF OwnFloor, ModuleInv, HandleInv
<1> QED
  BY <1>1, <1>3, <1>4 DEF OwnFloor, OwnSids, IsAMaster

\* A step of a thread keeps FloorInv unless the thread meets another on a module:
\* only a test makes it answer for a module it did not answer for.
LEMMA FloorThread ==
  ASSUME TypeOK, TypeOK', CallInv, CallInv', FloorInv, NEW p \in Active, Thread(p), ~Crosses(p)
  PROVE  FloorInv'
<1>1. /\ OwnFloor(p)
      /\ \A q \in Active : q # p => OwnFloor(q) /\ Attended(p) \cap Attended(q) = {}
  BY DEF FloorInv
<1>2. \A q \in Active : q # p => OwnFloor(q)' /\ Attended(q)' = Attended(q)
  BY <1>1, OthersFloor
<1>3. ASSUME Test(p), NEW q \in Active, q # p PROVE op[p].module \notin Attended(q)
  BY <1>3 DEF Crosses, Test, Goto, TypeOK
<1>4. /\ OwnFloor(p)'
      /\ Attended(p)' \subseteq Attended(p) \cup (IF Test(p) THEN {op[p].module} ELSE {})
      /\ \A m \in Attended(p) \ Attended(p)' :
           sid'[m] = NoSid /\ owner'[m] = NoClient /\ queued'[m] = 0
  <2>1. CASE Packet(p)
    BY <1>1, <2>1, OwnFloorPacket
  <2>2. CASE OpenStream(p)
    <3>1. ASSUME NEW m \in Modules, m \notin Attended(p), m = op[p].module, pc[p] = "test"
          PROVE  sid[m] = NoSid /\ owner[m] = NoClient /\ queued[m] = 0
      <4>1. Test(p)
        BY <2>2, <3>1 DEF OpenStream, Admit, Refuse, Test, Claim, Fill, Mark, Keep
      <4>2. \A q \in Active : m \notin Attended(q)
        BY <1>3, <3>1, <4>1
      <4> QED
        BY <4>2 DEF FloorInv
    <3> QED
      BY <1>1, <2>2, <3>1, OwnFloorOpenStream
  <2>3. CASE CheckStreamsTimeout(p)
    BY <1>1, <2>3, OwnFloorTimeout
  <2>4. CASE Keepalive(p)
    BY <1>1, <2>4, OwnFloorKeepalive
  <2> QED
    BY <2>1, <2>2, <2>3, <2>4 DEF Thread
<1>5. \A q, r \in Active : q # r => Attended(q)' \cap Attended(r)' = {}
  BY <1>1, <1>2, <1>3, <1>4 DEF FloorInv
<1>6. ASSUME NEW m \in Modules, \A q \in Active : m \notin Attended(q)'
      PROVE  sid'[m] = NoSid /\ owner'[m] = NoClient /\ queued'[m] = 0
  <2>1. CASE m \in Attended(p)
    BY <1>4, <1>6, <2>1
  <2>2. CASE m \notin Attended(p)
    <3>1. sid[m] = NoSid /\ owner[m] = NoClient /\ queued[m] = 0
      BY <1>2, <1>6, <2>2 DEF FloorInv
    <3> QED
      BY <2>2, <3>1, OthersModules
  <2> QED
    BY <2>1, <2>2
<1> QED
  BY <1>2, <1>4, <1>5, <1>6 DEF FloorInv

\* Routers and time take nothing from the floor but packets.
LEMMA FloorRouter ==
  ASSUME TypeOK, TypeOK', FloorInv, NEW k \in Modules, Route(k) \/ Expire(k)
  PROVE  FloorInv'
<1>1. /\ UNCHANGED <<listed, master, sid, owner, handles, pc, op>>
      /\ \A n \in Modules : queued'[n] \in {queued[n], queued[n] - 1} /\ (queued[n] = 0 => queued'[n] = 0)
  BY DEF Route, Expire, threadVars, clientVars, TypeOK
<1>2. \A n \in Modules : queued[n] \in Nat /\ queued'[n] \in Nat
  BY ConstantsAssumption DEF TypeOK
<1>3. \A p \in Active : Attended(p)' = Attended(p) /\ Attended(p) \subseteq Modules
  BY <1>1 DEF Attended
<1>4. ASSUME NEW p \in Active, NEW n \in Attended(p) PROVE ModuleInv(p, n)' /\ HandleInv(p, n)'
  <2>1. n \in Modules /\ (queued'[n] > 0 => queued[n] > 0)
    BY <1>1, <1>2, <1>3
  <2> QED
    BY <1>1, <2>1 DEF FloorInv, OwnFloor, ModuleInv, HandleInv, Stage
<1>5. \A p \in Active : OwnFloor(p)'
  BY <1>1, <1>3, <1>4 DEF FloorInv, OwnFloor, OwnSids, IsAMaster
<1>6. \A p, q \in Active : p # q => Attended(p)' \cap Attended(q)' = {}
  BY <1>3 DEF FloorInv
<1>7. \A m \in Modules : (\A p \in Active : m \notin Attended(p)') =>
        sid'[m] = NoSid /\ owner'[m] = NoClient /\ queued'[m] = 0
  BY <1>1, <1>3 DEF FloorInv
<1> QED
  BY <1>5, <1>6, <1>7 DEF FloorInv

\* Once all is at rest nothing of a meeting is left, and the floor is as at the start.
LEMMA RestIsAStart == AtRest => FloorInv
  BY DEF AtRest, FloorInv, OwnFloor, OwnSids

LEMMA UncrossedCorrect == HSpec => []UncrossedInv
<1>1. HInit => UncrossedInv
  <2> SUFFICES ASSUME HInit PROVE AtRest
    BY RestIsAStart DEF UncrossedInv
  <2>1. \A p \in Active : Attended(p) = {}
    BY Nulls DEF HInit, Init, Attended, NoCall, Closing
  <2> QED
    BY <2>1 DEF HInit, Init, AtRest, IsAMaster
<1>2. TypeOK /\ TypeOK' /\ CallInv /\ CallInv' /\ UncrossedInv /\ [HNext]_hvars => UncrossedInv'
  <2> SUFFICES ASSUME TypeOK, TypeOK', CallInv, CallInv', UncrossedInv, [HNext]_hvars, ~crossed'
               PROVE  FloorInv'
    BY DEF UncrossedInv
  <2>1. CASE UNCHANGED hvars
    <3>1. FloorInv
      BY <2>1 DEF UncrossedInv, hvars
    <3> QED
      BY <2>1, <3>1 DEF hvars, vars, clientVars, streamVars, threadVars, FloorInv, OwnFloor, OwnSids,
                        ModuleInv, HandleInv, Stage, IsAMaster, Attended
  <2>2. CASE AtRest'
    BY <2>2 DEF AtRest, FloorInv, OwnFloor, OwnSids
  <2>3. CASE HNext /\ ~AtRest'
    <3>1. ~crossed /\ \A p \in Active : ~Crosses(p)
      BY <2>3 DEF HNext, Crossing
    <3>2. FloorInv
      BY <3>1 DEF UncrossedInv
    <3>3. ASSUME NEW p \in Active, Thread(p) PROVE FloorInv'
      BY <3>1, <3>2, <3>3, FloorThread
    <3>4. ASSUME NEW k \in Modules, Route(k) \/ Expire(k) PROVE FloorInv'
      BY <3>2, <3>4, FloorRouter
    <3> QED
      BY <2>3, <3>3, <3>4 DEF HNext, Next
  <2> QED
    BY <2>1, <2>2, <2>3
<1> QED
  BY <1>1, <1>2, HistoryWatches, TypeCorrect, CallCorrect, PTL DEF HSpec

\* A master has the stream it is the master of, open and its own.
LEMMA FloorMastersOwn ==
  ASSUME TypeOK, FloorInv
  PROVE  MastersOwn
<1> SUFFICES ASSUME NEW c \in Clients, IsAMaster(c)
             PROVE  sid[master[c]] # NoSid /\ owner[master[c]] = c
  BY DEF MastersOwn
<1> DEFINE p == ProtoOf[c]  m == master[c]
<1>1. p \in Active /\ OwnFloor(p)
  BY ConstantsAssumption DEF FloorInv
<1>2. m \in Attended(p) /\ owner[m] = c /\ m # NoModule
  BY <1>1 DEF OwnFloor, IsAMaster
<1>3. c # NoClient
  BY Nulls
<1>4. ModuleInv(p, m)
  BY <1>1, <1>2 DEF OwnFloor
<1>5. Stage(p, m) # "disown"
  BY <1>2, <1>3, <1>4 DEF ModuleInv
<1>6. sid[m] # NoSid
  BY <1>2, <1>3, <1>4, <1>5 DEF ModuleInv
<1> QED
  BY <1>2, <1>6

\* Of a module that no thread opens or closes: the stream is open and mastered,
\* or closed and empty.
LEMMA RestingModule ==
  ASSUME TypeOK, CallInv, FloorInv, NEW m \in Modules, \A p \in Active : ~Working(p, m)
  PROVE  IF sid[m] = NoSid THEN owner[m] = NoClient /\ queued[m] = 0 ELSE HasMaster(m)
<1>1. CASE \A p \in Active : m \notin Attended(p)
  BY <1>1 DEF FloorInv
<1>2. ASSUME NEW p \in Active, m \in Attended(p)
      PROVE IF sid[m] = NoSid THEN owner[m] = NoClient /\ queued[m] = 0 ELSE HasMaster(m)
  <2>1. ModuleInv(p, m) /\ queued[m] \in Nat
    BY <1>2, ConstantsAssumption DEF FloorInv, OwnFloor, TypeOK
  <2>2. Stage(p, m) \notin {"fill", "mark"} \cup Closing
    BY DEF Working, Stage, Closing
  <2> QED
    BY <2>1, <2>2 DEF ModuleInv, Closing, HasMaster
<1> QED
  BY <1>1, <1>2

\* An open stream that no thread works on is kept by the thread that answers for it.
LEMMA FloorKept ==
  ASSUME FloorInv
  PROVE  OpenMeansKept
<1> SUFFICES ASSUME NEW m \in Modules, \A p \in Active : op[p].module # m, sid[m] # NoSid
             PROVE  \E p \in Active : handles[p][sid[m]] = m
  BY DEF OpenMeansKept
<1>1. PICK p \in Active : m \in Attended(p)
  BY DEF FloorInv
<1>2. HandleInv(p, m) /\ Stage(p, m) = "scan"
  BY <1>1 DEF FloorInv, OwnFloor, Stage
<1> QED
  BY <1>2 DEF HandleInv

\* In any reflector, however its protocols share the modules, M17 among them: while
\* no thread has come to a stream that another answers for, stream ids, owners,
\* masters, handles and queues agree, although no lock covers two of them
\* (OpenStream, CloseStream); and once all is at rest they agree again.
THEOREM AgreeUntilCrossedCorrect == HSpec => []AgreeUntilCrossed
<1>1. TypeOK /\ CallInv /\ UncrossedInv => AgreeUntilCrossed
  <2> SUFFICES ASSUME TypeOK, CallInv, FloorInv PROVE Agreement
    BY DEF UncrossedInv, AgreeUntilCrossed
  <2>1. OpenMeansMastered /\ ClosedMeansEmpty
    BY RestingModule DEF OpenMeansMastered, ClosedMeansEmpty
  <2> QED
    BY <2>1, FloorMastersOwn, FloorKept DEF Agreement
<1> QED
  BY <1>1, UncrossedCorrect, HistoryWatches, TypeCorrect, CallCorrect, PTL

-----------------------------------------------------------------------------

\* A step of a thread seen from the floor: nothing, a packet of the talker, the
\* floor taken or the floor given up.  Until threads cross, it is nothing else.
Says(m) ==
  /\ Talker(m) # NoClient
  /\ queued[m] < MaxQueue
  /\ queued' = [queued EXCEPT ![m] = @ + 1]
  /\ UNCHANGED <<owner, master>>

Takes(c, m) ==
  /\ c # NoClient
  /\ \A k \in Modules : Talker(k) # c
  /\ Talker(m) = NoClient
  /\ queued[m] = 0
  /\ queued' = [queued EXCEPT ![m] = 1]
  /\ owner[m] = c /\ master'[c] = m
  /\ \A k \in Modules : Talker(k)' = IF k = m THEN c ELSE Talker(k)

Leaves(m) ==
  /\ Talker(m) # NoClient
  /\ queued[m] = 0
  /\ queued' = queued
  /\ \A k \in Modules : Talker(k)' = IF k = m THEN NoClient ELSE Talker(k)

Silent == queued' = queued /\ \A k \in Modules : Talker(k)' = Talker(k)

FloorStep ==
  \/ Silent
  \/ \E m \in Modules : Says(m) \/ Leaves(m) \/ \E c \in Clients : Takes(c, m)

LEMMA FloorStepPacket ==
  ASSUME TypeOK, CallInv, FloorInv, NEW p \in Active, Packet(p)
  PROVE  FloorStep
<1>1. CASE Frame(p) \/ Voice(p)
  <2>1. UNCHANGED <<owner, master>>
    BY <1>1 DEF Frame, Voice, clientVars
  <2>2. CASE UNCHANGED queued
    BY <2>1, <2>2 DEF FloorStep, Silent, Talker, HasMaster
  <2>3. ASSUME NEW m \in Attended(p), Push(m), HasMaster(m) PROVE FloorStep
    <3>1. m \in Modules /\ Says(m)
      BY <2>1, <2>3, AttendsOwn DEF Says, Talker, HasMaster, Push
    <3> QED
      BY <3>1 DEF FloorStep
  <2> QED
    BY <1>1, <2>2, <2>3, FramesFindMaster DEF FloorInv
<1>2. CASE UNCHANGED <<owner, master, queued>>
  BY <1>2 DEF FloorStep, Silent, Talker, HasMaster
<1>3. ASSUME NEW c \in Clients, ProtoOf[c] = p, NEW s \in Sids, Header(c, s)
      PROVE UNCHANGED <<owner, master, queued>>
  BY <1>3, HeaderCalls DEF CallOpenStream, streamVars
<1> QED
  BY <1>1, <1>2, <1>3 DEF Packet, Nothing, Connect, Disconnect, Tickle, MmdvmLink, clientVars, streamVars

LEMMA FloorStepOpenStream ==
  ASSUME TypeOK, CallInv, FloorInv, NEW p \in Active, OpenStream(p)
  PROVE  FloorStep
<1> DEFINE n == op[p].module  c == op[p].client
<1>1. CASE UNCHANGED <<owner, master, queued>>
  BY <1>1 DEF FloorStep, Silent, Talker, HasMaster
<1>2. ASSUME Fill(p) \/ Mark(p)
      PROVE  /\ n \in Attended(p) /\ n \in Modules /\ n # NoModule
             /\ c \in Clients /\ c # NoClient /\ master[c] = NoModule
             /\ ModuleInv(p, n) /\ Stage(p, n) = pc[p]
  <2>1. pc[p] \in {"fill", "mark"}
    BY <1>2 DEF Fill, Mark
  <2>2. c \in Clients /\ master[c] = NoModule
    BY <2>1 DEF CallInv, OwnCall, Opening, IsAMaster, TypeOK
  <2>3. n \in Attended(p) /\ n # NoModule /\ n \in Modules
    BY <2>1, AttendsOwn
  <2> QED
    BY <2>2, <2>3, Nulls DEF FloorInv, OwnFloor, Stage
<1>3. CASE Fill(p)
  <2>1. owner[n] = NoClient
    BY <1>2, <1>3 DEF ModuleInv, Fill
  <2>2. \A k \in Modules : Talker(k)' = Talker(k)
    BY <1>2, <1>3, <2>1 DEF Fill, Talker, HasMaster, clientVars, TypeOK
  <2> QED
    BY <1>3, <2>2 DEF FloorStep, Silent, Fill
<1>4. CASE Mark(p)
  <2>1. owner[n] = c /\ queued[n] = 0
    BY <1>2, <1>4, ConstantsAssumption DEF ModuleInv, Mark, TypeOK
  <2>2. /\ owner' = owner
        /\ \A d \in Clients : master'[d] = IF d = c THEN n ELSE master[d]
        /\ \A k \in Modules : owner[k] \in Clients \cup {NoClient} /\ k # NoModule
        /\ master[c] = NoModule /\ c \in Clients /\ c # NoClient /\ n \in Modules
    BY <1>2, <1>4, Nulls DEF Mark, TypeOK
  <2>3. \A k \in Modules : Talker(k)' = (IF k = n THEN c ELSE Talker(k)) /\ Talker(k) # c
    BY <2>1, <2>2 DEF Talker, HasMaster
  <2>4. queued' = [queued EXCEPT ![n] = 1] /\ master'[c] = n
    BY <1>2, <1>4, <2>1 DEF Mark, Push, TypeOK
  <2>5. Talker(n) = NoClient
    BY <2>1, <2>2 DEF Talker, HasMaster
  <2>6. Takes(c, n)
    BY <2>1, <2>2, <2>3, <2>4, <2>5 DEF Takes
  <2> QED
    BY <1>2, <1>4, <2>6 DEF FloorStep
<1> QED
  BY <1>1, <1>3, <1>4 DEF OpenStream, Admit, Refuse, Test, Claim, Keep, clientVars, streamVars

LEMMA FloorStepTimeout ==
  ASSUME TypeOK, CallInv, FloorInv, NEW p \in Active, CheckStreamsTimeout(p)
  PROVE  FloorStep
<1> DEFINE n == op[p].module  c == owner[n]
<1>1. CASE UNCHANGED <<owner, master, queued>>
  BY <1>1 DEF FloorStep, Silent, Talker, HasMaster
<1>2. ASSUME Unmaster(p) \/ Disown(p)
      PROVE  /\ n \in Attended(p) /\ n \in Modules /\ n # NoModule
             /\ c \in Clients /\ c # NoClient
             /\ ModuleInv(p, n) /\ Stage(p, n) = pc[p]
  <2>1. pc[p] \in Closing
    BY <1>2 DEF Unmaster, Disown, Closing
  <2>2. n \in Attended(p) /\ n # NoModule /\ n \in Modules
    BY <2>1, AttendsOwn
  <2>3. ModuleInv(p, n) /\ Stage(p, n) = pc[p]
    BY <2>2 DEF FloorInv, OwnFloor, Stage
  <2>4. c # NoClient
    BY <2>1, <2>3 DEF ModuleInv
  <2> QED
    BY <2>2, <2>3, <2>4 DEF TypeOK
<1>3. CASE Unmaster(p)
  <2>1. master[c] = n /\ queued[n] = 0
    BY <1>2, <1>3, ConstantsAssumption DEF ModuleInv, Unmaster, TypeOK
  <2>2. \A k \in Modules : Talker(k)' = IF k = n THEN NoClient ELSE Talker(k)
    <3>1. \A d \in Clients : master'[d] = IF d = c THEN NoModule ELSE master[d]
      BY <1>2, <1>3 DEF Unmaster, TypeOK
    <3> QED
      <4>1. owner' = owner
        BY <1>3 DEF Unmaster, streamVars
      <4>2. /\ \A k \in Modules : owner[k] \in Clients \cup {NoClient} /\ k # NoModule
            /\ c \in Clients /\ n \in Modules
        BY <1>2, <1>3, Nulls DEF TypeOK
      <4> QED
        BY <2>1, <3>1, <4>1, <4>2 DEF Talker, HasMaster
  <2>3. Leaves(n)
    BY <1>2, <1>3, <2>1, <2>2 DEF Leaves, Talker, HasMaster, Unmaster, streamVars
  <2> QED
    BY <1>2, <1>3, <2>3 DEF FloorStep
<1>4. CASE Disown(p)
  <2>1. master[c] = NoModule
    BY <1>2, <1>4 DEF ModuleInv, Disown
  <2>2. \A k \in Modules : Talker(k)' = Talker(k)
    BY <1>2, <1>4, <2>1 DEF Disown, Talker, HasMaster, clientVars, TypeOK
  <2> QED
    BY <1>4, <2>2 DEF FloorStep, Silent, Disown
<1> QED
  BY <1>1, <1>3, <1>4 DEF CheckStreamsTimeout, StillFresh, Expired, Scanned, Drained, Zero, clientVars, streamVars

LEMMA FloorSteps ==
  ASSUME TypeOK, CallInv, FloorInv, NEW p \in Active, Thread(p)
  PROVE  FloorStep
<1>1. CASE Keepalive(p)
  BY <1>1 DEF Keepalive, FloorStep, Silent, Talker, HasMaster, streamVars
<1> QED
  BY <1>1, FloorStepPacket, FloorStepOpenStream, FloorStepTimeout DEF Thread

\* While no thread has come to a stream that another answers for, every step of
\* the streams is one of Floor: a talker has one floor and nobody takes it, a
\* transmission starts on a silent module, and the floor is given up when all of
\* it was routed.
THEOREM FloorRefinement == HSpec => FloorUntilCrossed
<1>1. HInit => F!Init
  BY DEF HInit, Init, F!Init, Talker, HasMaster
<1>2. TypeOK /\ CallInv /\ UncrossedInv /\ [HNext]_hvars => [crossed \/ F!Next]_(F!floorVars)
  <2> SUFFICES ASSUME TypeOK, CallInv, FloorInv, [Next]_vars
               PROVE  [F!Next]_(F!floorVars)
    BY DEF UncrossedInv, HNext, hvars
  <2>1. ASSUME NEW p \in Active, Thread(p) PROVE [F!Next]_(F!floorVars)
    <3>1. CASE Silent
      BY <3>1 DEF Silent, F!floorVars
    <3>2. ASSUME NEW m \in Modules, Says(m) PROVE F!Speak(m)
      BY <3>2 DEF Says, Talker, HasMaster, F!Speak
    <3>3. ASSUME NEW m \in Modules, Leaves(m) PROVE F!GiveUp(m)
      BY <3>3 DEF Leaves, F!GiveUp
    <3>4. ASSUME NEW m \in Modules, NEW c \in Clients, Takes(c, m) PROVE F!Take(c, m)
      BY <3>4 DEF Takes, F!Take
    <3> QED
      BY <2>1, <3>1, <3>2, <3>3, <3>4, FloorSteps DEF FloorStep, F!Next
  <2>2. ASSUME NEW m \in Modules, Route(m) PROVE F!Play(m)
    BY <2>2 DEF Route, Talker, HasMaster, clientVars, F!Play
  <2>3. ASSUME NEW m \in Modules, Expire(m) PROVE UNCHANGED F!floorVars
    BY <2>3 DEF Expire, Talker, HasMaster, clientVars, F!floorVars
  <2>4. CASE UNCHANGED vars
    BY <2>4 DEF vars, clientVars, streamVars, Talker, HasMaster, F!floorVars
  <2> QED
    BY <2>1, <2>2, <2>3, <2>4 DEF Next, F!Next
<1> QED
  BY <1>1, <1>2, UncrossedCorrect, HistoryWatches, TypeCorrect, CallCorrect, PTL
  DEF HSpec, FloorUntilCrossed
=============================================================================
