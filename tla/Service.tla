------------------------------- MODULE Service -------------------------------
(***************************************************************************)
(* Start and stop of the reflector (reflector/Main.cpp, CReflector::Start, *)
(* Stop and ~CReflector, CProtocols::Init and Close, CProtocol::Initialize *)
(* and Close): in which order the main thread starts the others and waits  *)
(* for them, and what each of them is waiting for meanwhile.               *)
(*                                                                         *)
(* A port may be taken and the transcoder absent.  A start that fails ends *)
(* main, and the objects of the program are destroyed.  Stop is called     *)
(* once pause() returns.                                                   *)
(***************************************************************************)
EXTENDS Naturals, Sequences, SequencesExt

CONSTANTS
  Protocols,  \* in the order of Init
  Configured, \* m_Modules, in order
  Transcoded, \* m_TCmodules
  Helpers,    \* the threads of the gate keeper, the directories and the report
  MaxPackets, \* bound: packets in the queue of a stream
  Nothing

\* What the constants have to be.
ServiceAssumption ==
  /\ Protocols \in Seq(ToSet(Protocols)) /\ Configured \in Seq(ToSet(Configured))
  /\ IsInjective(Protocols) /\ IsInjective(Configured)
  /\ Transcoded \subseteq ToSet(Configured)
  /\ {"gate", "lookup", "report"} \subseteq Helpers
  /\ MaxPackets \in Nat \ {0}

VARIABLES
  main,     \* what the main thread does: [at, i]
  failed,   \* the start has failed
  alive,    \* m_Protocols holds these
  mutex,    \* who holds its m_Mutex: a module's router, "main" or Nothing
  keep,     \* keep_running of the reflector, the protocols and the helpers
  task,     \* protocol -> its thread: "none", "run", "ended", or the module it closes
  route,    \* module -> its router thread: "none", "wait", "lock", "push", "ended"
  help,     \* helper -> its thread: "none", "run", "ended"
  streams,  \* the modules in m_Stream
  speaker,  \* module -> the protocol whose client has its stream, or Nothing
  packets   \* module -> packets in its queue

threadVars == <<task, route, help>>
streamVars == <<streams, speaker, packets>>
vars == <<main, failed, alive, mutex, keep, threadVars, streamVars>>

ModuleSet == ToSet(Configured)
ProtocolSet == ToSet(Protocols)

At(what) == main.at = what
GoTo(what) == main' = [at |-> what, i |-> 1]
GoOn == main' = [main EXCEPT !.i = main.i + 1]

Init ==
  /\ main = [at |-> "helpers", i |-> 1]
  /\ failed = FALSE
  /\ alive = {}
  /\ mutex = Nothing
  /\ keep = {"reflector"} \cup Helpers
  /\ task = [p \in ProtocolSet |-> "none"]
  /\ route = [m \in ModuleSet |-> "none"]
  /\ help = [h \in Helpers |-> "none"]
  /\ streams = {}
  /\ speaker = [m \in ModuleSet |-> Nothing]
  /\ packets = [m \in ModuleSet |-> 0]

-----------------------------------------------------------------------------
\* Start.

StartHelpers ==
  /\ At("helpers")
  /\ help' = [h \in Helpers |-> IF h = "report" THEN "none" ELSE "run"]
  /\ mutex' = "main"
  /\ GoTo("protocols")
  /\ UNCHANGED <<failed, alive, keep, task, route, streamVars>>

StartProtocol(bound) ==
  /\ At("protocols") /\ main.i <= Len(Protocols)
  /\ LET p == Protocols[main.i]
     IN  /\ alive' = alive \cup {p}
         /\ IF bound
            THEN /\ task' = [task EXCEPT ![p] = "run"]
                 /\ keep' = keep \cup {p}
                 /\ GoOn
                 /\ UNCHANGED failed
            ELSE /\ failed' = TRUE
                 /\ GoTo("close")
                 /\ UNCHANGED <<task, keep>>
  /\ UNCHANGED <<mutex, route, help, streamVars>>

StartedProtocols ==
  /\ At("protocols") /\ main.i > Len(Protocols)
  /\ mutex' = Nothing
  /\ GoTo("modules")
  /\ UNCHANGED <<failed, alive, keep, threadVars, streamVars>>

\* Without its socket a transcoded module fails, and is not in m_Stream.
StartModule(codec) ==
  /\ At("modules") /\ main.i <= Len(Configured)
  /\ LET m == Configured[main.i]
     IN  IF m \in Transcoded /\ ~codec
         THEN /\ failed' = TRUE
              /\ GoTo("exit")
              /\ UNCHANGED <<streams, route>>
         ELSE /\ streams' = streams \cup {m}
              /\ route' = [route EXCEPT ![m] = "wait"]
              /\ GoOn
              /\ UNCHANGED failed
  /\ UNCHANGED <<alive, mutex, keep, task, help, speaker, packets>>

StartedModules ==
  /\ At("modules") /\ main.i > Len(Configured)
  /\ help' = [h \in Helpers |-> "run"]
  /\ GoTo("pause")
  /\ UNCHANGED <<failed, alive, mutex, keep, task, route, streamVars>>

-----------------------------------------------------------------------------
\* Stop; and what the destructors do after a start that failed.

\* Mutant: the protocols are closed before the routers are waited for.
CloseFirst == "close"

\* What Stop waits for first.
First == "report"

Pause ==
  /\ At("pause")
  /\ keep' = keep \ {"reflector", "report"}
  /\ GoTo(First)
  /\ UNCHANGED <<failed, alive, mutex, threadVars, streamVars>>

\* Mutant: LookupClose does not reset keep_running.
TellNobody(h) == keep

Tell(h) == keep \ {h}

\* main returns.  The directories go first; their destructors wait for the
\* threads and leave keep_running set.
Exit ==
  /\ At("exit")
  /\ GoTo("lookup")
  /\ UNCHANGED <<failed, alive, mutex, keep, threadVars, streamVars>>

\* A directory that is loaded then is half destroyed: the program is aborted.
Abort ==
  /\ At("lookup") /\ failed
  /\ GoTo("end")
  /\ UNCHANGED <<failed, alive, mutex, keep, threadVars, streamVars>>

\* m_Future.get() of a helper.  A future that holds no thread is not waited for.
Joined(h) == help[h] \in {"none", "ended"}

WaitReport ==
  /\ At("report") /\ Joined("report")
  /\ GoTo("routers")
  /\ UNCHANGED <<failed, alive, mutex, keep, threadVars, streamVars>>

WaitRouter ==
  /\ At("routers") /\ main.i <= Len(Configured)
  /\ route[Configured[main.i]] \in {"none", "ended"}
  /\ GoOn
  /\ UNCHANGED <<failed, alive, mutex, keep, threadVars, streamVars>>

WaitedRouters ==
  /\ At("routers") /\ main.i > Len(Configured)
  /\ GoTo("close")
  /\ UNCHANGED <<failed, alive, mutex, keep, threadVars, streamVars>>

\* CProtocols::Close: it takes the mutex, whoever has it.
CloseProtocols ==
  /\ At("close") /\ mutex = Nothing
  /\ mutex' = "main"
  /\ keep' = IF Protocols = <<>> THEN keep ELSE keep \ {Protocols[1]}
  /\ GoTo("closing")
  /\ UNCHANGED <<failed, alive, threadVars, streamVars>>

\* The destructor of each protocol waits for its thread.
CloseProtocol ==
  /\ At("closing") /\ main.i <= Len(Protocols)
  /\ LET p == Protocols[main.i]
     IN  /\ task[p] \in {"none", "ended"}
         /\ alive' = alive \ {p}
         /\ keep' = IF main.i < Len(Protocols) THEN keep \ {Protocols[main.i + 1]} ELSE keep
  /\ GoOn
  /\ UNCHANGED <<failed, mutex, threadVars, streamVars>>

ClosedProtocols ==
  /\ At("closing") /\ main.i > Len(Protocols)
  /\ mutex' = Nothing
  /\ keep' = Tell("gate")
  /\ GoTo("gate")
  /\ UNCHANGED <<failed, alive, threadVars, streamVars>>

WaitGate ==
  /\ At("gate") /\ Joined("gate")
  /\ keep' = Tell("lookup")
  /\ GoTo("lookup")
  /\ UNCHANGED <<failed, alive, mutex, threadVars, streamVars>>

WaitLookup ==
  /\ At("lookup") /\ Joined("lookup")
  /\ GoTo("end")
  /\ UNCHANGED <<failed, alive, mutex, keep, threadVars, streamVars>>

Main ==
  \/ StartHelpers \/ StartedProtocols \/ StartedModules
  \/ \E bound \in BOOLEAN : StartProtocol(bound)
  \/ \E codec \in BOOLEAN : StartModule(codec)
  \/ Exit \/ WaitReport \/ WaitRouter \/ WaitedRouters
  \/ CloseProtocols \/ CloseProtocol \/ ClosedProtocols \/ WaitGate \/ WaitLookup

-----------------------------------------------------------------------------
\* The other threads.

\* A protocol's thread: a header opens a stream, frames follow.
Receive(p, m) ==
  /\ task[p] = "run" /\ m \in streams
  /\ speaker[m] \in {p, Nothing} /\ packets[m] < MaxPackets
  /\ speaker' = [speaker EXCEPT ![m] = p]
  /\ packets' = [packets EXCEPT ![m] = @ + 1]
  /\ UNCHANGED <<main, failed, alive, mutex, keep, threadVars, streams>>

\* A stream has timed out: CloseStream.
Expire(p, m) ==
  /\ task[p] = "run" /\ speaker[m] = p
  /\ task' = [task EXCEPT ![p] = m]
  /\ UNCHANGED <<main, failed, alive, mutex, keep, route, help, streamVars>>

\* CloseStream waits until the queue is empty, whatever keep_running says.
Close(p) ==
  /\ task[p] \in ModuleSet /\ packets[task[p]] = 0
  /\ speaker' = [speaker EXCEPT ![task[p]] = Nothing]
  /\ task' = [task EXCEPT ![p] = "run"]
  /\ UNCHANGED <<main, failed, alive, mutex, keep, route, help, streams, packets>>

EndTask(p) ==
  /\ task[p] = "run" /\ p \notin keep
  /\ task' = [task EXCEPT ![p] = "ended"]
  /\ UNCHANGED <<main, failed, alive, mutex, keep, route, help, streamVars>>

\* RouterThread: PopWait, the mutex of the protocols, a copy to each.
Pop(m) ==
  /\ route[m] = "wait" /\ packets[m] > 0
  /\ packets' = [packets EXCEPT ![m] = @ - 1]
  /\ route' = [route EXCEPT ![m] = "lock"]
  /\ UNCHANGED <<main, failed, alive, mutex, keep, task, help, streams, speaker>>

Lock(m) ==
  /\ route[m] = "lock" /\ mutex = Nothing
  /\ mutex' = m
  /\ route' = [route EXCEPT ![m] = "push"]
  /\ UNCHANGED <<main, failed, alive, keep, task, help, streamVars>>

Push(m) ==
  /\ route[m] = "push"
  /\ mutex' = Nothing
  /\ route' = [route EXCEPT ![m] = IF "reflector" \in keep THEN "wait" ELSE "ended"]
  /\ UNCHANGED <<main, failed, alive, keep, task, help, streamVars>>

EndHelp(h) ==
  /\ help[h] = "run" /\ h \notin keep
  /\ help' = [help EXCEPT ![h] = "ended"]
  /\ UNCHANGED <<main, failed, alive, mutex, keep, task, route, streamVars>>

Router(m) == Pop(m) \/ Lock(m) \/ Push(m)

Next ==
  \/ Main \/ Pause \/ Abort
  \/ \E p \in ProtocolSet : Close(p) \/ EndTask(p) \/ \E m \in ModuleSet : Receive(p, m) \/ Expire(p, m)
  \/ \E m \in ModuleSet : Router(m)
  \/ \E h \in Helpers : EndHelp(h)

Spec == Init /\ [][Next]_vars

FairSpec ==
  /\ Spec
  /\ WF_vars(Main)
  /\ \A p \in ProtocolSet : WF_vars(Close(p)) /\ WF_vars(EndTask(p))
  /\ \A m \in ModuleSet : SF_vars(Lock(m)) /\ WF_vars(Pop(m)) /\ WF_vars(Push(m))
  /\ \A h \in Helpers : WF_vars(EndHelp(h))

-----------------------------------------------------------------------------

(***************************************************************************)
(* Whenever a router hands a packet to the protocols, all of them are      *)
(* there: they start before it and are destroyed after it has ended        *)
(* (Reflector.cpp:182).                                                    *)
(***************************************************************************)
AllProtocolsThere == \A m \in ModuleSet : route[m] = "push" => alive = ProtocolSet

\* What the main thread may wait for without end: for the mutex it holds itself
\* after a port was taken (Protocols.cpp:49); for the directories after a start
\* that failed (Lookup.h); for the router of a module on which nothing comes
\* (Reflector.cpp:343); for a protocol that closes a stream with packets in its
\* queue, which nobody takes any more (Reflector.cpp:309).
Stuck ==
  \/ At("close") /\ mutex = "main"
  \/ At("lookup") /\ failed
  \/ /\ At("routers") /\ main.i <= Len(Configured)
     /\ route[Configured[main.i]] = "wait" /\ packets[Configured[main.i]] = 0
  \/ /\ At("closing") /\ main.i <= Len(Protocols)
     /\ LET m == task[Protocols[main.i]]
        IN  m \in ModuleSet /\ route[m] = "ended" /\ packets[m] > 0

\* The main thread is on its way to pause(), or from there to its end.
Underway == main.at \notin {"pause", "end"}

(***************************************************************************)
(* The inductive invariant behind AllProtocolsThere.  It is not the mutex  *)
(* that keeps a router from a destroyed protocol, but where the main       *)
(* thread is: before the first protocol goes, every router has ended or    *)
(* was never started.                                                      *)
(***************************************************************************)
Places == {"helpers", "protocols", "modules", "pause", "exit", "report", "routers", "close",
           "closing", "gate", "lookup", "end"}

Silent(m) == route[m] \in {"none", "ended"}
AllSilent == \A m \in ModuleSet : Silent(m)

Inv ==
  /\ main \in [at : Places, i : Nat \ {0}]
  /\ route \in [ModuleSet -> {"none", "wait", "lock", "push", "ended"}]
  /\ main.at \in {"helpers", "protocols"} => \A m \in ModuleSet : route[m] = "none"
  /\ main.at = "helpers" => alive = {}
  /\ main.at = "protocols" => alive = {Protocols[k] : k \in {n \in DOMAIN Protocols : n < main.i}}
  /\ main.at \in {"modules", "pause", "exit", "report", "routers"} => alive = ProtocolSet
  /\ main.at = "routers" =>
       \A k \in DOMAIN Configured : k < main.i => Silent(Configured[k])
  /\ main.at \in {"close", "closing", "gate"} => AllSilent
  /\ main.at \in {"lookup", "end"} => alive = ProtocolSet \/ AllSilent
=============================================================================
