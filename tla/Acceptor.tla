------------------------------ MODULE Acceptor ------------------------------
(***************************************************************************)
(* TcpServer::listen and handle_accept with Socket::accept, on an edge-    *)
(* triggered listening socket.  The descriptor table belongs to the        *)
(* process: other threads open and close descriptors between any two       *)
(* system calls of this one.                                               *)
(***************************************************************************)
EXTENDS Integers

CONSTANTS
  Limits,     \* how many descriptors a process may have
  MaxOther,   \* bound: descriptors that other threads hold at a time
  MaxArrive,  \* bound: connections that arrive
  Errors      \* what accept4 may report besides EAGAIN and EMFILE

ASSUME LimitAssumption ==
  /\ Limits \subseteq Nat \ {0}
  /\ MaxOther \in Nat /\ MaxArrive \in Nat
ASSUME ErrorsAssumption == Errors \subseteq {"EINTR", "other"}

VARIABLES
  limit,    \* the descriptors of this process
  errors,   \* what its accept4 reports
  handled,  \* a connection handler is set
  used,     \* descriptors open in the process
  other,    \* of those, how many other threads hold
  held,     \* and how many Sockets the connection handler has been given
  idle,     \* idle_fd: "unopened", "open", "closed" or "failed"
  temp,     \* TRUE when temp_fd is a descriptor
  backlog,  \* connections that wait in the kernel's queue
  arrived,  \* connections that have arrived
  edge,     \* the listening socket is on epoll's ready list
  pc        \* where the thread is

env == <<limit, errors, handled>>   \* never changes
fdVars == <<used, held, idle, temp>>
netVars == <<backlog, arrived, edge>>
vars == <<env, fdVars, other, netVars, pc>>

Goto(from, dest) == pc = from /\ pc' = dest

Init ==
  /\ limit \in Limits /\ errors \in SUBSET Errors /\ handled \in BOOLEAN
  /\ used = 0 /\ other = 0 /\ held = 0 /\ idle = "unopened" /\ temp = FALSE
  /\ backlog = 0 /\ arrived = 0 /\ edge = FALSE
  /\ pc = "start"

Room == used < limit

-----------------------------------------------------------------------------
(* TcpServer::listen.                                                      *)

\* create_tcp, bind and listen: from here on connections can arrive.
Listen ==
  /\ Room
  /\ Goto("start", "listening")
  /\ used' = used + 1
  /\ UNCHANGED <<held, idle, temp, other, netVars>>

\* Reactor::add: EPOLL_CTL_ADD finds the connections that came before it.
AddListener ==
  /\ Goto("listening", "wait")
  /\ edge' = (backlog > 0)
  /\ UNCHANGED <<fdVars, other, backlog, arrived>>

EpollWait ==
  /\ edge
  /\ Goto("wait", "accept")
  /\ edge' = FALSE
  /\ UNCHANGED <<fdVars, other, backlog, arrived>>

-----------------------------------------------------------------------------
(* handle_accept, one accept4 per step.                                    *)

\* A connection, in client_sock.
AcceptConnection ==
  /\ Room
  /\ backlog > 0
  /\ Goto("accept", "client")
  /\ backlog' = backlog - 1
  /\ used' = used + 1
  /\ UNCHANGED <<held, idle, temp, other, arrived, edge>>

\* A bug to compare with: one connection per event.
HandleOne ==
  /\ handled
  /\ Goto("client", "wait")
  /\ held' = held + 1
  /\ UNCHANGED <<used, idle, temp, other, netVars>>

\* The Socket is moved into the handler.
HandleConnection ==
  /\ handled
  /\ Goto("client", "accept")
  /\ held' = held + 1
  /\ UNCHANGED <<used, idle, temp, other, netVars>>

\* A bug to compare with: a connection that nobody wants ends the loop.
DropConnectionLast ==
  /\ ~handled
  /\ Goto("client", "wait")
  /\ used' = used - 1
  /\ UNCHANGED <<held, idle, temp, other, netVars>>

\* Without a handler client_sock is destroyed, and closes the connection.
DropConnection ==
  /\ ~handled
  /\ Goto("client", "accept")
  /\ used' = used - 1
  /\ UNCHANGED <<held, idle, temp, other, netVars>>

AcceptAgain ==
  /\ Room
  /\ backlog = 0
  /\ Goto("accept", "wait")
  /\ UNCHANGED <<fdVars, other, netVars>>

\* EINTR: accept returns Socket(-1), which ends the loop too.
AcceptInterrupted ==
  /\ "EINTR" \in errors
  /\ Goto("accept", "wait")
  /\ UNCHANGED <<fdVars, other, netVars>>

\* Any other error is thrown through the event loop and ends the process.
AcceptThrows ==
  /\ "other" \in errors
  /\ Goto("accept", "dead")
  /\ UNCHANGED <<fdVars, other, netVars>>

\* EMFILE, which the kernel reports before it looks at the queue.  The first
\* time, idle_fd is initialised.
AcceptNoDescriptor ==
  /\ ~Room
  /\ Goto("accept", IF idle = "unopened" THEN "open" ELSE "spare")
  /\ UNCHANGED <<fdVars, other, netVars>>

OpenIdle(from, dest) ==
  /\ Goto(from, dest)
  /\ idle' = IF Room THEN "open" ELSE "failed"
  /\ used' = IF Room THEN used + 1 ELSE used
  /\ UNCHANGED <<held, temp, other, netVars>>

InitIdle == OpenIdle("open", "spare")

NoSpare ==
  /\ idle # "open"
  /\ Goto("spare", "wait")
  /\ UNCHANGED <<fdVars, other, netVars>>

CloseIdle ==
  /\ idle = "open"
  /\ Goto("spare", "refuse")
  /\ idle' = "closed"
  /\ used' = used - 1
  /\ UNCHANGED <<held, temp, other, netVars>>

\* accept4 with the descriptor that was just freed, if it is still free; its
\* errors are not looked at.
Refuse ==
  /\ Goto("refuse", "drop")
  /\ \/ /\ Room /\ backlog > 0
        /\ backlog' = backlog - 1 /\ used' = used + 1 /\ temp' = TRUE
     \/ /\ ~Room \/ backlog = 0 \/ errors # {}
        /\ UNCHANGED <<backlog, used, temp>>
  /\ UNCHANGED <<held, idle, other, arrived, edge>>

\* A bug to compare with: temp_fd is not closed.
DropLeaks ==
  /\ Goto("drop", "reopen")
  /\ temp' = FALSE
  /\ UNCHANGED <<used, held, idle, other, netVars>>

\* close(temp_fd); closing -1 does nothing.
Drop ==
  /\ Goto("drop", "reopen")
  /\ used' = IF temp THEN used - 1 ELSE used
  /\ temp' = FALSE
  /\ UNCHANGED <<held, idle, other, netVars>>

ReopenIdle == OpenIdle("reopen", "wait")

-----------------------------------------------------------------------------
(* The rest of the program and the network.                                *)

\* A connection of this reactor closes, while another handler runs.
CloseConnection ==
  /\ pc = "wait"
  /\ held > 0
  /\ held' = held - 1
  /\ used' = used - 1
  /\ UNCHANGED <<idle, temp, other, netVars, pc>>

OtherOpens ==
  /\ Room
  /\ pc # "dead"
  /\ other < MaxOther
  /\ other' = other + 1
  /\ used' = used + 1
  /\ UNCHANGED <<held, idle, temp, netVars, pc>>

OtherCloses ==
  /\ other > 0
  /\ pc # "dead"
  /\ other' = other - 1
  /\ used' = used - 1
  /\ UNCHANGED <<held, idle, temp, netVars, pc>>

Arrive ==
  /\ pc \notin {"start", "dead"}
  /\ arrived < MaxArrive
  /\ arrived' = arrived + 1
  /\ backlog' = backlog + 1
  /\ edge' = (pc # "listening")
  /\ UNCHANGED <<fdVars, other, pc>>

-----------------------------------------------------------------------------
Handler ==
  \/ Listen \/ AddListener \/ EpollWait
  \/ AcceptConnection \/ HandleConnection \/ DropConnection
  \/ AcceptAgain \/ AcceptInterrupted \/ AcceptThrows
  \/ AcceptNoDescriptor \/ InitIdle \/ NoSpare
  \/ CloseIdle \/ Refuse \/ Drop \/ ReopenIdle

Thread == Handler /\ UNCHANGED env

Next ==
  \/ Thread
  \/ (CloseConnection \/ OtherOpens \/ OtherCloses \/ Arrive) /\ UNCHANGED env

Spec == Init /\ [][Next]_vars

\* The thread runs.  No connection need close, no other thread need do anything.
FairSpec == Spec /\ WF_vars(Thread)

-----------------------------------------------------------------------------
TypeOK ==
  /\ limit \in Limits /\ errors \subseteq Errors /\ handled \in BOOLEAN
  /\ used \in 0 .. limit /\ other \in 0 .. MaxOther /\ held \in Nat
  /\ idle \in {"unopened", "open", "closed", "failed"}
  /\ temp \in BOOLEAN /\ edge \in BOOLEAN
  /\ backlog \in 0 .. MaxArrive /\ arrived \in 0 .. MaxArrive
  /\ pc \in {"start", "listening", "wait", "accept", "client", "open", "spare",
             "refuse", "drop", "reopen", "dead"}

Count(b) == IF b THEN 1 ELSE 0

\* Every open descriptor has an owner that will close it, at each step of the
\* EMFILE path, where idle_fd and temp_fd are closed and reopened by hand, and
\* of the moves of a Socket into the connection handler, if there is one.
NoDescriptorLost ==
  used = Count(pc # "start") + other + held + Count(pc = "client")
           + Count(idle = "open") + Count(temp)

\* handle_accept leaves nothing behind: "accept until EAGAIN, as ET requires"
\* (TcpServer.h:44, and 34 to 36).  A reactor that waits with connections in the
\* kernel's queue has an edge that will wake it for them.
NoStrandedConnection == pc = "wait" /\ backlog > 0 => edge

\* There is always a descriptor, whatever other threads and connections do with
\* theirs, and accept4 reports nothing but EAGAIN.
Ample == errors = {} /\ limit > 1 + MaxOther + MaxArrive

\* Where accept4 cannot fail the loop does leave nothing behind, for connections
\* that arrive before the registration, during the loop and after its EAGAIN.
AmpleDrains == Ample => NoStrandedConnection

\* And then the kernel's queue is emptied again and again: every connection that
\* arrives gets to the handler, or is closed if there is none.
ConnectionsAccepted == Ample /\ backlog > 0 ~> backlog = 0
=============================================================================
