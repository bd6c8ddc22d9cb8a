------------------------------- MODULE Session -------------------------------
(***************************************************************************)
(* The command line client (enclone.cpp) and the socket it talks to        *)
(* (Socket.cpp).  An invocation of enclone turns its options into requests *)
(* and sends one after the other, each over a connection of its own.  The  *)
(* socket thread accepts connections, runs the handler of one request at a *)
(* time and writes the answer, which ends in a ";".                        *)
(***************************************************************************)
EXTENDS Naturals, Sequences

CONSTANTS Clients,      \* running enclone processes
          Invocations,  \* the options each may be started with
          All,          \* the argument "all" of --restore
          Nobody        \* no client

\* An option that is not given is an empty list.  The arguments of index are
\* those --restore-index accepts: with another, showOptions returns there.
Options == {"list", "add", "addr", "del", "delr", "restore", "target", "index", "clean"}

ASSUME SessionAssumption ==
  /\ Nobody \notin Clients
  /\ \A o \in Invocations :
       /\ DOMAIN o = Options
       /\ \A x \in Options : Len(o[x]) \in Nat /\ o[x] = [i \in 1..Len(o[x]) |-> o[x][i]]

VARIABLES todo,     \* requests each client has still to send
          conn,     \* how far the first of them is
          serving,  \* the client whose request the socket thread is handling
          alive     \* the socket thread has not ended

sessionVars == <<todo, conn, serving, alive>>

Request(cmd, args) == [cmd |-> cmd, args |-> args]
Each(cmd, args) == [i \in 1..Len(args) |-> Request(cmd, <<args[i]>>)]

\* -d and -D store to the same vector, and boost stores -d last.
ToDel(o) == IF o.del /= <<>> THEN o.del ELSE o.delr
IfGiven(option, requests) == IF option = <<>> THEN <<>> ELSE requests

RestoreRequests(o) ==
  [i \in 1..Len(o.restore) |->
     IF o.restore[i] = All THEN Request("restoreAll", o.target)
     ELSE Request("restore", o.target \o <<o.restore[i]>>)]

\* showOptions, in the order of its tests.  A restore without a target returns
\* before what comes after it; for help, and for no options, nothing is sent.
ShowOptions(o) ==
  (IF o.list = <<"local">> THEN <<Request("listLocal", <<>>)>>
   ELSE IF o.list = <<"remote">> THEN <<Request("listRemote", <<>>)>>
   ELSE <<>>)
  \o Each("add", o.add)
  \o Each("addr", o.addr)
  \o IfGiven(o.del, Each("del", ToDel(o)))
  \o IfGiven(o.delr, Each("delr", ToDel(o)))
  \o (IF o.restore /= <<>> /\ o.target = <<>> THEN <<>>
      ELSE RestoreRequests(o)
           \o Each("restoreIndex", o.index)
           \o IfGiven(o.clean, <<Request("cleanRemote", <<>>)>>))

\* "backlog": connected, the request is written.  "accepted": the server waits
\* for the request.  "handled": its handler runs.  "answered": the whole answer
\* is on its way.  "cut": its end is not.
ConnState == {"none", "backlog", "accepted", "handled", "answered", "cut"}

SessionTypeOK ==
  /\ \A c \in Clients : \A i \in 1..Len(todo[c]) : DOMAIN todo[c][i] = {"cmd", "args"}
  /\ conn \in [Clients -> ConnState]
  /\ serving \in Clients \cup {Nobody}
  /\ alive \in BOOLEAN
  /\ serving /= Nobody => alive

SessionInit ==
  /\ todo \in [Clients -> {ShowOptions(o) : o \in Invocations}]
  /\ conn = [c \in Clients |-> "none"]
  /\ serving = Nobody
  /\ alive = TRUE

Becomes(c, state) == conn' = [conn EXCEPT ![c] = state]

\* sendRequest returns, with success or without, and what it returns is
\* ignored: the next request follows.
SendNext(c) == todo' = [todo EXCEPT ![c] = Tail(@)]

Connect(c) ==
  /\ alive
  /\ todo[c] /= <<>>
  /\ conn[c] = "none"
  /\ Becomes(c, "backlog")
  /\ UNCHANGED <<todo, serving, alive>>

\* No one listens any more: connecting, or reading what was never accepted, fails.
Refused(c) ==
  /\ ~alive
  /\ todo[c] /= <<>>
  /\ conn[c] \in {"none", "backlog"}
  /\ Becomes(c, "none")
  /\ SendNext(c)
  /\ UNCHANGED <<serving, alive>>

Received(c) ==
  /\ conn[c] = "answered"
  /\ Becomes(c, "none")
  /\ SendNext(c)
  /\ UNCHANGED <<serving, alive>>

\* The user interrupts a client: what it has not sent is not sent any more, but
\* the request on its connection is handled all the same, with nobody to read
\* the answer.
Interrupt(c) ==
  /\ IF conn[c] \in {"backlog", "accepted", "handled"}
     THEN /\ todo' = [todo EXCEPT ![c] = <<Head(@)>>]
          /\ UNCHANGED conn
     ELSE /\ conn[c] \in {"answered", "cut"}
          /\ todo' = [todo EXCEPT ![c] = <<>>]
          /\ Becomes(c, "none")
  /\ UNCHANGED <<serving, alive>>

HandleAccept(c) ==
  /\ alive
  /\ serving = Nobody
  /\ conn[c] = "backlog"
  /\ Becomes(c, "accepted")
  /\ UNCHANGED <<todo, serving, alive>>

HandleRead(c) ==
  /\ alive
  /\ serving = Nobody
  /\ conn[c] = "accepted"
  /\ Becomes(c, "handled")
  /\ serving' = c
  /\ UNCHANGED <<todo, alive>>

Handling(cmds) == serving /= Nobody /\ Head(todo[serving]).cmd \in cmds
Args == Head(todo[serving]).args

\* Mutant of Respond: the handler returns without writing.
RespondUnwritten(long) ==
  /\ serving' = Nobody
  /\ UNCHANGED <<todo, conn, alive>>

\* The answer is a local string.  What fits into the socket is written before
\* the handler returns; the rest of a long one is read from freed memory, and
\* its end may not be found there.
Respond(long) ==
  /\ \/ Becomes(serving, "answered")
     \/ long /\ Becomes(serving, "cut")
  /\ serving' = Nobody
  /\ UNCHANGED <<todo, alive>>

\* Mutant of Throw: the handler still runs in a thread that has ended.
ThrowServing ==
  /\ alive' = FALSE
  /\ UNCHANGED serving
  /\ Becomes(serving, "none")
  /\ SendNext(serving)

\* An exception from a handler ends io_service.run() and the thread with it.
\* The session goes, and its client reads the end of the file; sessions that
\* wait for a request stay open and are never handled.
Throw ==
  /\ alive' = FALSE
  /\ serving' = Nobody
  /\ Becomes(serving, "none")
  /\ SendNext(serving)

ClientStep(c) == Connect(c) \/ Refused(c) \/ Received(c)

-------------------------------------------------------------------------------
(* Properties.                                                               *)

\* A client returns from each of its requests: no other client's request,
\* interruption or lost answer keeps it waiting, and one that has only connected
\* when the socket thread ends, or has its whole answer, does not depend on it.
\* Left out are the clients whose sessions were accepted and not read when the
\* thread ended, and those whose answer was cut off, which wait for ever.  That
\* the handlers themselves return is assumed here and LockNesting's concern.
Waiting(c) ==
  \/ conn[c] \in {"backlog", "answered"}
  \/ alive /\ conn[c] \in {"accepted", "handled"}
ClientsReturn == \A c \in Clients : Waiting(c) ~> ~Waiting(c)

===============================================================================
