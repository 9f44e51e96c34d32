----------------------------- MODULE ProxyClient ----------------------------
(***************************************************************************)
(* The client of a remote scanner (proxy_client.c): a thread that keeps a  *)
(* TCP connection to the proxy, sends it scan requests and collects the    *)
(* report it answers with, line by line, into a host list; and the calls   *)
(* of the main loop that start it, stop it and ask for a scan.             *)
(*                                                                         *)
(* Each access of the thread to stop_requested or request_scan, which the  *)
(* loop writes, is in a step of its own, and so is each system call that   *)
(* can fail.  The thread works on the struct it was started with.          *)
(*                                                                         *)
(* Abstractions.  The proxy is external: for each request it sends one of  *)
(* Reports, framed by BEGIN and END, in pieces that arrive in any grouping *)
(* until the connection breaks.  A line is two pieces; a Note stands for   *)
(* the lines that change nothing modelled, and is four pieces, more than   *)
(* the buffer may hold.  The error code, the subnet label and the counters *)
(* of rounds and lines are written and only shown: left out, with the      *)
(* ports of a host.  proxy_client_get_metrics reads and writes nothing.    *)
(***************************************************************************)
EXTENDS Naturals, Sequences

CONSTANTS Hosts,
          Reports,    \* what the proxy can report: sequences of hosts and Notes
          Note,       \* a line that is none of BEGIN, HOST, END
          None,
          MaxHosts,   \* LAN_SCANNER_MAX_HOSTS (128)
          BufPieces,  \* PROXY_RX_BUF_SIZE - 1, in pieces: a line but a Note fits
          MaxDials,   \* bound: connections tried
          MaxRequests \* bound: requests of the main loop

ASSUME ProxyAssumption ==
  /\ Note \notin Hosts /\ None \notin Hosts
  /\ Reports \subseteq Seq(Hosts \union {Note})
  /\ MaxHosts \in Nat /\ BufPieces \in Nat \ {0, 1} /\ MaxDials \in Nat /\ MaxRequests \in Nat

VARIABLES
  threadId, stopRequested, requestScan,  \* written by the main loop
  connected, running, hosts,             \* written by the thread
  pc, rx,                                \* of the thread; rx_buf up to rx_len
  mpc,                                   \* "idle", or "join" in proxy_client_stop
  stream,                                \* pieces the proxy has still to deliver
  sockets, epolls,                       \* history: descriptors not closed
  told, disturbed, left,                 \* history, see ReportIsWhole
  dials, requests                        \* history: bounds

shared == <<connected, running, hosts>>
calls == <<threadId, stopRequested, mpc, requests>>
descriptors == <<sockets, epolls>>
ghost == <<told, disturbed, left>>
vars == <<calls, requestScan, shared, pc, rx, stream, descriptors, ghost, dials>>

Init ==  \* proxy_client_init
  /\ threadId = FALSE /\ stopRequested = FALSE /\ requestScan = FALSE
  /\ connected = FALSE /\ running = FALSE /\ hosts = <<>>
  /\ pc = "none" /\ rx = <<>> /\ mpc = "idle" /\ stream = <<>>
  /\ sockets = 0 /\ epolls = 0 /\ told = None /\ disturbed = FALSE /\ left = <<>>
  /\ dials = 0 /\ requests = 0

-----------------------------------------------------------------------------
(* The proxy's side: lines and their pieces.  A line is known by its place *)
(* in the answer to a report: BEGIN is before the items, END after them.   *)
Kind(line) == CASE line.at = 0 -> "begin"
                [] line.at \in 1..Len(line.report) ->
                     IF line.report[line.at] = Note THEN "note" ELSE "host"
                [] line.at > Len(line.report) -> "end"

Piece(line, part) == [line |-> line, part |-> part]
Pieces(line) == IF Kind(line) = "note"
                  THEN <<Piece(line, "head"), Piece(line, "middle"), Piece(line, "middle"),
                         Piece(line, "tail")>>
                  ELSE <<Piece(line, "head"), Piece(line, "tail")>>

Answer(report) ==
  LET text[n \in 0..Len(report) + 1] ==
        (IF n = 0 THEN <<>> ELSE text[n - 1]) \o Pieces([report |-> report, at |-> n])
  IN text[Len(report) + 1]

\* What END knows, which is history: the hosts among the items.
HostOf(item) == IF item = Note THEN <<>> ELSE <<item>>
HostsIn(report) ==
  LET first[n \in 0..Len(report)] ==
        IF n = 0 THEN <<>> ELSE first[n - 1] \o HostOf(report[n])
  IN first[Len(report)]

-----------------------------------------------------------------------------
(* proxy_thread_main: connecting.                                          *)
Goto(next) == pc' = next /\ UNCHANGED <<calls, rx, dials>>
Opens(s, e) == sockets' = sockets + s /\ epolls' = epolls + e
Closes(s, e) == sockets' = sockets - s /\ epolls' = epolls - e

StopSeen_Never == FALSE                                         \* mutant
StopSeen == stopRequested

Top == /\ pc = "top"
       /\ \/ StopSeen /\ Goto("ending")
          \/ ~StopSeen /\ Goto("dial")
       /\ UNCHANGED <<requestScan, shared, stream, descriptors, ghost>>

(* connect_with_timeout, and what proxy_thread_main does with its failure. *)
(* Each call can fail, and its exit closes what the earlier ones opened.   *)
DialFails == /\ connected' = FALSE
             /\ Goto("sleep")
             /\ UNCHANGED <<running, hosts>>

Dial == /\ pc = "dial" /\ dials < MaxDials
        /\ dials' = dials + 1
        /\ pc' = "option"
        /\ Opens(1, 0)
        /\ UNCHANGED <<calls, requestScan, shared, rx, stream, ghost>>

DialRefused == /\ pc = "dial"    \* no address, no socket
               /\ DialFails
               /\ UNCHANGED <<requestScan, stream, descriptors, ghost>>

SetOption == /\ pc = "option"    \* non-blocking mode
             /\ \/ Closes(1, 0) /\ DialFails
                \/ Goto("connect") /\ UNCHANGED <<shared, descriptors>>
             /\ UNCHANGED <<requestScan, stream, ghost>>

Connect == /\ pc = "connect"
           /\ \/ Closes(1, 0) /\ DialFails
              \/ Goto("epoll") /\ UNCHANGED <<shared, descriptors>>
           /\ UNCHANGED <<requestScan, stream, ghost>>

\* The epoll that waits for the end of connect.
CreateEpoll == /\ pc = "epoll"
               /\ \/ Closes(1, 0) /\ DialFails
                  \/ Opens(0, 1) /\ Goto("watch") /\ UNCHANGED shared
               /\ UNCHANGED <<requestScan, stream, ghost>>

WatchFails_KeepsEpoll == Closes(1, 0) /\ DialFails              \* mutant
WatchFails == Closes(1, 1) /\ DialFails

Watch == /\ pc = "watch"
         /\ \/ WatchFails
            \/ Goto("await") /\ UNCHANGED <<shared, descriptors>>
         /\ UNCHANGED <<requestScan, stream, ghost>>

Await == /\ pc = "await"
         /\ \/ Closes(1, 1) /\ DialFails
            \/ Goto("result") /\ UNCHANGED <<shared, descriptors>>
         /\ UNCHANGED <<requestScan, stream, ghost>>

GetResult == /\ pc = "result"
             /\ \/ Closes(1, 1) /\ DialFails
                \/ Closes(0, 1) /\ Goto("verdict") /\ UNCHANGED shared
             /\ UNCHANGED <<requestScan, stream, ghost>>

Refused == /\ pc = "verdict"     \* so_error
           /\ Closes(1, 0) /\ DialFails
           /\ UNCHANGED <<requestScan, stream, ghost>>

Established == /\ pc = "verdict"
               /\ connected' = TRUE /\ requestScan' = TRUE
               /\ stream' = <<>>
               /\ Goto("register")
               /\ UNCHANGED <<running, hosts, descriptors, ghost>>

\* The epoll that waits for lines.
Register == /\ pc = "register"
            /\ \/ Closes(1, 0) /\ DialFails
               \/ Opens(0, 1) /\ Goto("listen") /\ UNCHANGED shared
            /\ UNCHANGED <<requestScan, stream, ghost>>

Listen == /\ pc = "listen"
          /\ \/ Closes(1, 1) /\ DialFails
             \/ Goto("loop") /\ UNCHANGED <<shared, descriptors>>
          /\ UNCHANGED <<requestScan, stream, ghost>>

-----------------------------------------------------------------------------
(* proxy_thread_main: connected.                                           *)
Loop == /\ pc = "loop"
        /\ \/ StopSeen /\ Goto("close")
           \/ ~StopSeen /\ requestScan /\ Goto("send")
           \/ ~StopSeen /\ ~requestScan /\ Goto("wait")
        /\ UNCHANGED <<requestScan, shared, stream, descriptors, ghost>>

Send == /\ pc = "send"
        /\ \/ Goto("close") /\ UNCHANGED stream
           \/ /\ \E report \in Reports : stream' = stream \o Answer(report)
              /\ Goto("clear")
        /\ UNCHANGED <<requestScan, shared, descriptors, ghost>>

\* A report still under way is cut in two by the request after it.  What the
\* buffer holds of an earlier connection will be joined to the BEGIN.
IsHost(piece) == piece.part = "head" /\ Kind(piece.line) = "host"
HostsBegun(pieces) ==
  IF pieces # <<>> /\ IsHost(pieces[1]) THEN <<pieces[1].line.report[pieces[1].line.at]>>
                                        ELSE <<>>

Clear == /\ pc = "clear"
         /\ requestScan' = FALSE /\ running' = TRUE /\ hosts' = <<>>
         /\ told' = None /\ left' = HostsBegun(rx)
         /\ disturbed' = ~(stream[1].part = "head" /\ stream[1].line.at = 0)
         /\ Goto("wait")
         /\ UNCHANGED <<connected, stream, descriptors>>

(* parse_proxy_line.  A chunk that is not exactly one line is taken for    *)
(* the line it begins with if enough of that line is there (kept: of a     *)
(* HOST, its address up to the digit after alive=), else for nothing; what *)
(* does not begin with the beginning of a line is taken for nothing.       *)
Parse(client, chunk, kept) ==
  LET line == chunk[1].line
      kind == Kind(line)
      whole == chunk = Pieces(line)
      nothing == chunk[1].part # "head" \/ (~whole /\ ~kept) \/ kind = "note"
  IN CASE nothing -> client
       [] ~nothing /\ kind = "begin" ->
            [client EXCEPT !.hosts = <<>>, !.running = TRUE, !.told = None,
                           !.disturbed = @ /\ ~whole,
                           !.left = IF whole THEN <<>> ELSE @]
       [] ~nothing /\ kind = "host" ->
            [client EXCEPT !.hosts = IF Len(@) < MaxHosts THEN Append(@, line.report[line.at])
                                                          ELSE @,
                           !.told = None]
       [] ~nothing /\ kind = "end" ->
            [client EXCEPT !.running = FALSE,
                           !.told = IF whole /\ ~client.disturbed THEN HostsIn(line.report)
                                                                  ELSE None]

(* The end of a line ends what is in the buffer.  The rest stays in it,    *)
(* also when the connection is lost, and is then joined to the first line  *)
(* of the next.                                                            *)
Take(client, piece, kept) ==
  LET chunk == Append(client.buffer, piece)
  IN IF piece.part = "tail" THEN Parse([client EXCEPT !.buffer = <<>>], chunk, kept)
                            ELSE [client EXCEPT !.buffer = chunk]

Buffered == IF Len(rx) >= BufPieces THEN <<>> ELSE rx

\* The client after the first pieces of what is under way.
Received(count, kept) ==
  LET after[n \in 0..count] ==
        IF n = 0 THEN [hosts |-> hosts, running |-> running, told |-> told,
                       disturbed |-> disturbed, left |-> left, buffer |-> Buffered]
                 ELSE Take(after[n - 1], stream[n], kept)
  IN after[count]

LeftOver_Dropped(client) == <<>>                                \* mutant
LeftOver(client) == client.buffer

Receive(count, kept) ==
  LET client == Received(count, kept)
  IN /\ rx' = LeftOver(client)
     /\ hosts' = client.hosts /\ running' = client.running
     /\ told' = client.told /\ disturbed' = client.disturbed /\ left' = client.left

Wait == /\ pc = "wait"
        /\ \/ \* the poll failed, or the connection has ended
              Goto("close") /\ UNCHANGED <<shared, stream, ghost>>
           \/ \* nothing could be read
              /\ rx' = Buffered /\ pc' = "close"
              /\ UNCHANGED <<calls, dials, shared, stream, ghost>>
           \/ \* nothing in 250 ms
              Goto("loop") /\ UNCHANGED <<shared, stream, ghost>>
           \/ \E count \in 1..Len(stream), kept \in BOOLEAN :
                /\ Len(Buffered) + count <= BufPieces
                /\ Receive(count, kept)
                /\ stream' = SubSeq(stream, count + 1, Len(stream))
                /\ pc' = "loop"
                /\ UNCHANGED <<calls, connected, dials>>
        /\ UNCHANGED <<requestScan, descriptors>>

Close == /\ pc = "close"
         /\ connected' = FALSE /\ running' = FALSE
         /\ Closes(1, 1)
         /\ Goto("sleep")
         /\ UNCHANGED <<requestScan, hosts, stream, ghost>>

\* proxy_sleep_interruptible: it ends, sooner if a stop is requested.
Sleep == /\ pc = "sleep"
         /\ Goto("top")
         /\ UNCHANGED <<requestScan, shared, stream, descriptors, ghost>>

End == /\ pc = "ending"
       /\ connected' = FALSE /\ running' = FALSE
       /\ Goto("ended")
       /\ UNCHANGED <<requestScan, hosts, stream, descriptors, ghost>>

ThreadStep == \/ Top \/ Dial \/ DialRefused \/ SetOption \/ Connect \/ CreateEpoll \/ Watch
              \/ Await \/ GetResult \/ Refused \/ Established \/ Register \/ Listen
              \/ Loop \/ Send \/ Clear \/ Wait \/ Close \/ Sleep \/ End

-----------------------------------------------------------------------------
(* The main loop.                                                          *)
Start == /\ mpc = "idle" /\ ~threadId /\ dials < MaxDials
         /\ stopRequested' = FALSE /\ requestScan' = TRUE
         /\ \/ threadId' = TRUE /\ pc' = "top" /\ rx' = <<>>
            \/ UNCHANGED <<threadId, pc, rx>>   \* no thread, or it did not start
         /\ UNCHANGED <<mpc, requests, shared, stream, descriptors, ghost, dials>>

StopBegins == /\ mpc = "idle" /\ threadId
              /\ stopRequested' = TRUE /\ mpc' = "join"
              /\ UNCHANGED <<threadId, requests, requestScan, shared, pc, rx, stream,
                             descriptors, ghost, dials>>

StopJoins == /\ mpc = "join" /\ pc = "ended"
             /\ threadId' = FALSE /\ pc' = "none" /\ mpc' = "idle"
             /\ UNCHANGED <<stopRequested, requests, requestScan, shared, rx, stream,
                            descriptors, ghost, dials>>

RequestScan == /\ mpc = "idle" /\ requests < MaxRequests
               /\ requestScan' = TRUE /\ requests' = requests + 1
               /\ UNCHANGED <<threadId, stopRequested, mpc, shared, pc, rx, stream,
                              descriptors, ghost, dials>>

Next == ThreadStep \/ Start \/ StopBegins \/ StopJoins \/ RequestScan

Spec == Init /\ [][Next]_vars

\* The kernel schedules the thread; each of its waits has a timeout.
FairSpec == Spec /\ WF_vars(ThreadStep) /\ WF_vars(StopJoins)

-----------------------------------------------------------------------------
Online == {"loop", "send", "clear", "wait", "close"}
Connected == {"register", "listen"} \union Online
SocketSteps == {"option", "connect", "epoll", "watch", "await", "result", "verdict"}
                 \union Connected
EpollSteps == {"watch", "await", "result", "listen"} \union Online

(* Over any number of failed dials, lost connections and restarts, the     *)
(* descriptors open are the ones the step under way works with, and only   *)
(* a step of a live connection leaves it shown as connected or running:    *)
(* each early exit of connect_with_timeout and of proxy_thread_main closes *)
(* what was opened before it, no less and no more                          *)
(* (proxy_client.c:43-106, 199-230, 291-299).                              *)
DescriptorsMatchStep ==
  /\ sockets = (IF pc \in SocketSteps THEN 1 ELSE 0)
  /\ epolls = (IF pc \in EpollSteps THEN 1 ELSE 0)
  /\ connected = (pc \in Connected)
  /\ running => pc \in Connected

Capped(list) == SubSeq(list, 1, IF Len(list) < MaxHosts THEN Len(list) ELSE MaxHosts)

(* Once a report has been received to its END, whatever the grouping of    *)
(* the bytes and a line longer than the buffer, the host list is that      *)
(* report up to the capacity of the list, until a new request or report.   *)
(* One host more can come before it, and no other: the one whose line the  *)
(* loss of the earlier connection cut, its beginning still in the buffer   *)
(* and joined to the new BEGIN, which is then not seen.  A report that a   *)
(* request cut in two is excepted, up to the next BEGIN                    *)
(* (proxy_client.c:128, 139-142, 156-186, 239-241, 259-288).               *)
ReportIsWhole == told # None => hosts \in {Capped(told), Capped(left \o told)}

(* proxy_client_stop returns: wherever the thread is when it is asked to   *)
(* stop, it ends (proxy_client.c:17, 196, 232, 359-360).                   *)
StopReturns == (mpc = "join") ~> (mpc = "idle")
=============================================================================
