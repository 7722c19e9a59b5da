------------------------------- MODULE Server -------------------------------
(***************************************************************************)
(* The game server's master process, nitrohack_server/src/server.c.  One   *)
(* thread serves every socket and pipe from an edge-triggered epoll loop;  *)
(* each authenticated user gets a game process of his own, tied to the     *)
(* master by two pipes.  Between two handlers of the master, clients and   *)
(* game processes do as they please.                                       *)
(*                                                                         *)
(* The kernel hands out the lowest free file descriptor, so a descriptor   *)
(* closed by one handler may belong to somebody else when the next event   *)
(* of the same batch is handled.  Data is counted in units; a read of the  *)
(* master takes up to Buf of them.                                         *)
(***************************************************************************)
EXTENDS Integers, FiniteSets, SequencesExt

CONSTANTS
  Conn,        \* connections remote clients may open, each once
  User,        \* user of a connection: a function on Conn
  Local,       \* the connections that come through the AF_UNIX socket
  Addr,        \* where malloc may put a client_data
  None,        \* the null pointer
  Dummy,       \* &new_connection_dummy
  NFds,        \* bound: file descriptors of the master
  Buf,         \* units a read() of the master takes
  PipeCap,     \* units a pipe holds
  Sizes,       \* units clients and games may send at a time
  ForkFails    \* whether pipe2 and fork may fail

ASSUME ServerAssumption ==
  /\ Local \subseteq Conn /\ DOMAIN User = Conn
  /\ NFds \in Nat /\ Buf \in Nat \ {0} /\ PipeCap \in Nat \ {0}
  /\ Sizes \subseteq 1..Buf + 1 /\ None \notin Addr /\ Dummy \notin Addr /\ None # Dummy
  /\ IsFiniteSet(Conn) /\ ForkFails \in BOOLEAN

Fd    == 1..NFds
NoFd  == -1
Tcp   == 0                        \* the listening sockets
Unix  == NFds + 1
Listener == {Tcp, Unix}
Pid   == 1..Cardinality(Conn)     \* bound: a connection starts at most one game
NoPid == 0
ErrPid == -1                      \* what a failed fork leaves in client->pid

VARIABLES
  m,        \* the master and what the kernel keeps for it
  peer,     \* remote end of each connection: "new", "open", "gone"
  inq,      \* units of each client waiting in its socket
  full,     \* connections whose send buffer is full
  game,     \* each game process: "none", "running", "exiting", "dead"
  pout,     \* units in the pipe to each game
  pin       \* units in the pipe from each game
serverVars == <<m, peer, inq, full, game, pout, pin>>

Closed == [t |-> "closed"]
File   == {Closed} \cup [t : {"sock"}, who : Conn] \cup [t : {"in", "out"}, who : Pid]
Events == SUBSET {"closed", "in", "out"}

ClientData ==
  [state : {"connected", "disconnected"}, pid : Pid \cup {NoPid, ErrPid}, userid : Range(User),
   connid : Nat, sock : Fd \cup {NoFd}, pipe_out : Fd \cup {NoFd},
   pipe_in : Fd \cup {NoFd}, unsent : Conn \cup {None}]

(* m.file: the descriptor table; m.watched, m.ready: epoll's interest and
   ready lists; m.batch: events fetched and not handled; m.shut: sockets
   after shutdown(); m.sigterm: games sent SIGTERM; unsent: the connection
   an unsent tail was meant for. *)
ServerTypeOK ==
  /\ m.file \in [Fd -> File] /\ m.watched \subseteq Fd
  /\ m.ready \in Seq(Fd \cup Listener)
  /\ m.batch \in Seq([fd : Fd \cup Listener, ev : Events, file : File])
  /\ m.backlog \in [Listener -> Seq(Conn)]
  /\ m.map \in [Fd -> Addr \cup {None, Dummy}]
  /\ m.alive \subseteq Addr /\ \A a \in m.alive : m.client[a] \in ClientData
  /\ m.connected \in Seq(Addr) /\ m.disconnected \in Seq(Addr)
  /\ m.count \in Nat /\ m.connection_id \in Nat /\ m.termination_flag \in 0..2
  /\ m.up \in BOOLEAN /\ m.quit \in BOOLEAN /\ m.sigterm \subseteq Pid /\ m.shut \subseteq Conn
  /\ peer \in [Conn -> {"new", "open", "gone"}]
  /\ inq \in [Conn -> 0..Buf + 1] /\ full \subseteq Conn
  /\ game \in [Pid -> {"none", "running", "exiting", "dead"}]
  /\ pout \in [Pid -> 0..PipeCap] /\ pin \in [Pid -> 0..PipeCap]

----------------------------------------------------------------------------
(* What the kernel does. *)

FdsOf(s, x) == {f \in Fd : s.file[f] = x}
Sock(c)   == [t |-> "sock", who |-> c]
In(p)     == [t |-> "in", who |-> p]
Out(p)    == [t |-> "out", who |-> p]
(* The i-th lowest free descriptor. *)
FreeFd(s, i) ==
  CHOOSE f \in FdsOf(s, Closed) : Cardinality({g \in FdsOf(s, Closed) : g < f}) = i - 1

(* A change of state at the files F wakes epoll up. *)
Notify(s, F) ==
  LET woken == {f \in s.watched : s.file[f] \in F /\ \A i \in 1..Len(s.ready) : s.ready[i] # f}
  IN [s EXCEPT !.ready = @ \o SetToSortSeq(woken, <)]

(* The state of a file, which epoll_wait reports. *)
Mask(s, f) ==
  IF f \in Listener THEN IF s.backlog[f] # <<>> THEN {"in"} ELSE {}
  ELSE LET x == s.file[f] IN
    CASE x.t = "sock" ->
           (IF peer[x.who] = "gone" \/ x.who \in s.shut THEN {"closed"} ELSE {})
             \cup (IF inq[x.who] > 0 THEN {"in"} ELSE {})
             \cup (IF x.who \notin full THEN {"out"} ELSE {})
      [] x.t = "in"  -> (IF game[x.who] = "dead" THEN {"closed"} ELSE {})
                          \cup (IF pin[x.who] > 0 THEN {"in"} ELSE {})
      [] x.t = "out" -> IF game[x.who] # "running" THEN {"closed"} ELSE {}
      [] OTHER -> {}

CloseFds(s, F) ==
  [s EXCEPT !.file = [f \in Fd |-> IF f \in F THEN Closed ELSE @[f]],
            !.watched = @ \ F,
            !.ready = SelectSeq(@, LAMBDA f : f \notin F)]

(* EPOLL_CTL_ADD of a new file; a socket can be written to at once. *)
Add(s, f, x)   == [s EXCEPT !.file[f] = x, !.watched = @ \cup {f}]
Watch(s, f, x) == [Add(s, f, x) EXCEPT !.ready = Append(@, f)]

----------------------------------------------------------------------------
(* The master's helpers; each returns the master after the call. *)

map_fd_to_client(s, f, a) == [s EXCEPT !.map[f] = a]

unlink_client_data(s, a) ==
  [s EXCEPT !.connected = RemoveFirst(@, a), !.disconnected = RemoveFirst(@, a), !.count = @ - 1]

link_client_data(s, a, list) ==
  IF list = "connected" THEN [s EXCEPT !.connected = <<a>> \o @, !.count = @ + 1]
  ELSE [s EXCEPT !.disconnected = <<a>> \o @, !.count = @ + 1]

OpenFds(c) == {c.sock, c.pipe_out, c.pipe_in} \ {NoFd}

(* Mutant: the pipes stay open and nobody is told. *)
cleanup_game_process_sock(s, a) ==
  LET c == s.client[a]
      F == {c.sock} \ {NoFd}
  IN unlink_client_data([CloseFds(s, F) EXCEPT
       !.map = [f \in Fd |-> IF f \in OpenFds(c) THEN None ELSE @[f]], !.alive = @ \ {a}], a)

cleanup_game_process(s, a) ==
  LET c == s.client[a]
      told == IF c.pid = ErrPid THEN {p \in Pid : game[p] = "running"}  \* kill(-1)
              ELSE {c.pid} \ {NoPid}
      closed == CloseFds(s, OpenFds(c))
  IN unlink_client_data(
       [closed EXCEPT !.sigterm = @ \cup told,
                      !.map = [f \in Fd |-> IF f \in OpenFds(c) THEN None ELSE @[f]],
                      !.alive = @ \ {a}], a)

(* client->sock is never 0, so the socket is only shut down, even if it is -1. *)
close_client_pipe(s, a) ==
  LET c == s.client[a]
      pipes == {c.pipe_out, c.pipe_in} \ {NoFd}
      shut == IF c.sock = NoFd THEN s ELSE [s EXCEPT !.shut = @ \cup {s.file[c.sock].who}]
  IN Notify([CloseFds(shut, pipes) EXCEPT
               !.map = [f \in Fd |-> IF f \in pipes THEN None ELSE @[f]],
               !.client[a].pipe_out = NoFd, !.client[a].pipe_in = NoFd],
            IF c.sock = NoFd THEN {} ELSE {s.file[c.sock]})

NewClient(s, c, f) ==
  [state |-> "connected", pid |-> NoPid, userid |-> User[c], connid |-> s.connection_id,
   sock |-> f, pipe_out |-> NoFd, pipe_in |-> NoFd, unsent |-> None]

(* pipe2 twice: the game's ends take the first and the fourth descriptor,
   and are closed in the master once the game runs. *)
CanPipe(s) == Cardinality(FdsOf(s, Closed)) >= 4

WithPipes(s, a, p) ==
  LET out == FreeFd(s, 2)
      in == FreeFd(s, 3)
  IN [s EXCEPT !.client[a].pipe_out = out, !.client[a].pipe_in = in, !.client[a].pid = p,
               !.map[out] = a, !.map[in] = a]

(* Mutant: the client is linked again without being unlinked. *)
fork_client_relinks(s, a, p) ==
  LET c == WithPipes(s, a, p)
      linked == link_client_data(c, a, "connected")
  IN Add(Add(linked, c.client[a].pipe_out, Out(p)), c.client[a].pipe_in, In(p))

fork_client(s, a, p) ==
  LET c == WithPipes(s, a, p)
      linked == link_client_data(unlink_client_data(c, a), a, "connected")
  IN Add(Add(linked, c.client[a].pipe_out, Out(p)), c.client[a].pipe_in, In(p))

(* The first game of the user that may be continued. *)
FindClient(s, user, rid) ==
  LET mine(a) == s.client[a].userid = user /\ (rid = 0 \/ rid = s.client[a].connid)
      first(list) == LET i == SelectInSeq(list, mine) IN IF i = 0 THEN None ELSE list[i]
      waiting == first(s.disconnected)
  IN IF waiting = None /\ rid # 0 THEN first(s.connected) ELSE waiting

(* Mutant: the new socket is not mapped to the client. *)
Reconnect_unmapped(s, a, f) ==
  link_client_data(unlink_client_data(
    [s EXCEPT !.client[a].sock = f, !.client[a].state = "connected"], a), a, "connected")

Reconnect(s, a, f) ==
  link_client_data(unlink_client_data(
    [s EXCEPT !.client[a].sock = f, !.client[a].state = "connected", !.map[f] = a], a), a, "connected")

----------------------------------------------------------------------------
(* handle_new_connection for connection c on descriptor f.  A Local
   connection was watched and mapped while its auth data was awaited. *)

Unregistered(s, f) ==
  IF s.map[f] = Dummy
  THEN [s EXCEPT !.map[f] = None, !.watched = @ \ {f}, !.ready = SelectSeq(@, LAMBDA g : g # f)]
  ELSE s

AuthRead(c) == inq' = [inq EXCEPT ![c] = 0]

Refused(s, f, c) ==
  /\ m' = CloseFds(s, {f})
  /\ AuthRead(c) /\ UNCHANGED <<game, pout>>

IncompleteJSON(s, c) ==
  /\ m' = s
  /\ AuthRead(c) /\ UNCHANGED <<game, pout>>

Reconnected(s, f, c, a) ==
  LET p == s.client[a].pid
      esc == s.client[a].pipe_out # NoFd /\ game[p] = "running" /\ pout[p] < PipeCap
  IN /\ m' = Reconnect(Watch(s, f, Sock(c)), a, f)
     /\ pout' = IF esc THEN [pout EXCEPT ![p] = @ + 1] ELSE pout
     /\ AuthRead(c) /\ UNCHANGED game

NewGame(s, f, c) ==
  \E a \in Addr \ s.alive :
    LET p == s.connection_id
        s1 == link_client_data([Watch(s, f, Sock(c)) EXCEPT
                !.alive = @ \cup {a}, !.client[a] = NewClient(s, c, f), !.map[f] = a,
                !.connection_id = @ + 1], a, "connected")
    IN /\ p \in Pid
       /\ AuthRead(c) /\ UNCHANGED pout
       /\ \/ CanPipe(s1) /\ m' = fork_client(s1, a, p) /\ game' = [game EXCEPT ![p] = "running"]
          \/ /\ ForkFails \/ ~CanPipe(s1)
             /\ m' = cleanup_game_process(s1, a) /\ UNCHANGED game
          \/ /\ ForkFails /\ CanPipe(s1)
             /\ m' = cleanup_game_process(WithPipes(s1, a, ErrPid), a) /\ UNCHANGED game

handle_new_connection(s0, f, c) ==
  LET s == Unregistered(s0, f) IN
  \/ Refused(s, f, c)
  \/ IncompleteJSON(s, c)
  \/ \E rid \in {0} \cup {s.client[a].connid : a \in {b \in s.alive : s.client[b].userid = User[c]}} :
       LET a == FindClient(s, User[c], rid)
       IN IF a # None THEN Reconnected(s, f, c, a) ELSE NewGame(s, f, c)

----------------------------------------------------------------------------
(* One event of the batch: e.fd, the mask e.ev epoll_wait reported, and, for
   the properties only, the file e.file it was reported for. *)

e == Head(m.batch)
Popped == [m EXCEPT !.batch = Tail(@)]
Served == [Popped EXCEPT !.check = m.termination_flag > 0]   \* asks for Check
Handling == m.up /\ ~m.quit /\ m.batch # <<>> /\ ~m.check
Idle == m.up /\ ~m.quit /\ m.batch = <<>> /\ ~m.check

(* accept4 fails without a descriptor; the connection stays in the backlog. *)
Accept ==
  /\ Handling /\ e.fd \in Listener
  /\ UNCHANGED <<peer, full, pin>>
  /\ IF m.backlog[e.fd] = <<>> \/ FdsOf(m, Closed) = {}
     THEN m' = Popped /\ UNCHANGED <<inq, game, pout>>
     ELSE LET c == Head(m.backlog[e.fd])
              f == FreeFd(m, 1)
              s == [Popped EXCEPT !.backlog[e.fd] = Tail(@)]
          IN IF c \in Local
             THEN /\ m' = map_fd_to_client(Watch(s, f, Sock(c)), f, Dummy)
                  /\ UNCHANGED <<inq, game, pout>>
             ELSE handle_new_connection([s EXCEPT !.file[f] = Sock(c)], f, c)

(* runserver's switch, case NEW_CONNECTION. *)
NewConnectionEvent ==
  /\ Handling /\ e.fd \in Fd /\ m.map[e.fd] = Dummy
  /\ UNCHANGED <<peer, full, pin>>
  /\ IF "closed" \in e.ev
     THEN m' = CloseFds(Served, {e.fd}) /\ UNCHANGED <<inq, game, pout>>
     ELSE IF "in" \in e.ev
     THEN handle_new_connection(Served, e.fd, m.file[e.fd].who)
     ELSE m' = Served /\ UNCHANGED <<inq, game, pout>>

NobodysEvent ==
  /\ Handling /\ e.fd \in Fd /\ m.map[e.fd] = None
  /\ m' = Popped /\ UNCHANGED <<peer, inq, full, game, pout, pin>>

(* The descriptor is mapped to memory that was freed; what malloc left there
   reads as no state, or as NEW_CONNECTION (and whatever is sent is no login). *)
FreedEvent ==
  /\ Handling /\ e.fd \in Fd /\ m.map[e.fd] \in Addr \ m.alive
  /\ \/ m' = Served
     \/ e.ev \cap {"closed", "in"} # {} /\ m' = CloseFds(Served, {e.fd})
  /\ UNCHANGED <<peer, inq, full, game, pout, pin>>

Belongs(state) ==
  /\ Handling /\ e.fd \in Fd /\ m.map[e.fd] \in m.alive
  /\ m.client[m.map[e.fd]].state = state

(* runserver's switch, case CLIENT_DISCONNECTED. *)
DisconnectedEvent ==
  /\ Belongs("disconnected")
  /\ IF "closed" \in e.ev
     THEN m' = cleanup_game_process(Served, m.map[e.fd]) /\ UNCHANGED pin
     ELSE /\ m' = Served
          /\ pin' = IF "in" \in e.ev /\ m.file[e.fd].t = "in"
                    THEN [pin EXCEPT ![m.file[e.fd].who] = 0] ELSE pin
  /\ UNCHANGED <<peer, inq, full, game, pout>>

(* handle_communication.  a is the client, c his data, p his game. *)

FlushTail(s, a) ==
  IF s.client[a].pipe_in # NoFd /\ Mask(s, s.client[a].pipe_in) # {}
  THEN Notify(s, {s.file[s.client[a].pipe_in]}) ELSE s

(* All of it is sent, or EAGAIN leaves a tail; on any other error it stays. *)
SendTail(s, a) ==
  LET c == s.file[s.client[a].sock].who IN
  LET alive == peer[c] = "open" /\ c \notin s.shut IN
  \/ alive /\ c \notin full /\ m' = FlushTail([s EXCEPT !.client[a].unsent = None], a)
           /\ UNCHANGED full
  \/ alive /\ m' = FlushTail(s, a) /\ full' = full \cup {c}
  \/ ~alive /\ m' = FlushTail([s EXCEPT !.shut = @ \cup {c}], a) /\ UNCHANGED full

(* Mutant: a client whose game is ending is put on the list of waiting games. *)
SockClosed_waits(a) ==
  LET c == m.client[a]
      s == [CloseFds(Served, {c.sock}) EXCEPT !.map[c.sock] = None,
              !.client[a].sock = NoFd, !.client[a].unsent = None, !.client[a].state = "disconnected"]
  IN /\ m' = link_client_data(unlink_client_data(s, a), a, "disconnected")
     /\ UNCHANGED <<inq, full, pout>>

SockClosed(a) ==
  LET c == m.client[a]
      s == [CloseFds(Served, {c.sock}) EXCEPT
              !.map[c.sock] = None, !.client[a].sock = NoFd, !.client[a].unsent = None]
      gone == cleanup_game_process([s EXCEPT !.client[a].pid = NoPid], a)
  IN /\ m' = IF c.pipe_in # NoFd /\ c.pipe_out # NoFd
             THEN link_client_data(unlink_client_data(
                    [s EXCEPT !.client[a].state = "disconnected"], a), a, "disconnected")
             ELSE gone
     /\ UNCHANGED <<inq, full, pout>>

(* The loop ends well only when its last read was short of a full buffer. *)
SockData(a) ==
  LET c == m.client[a]
      w == m.file[c.sock].who
      p == m.file[c.pipe_out].who
      moves == /\ inq[w] % Buf # 0
               /\ c.pipe_out # NoFd /\ game[p] = "running" /\ pout[p] + inq[w] <= PipeCap
  IN /\ inq' = [inq EXCEPT ![w] = 0]
     /\ IF moves
        THEN /\ pout' = [pout EXCEPT ![p] = @ + inq[w]]
             /\ IF "out" \in e.ev /\ c.unsent # None
                THEN SendTail(Served, a) ELSE m' = Served /\ UNCHANGED full
        ELSE /\ m' = cleanup_game_process(Served, a)
             /\ UNCHANGED <<pout, full>>

(* Mutant: data is looked at before the hang-up. *)
SockEvent_dataFirst ==
  /\ Belongs("connected")
  /\ LET a == m.map[e.fd] IN
       /\ e.fd = m.client[a].sock
       /\ IF "in" \in e.ev THEN SockData(a)
          ELSE IF "closed" \in e.ev THEN SockClosed(a)
          ELSE /\ UNCHANGED <<inq, pout>>
               /\ IF "out" \in e.ev /\ m.client[a].unsent # None
                  THEN SendTail(Served, a) ELSE m' = Served /\ UNCHANGED full
  /\ UNCHANGED <<peer, game, pin>>

SockEvent ==
  /\ Belongs("connected")
  /\ LET a == m.map[e.fd] IN
       /\ e.fd = m.client[a].sock
       /\ IF "closed" \in e.ev THEN SockClosed(a)
          ELSE IF "in" \in e.ev THEN SockData(a)
          ELSE /\ UNCHANGED <<inq, pout>>
               /\ IF "out" \in e.ev /\ m.client[a].unsent # None
                  THEN SendTail(Served, a) ELSE m' = Served /\ UNCHANGED full
  /\ UNCHANGED <<peer, game, pin>>

(* Data from the game: everything goes out, or the socket takes part of one
   buffer and the rest of it waits in unsent_data, or the peer is gone. *)
PipeInData(a) ==
  LET c == m.client[a]
      w == m.file[c.sock].who
      p == m.file[c.pipe_in].who
      least(x) == IF x < Buf THEN x ELSE Buf
  IN IF c.unsent # None \/ pin[p] = 0
     THEN m' = Served /\ UNCHANGED <<pin, full>>
     ELSE \/ /\ w \notin full /\ peer[w] = "open" /\ w \notin m.shut
             /\ pin' = [pin EXCEPT ![p] = 0]
             /\ m' = Served /\ UNCHANGED full
          \/ \E n \in {k \in 1..pin[p] : k = pin[p] \/ k % Buf = 0} :
               /\ w \in full => n <= Buf
               /\ peer[w] = "open" /\ w \notin m.shut
               /\ pin' = [pin EXCEPT ![p] = @ - n]
               /\ m' = [Served EXCEPT !.client[a].unsent = w]
               /\ full' = full \cup {w}
          \/ /\ peer[w] = "gone" \/ w \in m.shut
             /\ pin' = [pin EXCEPT ![p] = @ - least(@)]
             /\ m' = [Served EXCEPT !.shut = @ \cup {w}] /\ UNCHANGED full

PipeEvent ==
  /\ Belongs("connected")
  /\ LET a == m.map[e.fd] IN
       /\ e.fd \in {m.client[a].pipe_in, m.client[a].pipe_out}
       /\ IF "closed" \in e.ev THEN m' = close_client_pipe(Served, a) /\ UNCHANGED <<pin, full>>
          ELSE IF e.fd = m.client[a].pipe_in THEN PipeInData(a)
          ELSE m' = Served /\ UNCHANGED <<pin, full>>
  /\ UNCHANGED <<peer, inq, game, pout>>

(* A descriptor that is none of its client's three: nothing happens. *)
StrayEvent ==
  /\ Belongs("connected") /\ e.fd \notin OpenFds(m.client[m.map[e.fd]])
  /\ m' = Served /\ UNCHANGED <<peer, inq, full, game, pout, pin>>

----------------------------------------------------------------------------
(* The loop around it. *)

(* epoll_wait: the ready files, oldest first, each with its state of now. *)
Wait ==
  /\ Idle /\ m.termination_flag # 1
  /\ LET live == SelectSeq(m.ready, LAMBDA f : Mask(m, f) # {})
     IN /\ m.ready # <<>>
        /\ m' = [m EXCEPT !.ready = <<>>,
                   !.batch = [i \in 1..Len(live) |->
                      [fd |-> live[i], ev |-> Mask(m, live[i]),
                       file |-> IF live[i] \in Fd THEN m.file[live[i]] ELSE Closed]]]
  /\ UNCHANGED <<peer, inq, full, game, pout, pin>>

(* goto finally *)
finally == [m EXCEPT !.batch = <<>>, !.check = FALSE, !.quit = TRUE]

signal_quit ==
  /\ m.up /\ m.termination_flag = 0
  /\ m' = [m EXCEPT !.termination_flag = 1]
  /\ UNCHANGED <<peer, inq, full, game, pout, pin>>

(* At the top of the loop, or when the signal interrupted epoll_wait; only the
   latter ends a server without clients at once. *)
trigger_server_shutdown ==
  /\ Idle /\ m.termination_flag = 1
  /\ \/ m' = [m EXCEPT !.termination_flag = 2, !.backlog = [l \in Listener |-> <<>>],
                       !.ready = SelectSeq(@, LAMBDA f : f \in Fd)]
     \/ m.count = 0 /\ m' = finally
  /\ UNCHANGED <<peer, inq, full, game, pout, pin>>

(* After an event of a client: without any client the server need not wait. *)
Check ==
  /\ m.up /\ ~m.quit /\ m.check
  /\ m' = IF m.count = 0 THEN finally ELSE [m EXCEPT !.check = FALSE]
  /\ UNCHANGED <<peer, inq, full, game, pout, pin>>

(* Mutant: the timer only ends a server without clients. *)
ShutdownTimeout_empty ==
  /\ Idle /\ m.termination_flag = 2 /\ m.count = 0
  /\ \A i \in 1..Len(m.ready) : Mask(m, m.ready[i]) = {}
  /\ m' = finally
  /\ UNCHANGED <<peer, inq, full, game, pout, pin>>

(* The 5 seconds are over and epoll_wait has nothing to report. *)
ShutdownTimeout ==
  /\ Idle /\ m.termination_flag = 2
  /\ \A i \in 1..Len(m.ready) : Mask(m, m.ready[i]) = {}
  /\ m' = finally
  /\ UNCHANGED <<peer, inq, full, game, pout, pin>>

(* At finally: all games are told to end, one after the other ... *)
CleanUp ==
  /\ m.up /\ m.quit
  /\ IF m.disconnected # <<>> THEN m' = cleanup_game_process(m, Head(m.disconnected))
     ELSE m.connected # <<>> /\ m' = cleanup_game_process(m, Head(m.connected))
  /\ UNCHANGED <<peer, inq, full, game, pout, pin>>

(* ... and everything is closed. *)
Shut ==
  /\ m.up /\ m.quit /\ m.disconnected = <<>> /\ m.connected = <<>>
  /\ m' = [m EXCEPT !.up = FALSE, !.file = [f \in Fd |-> Closed], !.watched = {}, !.ready = <<>>,
                    !.backlog = [l \in Listener |-> <<>>]]
  /\ UNCHANGED <<peer, inq, full, game, pout, pin>>

Master ==
  \/ Accept \/ NewConnectionEvent \/ NobodysEvent \/ FreedEvent \/ DisconnectedEvent
  \/ SockEvent \/ PipeEvent \/ StrayEvent
  \/ Wait \/ trigger_server_shutdown \/ Check \/ CleanUp \/ Shut

----------------------------------------------------------------------------
(* Clients and games. *)

Connect(c) ==
  /\ peer[c] = "new" /\ m.up /\ m.termination_flag < 2
  /\ peer' = [peer EXCEPT ![c] = "open"]
  /\ LET l == IF c \in Local THEN Unix ELSE Tcp
         r == IF \E i \in 1..Len(m.ready) : m.ready[i] = l THEN m.ready ELSE Append(m.ready, l)
     IN m' = [m EXCEPT !.backlog[l] = Append(@, c), !.ready = r]
  /\ UNCHANGED <<inq, full, game, pout, pin>>

(* A Local client sends its auth data after it was accepted. *)
Login(c) ==
  /\ peer[c] = "open" /\ inq[c] = 0
  /\ \E f \in FdsOf(m, Sock(c)) : m.map[f] = Dummy
  /\ inq' = [inq EXCEPT ![c] = 1]
  /\ m' = Notify(m, {Sock(c)})
  /\ UNCHANGED <<peer, full, game, pout, pin>>

Send(c, n) ==
  /\ peer[c] = "open" /\ c \notin m.shut
  /\ \E f \in FdsOf(m, Sock(c)) : m.map[f] \in Addr
  /\ inq[c] = 0
  /\ inq' = [inq EXCEPT ![c] = n]
  /\ m' = Notify(m, {Sock(c)})
  /\ UNCHANGED <<peer, full, game, pout, pin>>

HangUp(c) ==
  /\ peer[c] = "open"
  /\ peer' = [peer EXCEPT ![c] = "gone"]
  /\ m' = Notify(m, {Sock(c)})
  /\ UNCHANGED <<inq, full, game, pout, pin>>

Drain(c) ==
  /\ c \in full
  /\ full' = full \ {c}
  /\ m' = Notify(m, {Sock(c)})
  /\ UNCHANGED <<peer, inq, game, pout, pin>>

(* The game reads its input and answers with n units. *)
Reply(p, n) ==
  /\ game[p] = "running" /\ pout[p] > 0 /\ pin[p] + n <= PipeCap
  /\ pout' = [pout EXCEPT ![p] = 0]
  /\ pin' = [pin EXCEPT ![p] = @ + n]
  /\ m' = Notify(m, {In(p)})
  /\ UNCHANGED <<peer, inq, full, game>>

(* exit_client, for whatever reason: inactivity, a lost pipe, a signal, an
   error.  If it is the game's turn to send, a last Reply goes before.  It
   closes its input, then its output. *)
Exit(p) ==
  /\ game[p] = "running"
  /\ game' = [game EXCEPT ![p] = "exiting"]
  /\ m' = Notify(m, {Out(p)})
  /\ pout' = [pout EXCEPT ![p] = 0]
  /\ UNCHANGED <<peer, inq, full, pin>>

Die(p) ==
  /\ game[p] = "exiting"
  /\ game' = [game EXCEPT ![p] = "dead"]
  /\ m' = Notify(m, {In(p)})
  /\ UNCHANGED <<peer, inq, full, pout, pin>>

ServerInit ==
  /\ m = [file |-> [f \in Fd |-> Closed], watched |-> {}, ready |-> <<>>, batch |-> <<>>,
          backlog |-> [l \in Listener |-> <<>>],
          map |-> [f \in Fd |-> None], alive |-> {},
          client |-> [a \in Addr |-> [state |-> "connected", pid |-> NoPid, userid |-> None,
                                      connid |-> 0, sock |-> NoFd, pipe_out |-> NoFd,
                                      pipe_in |-> NoFd, unsent |-> None]],
          connected |-> <<>>, disconnected |-> <<>>, count |-> 0, connection_id |-> 1,
          termination_flag |-> 0, up |-> TRUE, quit |-> FALSE, check |-> FALSE, sigterm |-> {}, shut |-> {}]
  /\ peer = [c \in Conn |-> "new"] /\ inq = [c \in Conn |-> 0] /\ full = {}
  /\ game = [p \in Pid |-> "none"] /\ pout = [p \in Pid |-> 0] /\ pin = [p \in Pid |-> 0]

World ==
  \/ \E c \in Conn : Connect(c) \/ Login(c) \/ HangUp(c)
  \/ \E p \in Pid : Exit(p) \/ Die(p)

Traffic ==
  \/ \E c \in Conn : Drain(c) \/ \E n \in Sizes : Send(c, n)
  \/ \E p \in Pid, n \in Sizes : Reply(p, n)

(* Clients that log in and out, and say nothing between; and all of it. *)
QuietNext == Master \/ ShutdownTimeout \/ signal_quit \/ World
QuietSpec == ServerInit /\ [][QuietNext]_serverVars

ServerNext == QuietNext \/ Traffic
ServerSpec == ServerInit /\ [][ServerNext]_serverVars

(* Mutant: exit_client closes the pipes and does not get to exit(). *)
MustExit_stays(p) == Exit(p) /\ (p \in m.sigterm \/ FdsOf(m, Out(p)) = {})

(* A game that was told to go, or whose input ended, goes. *)
MustExit(p) == (Exit(p) /\ (p \in m.sigterm \/ FdsOf(m, Out(p)) = {})) \/ Die(p)

----------------------------------------------------------------------------
(* Properties. *)

Listed == Range(m.connected) \cup Range(m.disconnected)

(* Every client_data is on one list, the one of its state, once, and
   client_count counts them: the server stops when it is 0. *)
ListsRight ==
  /\ m.count = Len(m.connected) + Len(m.disconnected)
  /\ IsInjective(m.connected) /\ IsInjective(m.disconnected)
  /\ Listed = m.alive
  /\ \A a \in m.alive : m.client[a].state = "connected" <=> a \in Range(m.connected)

(* The descriptors in a client_data are open, of the right kind, mapped to it
   and watched, and no two clients share one. *)
OwnsFds ==
  \A a \in m.alive :
    LET c == m.client[a] IN
    /\ \A f \in OpenFds(c) : m.map[f] = a /\ f \in m.watched
    /\ c.sock # NoFd => m.file[c.sock].t = "sock" /\ User[m.file[c.sock].who] = c.userid
    /\ c.pipe_in # NoFd => m.file[c.pipe_in] = In(c.pid)
    /\ c.pipe_out # NoFd => m.file[c.pipe_out] = Out(c.pid)

(* "in these client_data structures, sockfd will be -1, but everything else is
   valid": a game that waits for its owner has its pipes and no leftover data. *)
WaitsWhole ==
  \A a \in Range(m.disconnected) :
    LET c == m.client[a] IN
    c.sock = NoFd /\ c.pipe_in # NoFd /\ c.pipe_out # NoFd /\ c.pid \in Pid /\ c.unsent = None

(* No game runs on that nobody can reach: a running game is on a list, or was
   sent SIGTERM, or reads the end of its input. *)
NoOrphan ==
  \A p \in Pid : game[p] = "running" =>
    \/ \E a \in Listed : m.client[a].pid = p
    \/ p \in m.sigterm
    \/ FdsOf(m, Out(p)) = {}

(* When the server has shut down, all games end. *)
GamesEnd == ~m.up ~> \A p \in Pid : game[p] \in {"none", "dead"}

(* SIGTERM ends the server once the clients are quiet: the five seconds are
   only looked at when epoll_wait has nothing to report, so whoever talks, or
   reads what his socket could not take, puts the end off. *)
Busy == \E c \in Conn : Drain(c) \/ \E n \in Sizes : Send(c, n)
QuietShutdownEnds == <>[][~Busy]_serverVars => (m.termination_flag = 1 ~> ~m.up)

(* A connection that is gone is noticed: its game stops using it. *)
HangUpNoticed ==
  \A c \in Conn : peer[c] = "gone" ~> ~\E a \in m.alive : m.client[a].sock \in FdsOf(m, Sock(c))

----------------------------------------------------------------------------
(* What a comment of server.c promises and the code does not keep. *)

(* "was this fd closed while handling a prior event?": an event reported for a
   file that was closed since changes no client. *)
StaleIgnored ==
  [][m.batch # <<>> /\ m.batch' = Tail(m.batch) /\ e.fd \in Fd /\ m.file[e.fd] # e.file
       => m.client' = m.client /\ m.alive' = m.alive]_serverVars
=============================================================================
