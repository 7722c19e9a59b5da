----------------------------- MODULE NetSession -----------------------------
(***************************************************************************)
(* A player's commands over the network: send_receive_msg of the client    *)
(* library (libnitrohack_client/src/connection.c), which reconnects and    *)
(* sends again when no answer comes, the server's master process in        *)
(* between, and the command loop of the game process (nitrohack_server's   *)
(* clientmain.c, and client_request of winprocs.c for the questions a      *)
(* command asks).  The master is reduced to what Server shows it to do     *)
(* with data: it forwards it between the game and the socket that was      *)
(* authenticated last.                                                     *)
(*                                                                         *)
(* One message is one JSON object and arrives whole.  The numbers on the   *)
(* messages are not in the protocol; they say which command of the player  *)
(* a message belongs to.                                                   *)
(***************************************************************************)
EXTENDS Naturals, Sequences

CONSTANTS
  MaxCmds,      \* bound: commands the player gives
  Asking,       \* the commands that ask the player a question
  Retries,      \* retry_count of send_receive_msg (3)
  MaxFaults     \* bound: lost connections, late answers, idle exits

ASSUME SessionAssumption ==
  /\ MaxCmds \in Nat /\ Retries \in Nat /\ MaxFaults \in Nat
  /\ Asking \subseteq 1..MaxCmds

VARIABLES
  pc,        \* client: "idle", "waiting" for an answer, "failed"
  n,         \* client: number of the current command
  msg,       \* client: what send_receive_msg sent last
  retry,     \* client: retry_count
  net,       \* the connection: "up", "cut" (silently), "closed"
  up, down,  \* data on the connection, either way
  link,      \* whether the master has the connection attached to the game
  inp, out,  \* the pipes to and from the game
  gproc,     \* game process: "none", "top" (command loop), "ask" (a question)
  gcmd,      \* the command the game is executing or has executed last
  buf,       \* read_input's buffer
  runs,      \* how often each command was begun
  answer,    \* which command's answer each command got, or 0
  faults,
  calm       \* no connection broke, no answer was late while a command ran
client  == <<pc, n, msg, retry, answer>>
wire    == <<net, up, down>>
process == <<gproc, gcmd, buf, runs>>
sessionVars == <<client, wire, link, inp, out, process, faults, calm>>

Cmd  == 1..MaxCmds
Esc  == [k |-> "esc", n |-> 0]
Msg  == [k : {"cmd", "ans", "res", "ask", "error", "retry", "esc"}, n : 0..MaxCmds]
M(kind, i) == [k |-> kind, n |-> i]

SessionTypeOK ==
  /\ pc \in {"idle", "waiting", "failed"} /\ n \in 0..MaxCmds
  /\ msg \in Msg /\ retry \in 0..Retries
  /\ net \in {"up", "cut", "closed"} /\ up \in Seq(Msg) /\ down \in Seq(Msg)
  /\ link \in BOOLEAN /\ inp \in Seq(Msg) /\ out \in Seq(Msg)
  /\ gproc \in {"none", "top", "ask"} /\ gcmd \in 0..MaxCmds /\ buf \in Seq(Msg)
  /\ runs \in [Cmd -> Nat] /\ answer \in [Cmd -> 0..MaxCmds] /\ faults \in 0..MaxFaults
  /\ calm \in BOOLEAN

----------------------------------------------------------------------------
(* The client library. *)

(* send() succeeds whatever has become of the connection. *)
SendMsg(x) == up' = IF net = "up" THEN Append(up, x) ELSE up

(* Mutant: what is sent again is the message before. *)
Issue_keepsMsg ==
  /\ pc = "idle" /\ n < MaxCmds
  /\ n' = n + 1 /\ retry' = Retries /\ pc' = "waiting"
  /\ msg' = IF n = 0 THEN M("cmd", 1) ELSE msg
  /\ SendMsg(M("cmd", n + 1))
  /\ UNCHANGED <<answer, net, down, link, inp, out, process, faults, calm>>

(* A command of the player; the numbers are the order they are given in. *)
Issue ==
  /\ pc = "idle" /\ n < MaxCmds
  /\ n' = n + 1 /\ msg' = M("cmd", n + 1) /\ retry' = Retries /\ pc' = "waiting"
  /\ SendMsg(msg')
  /\ UNCHANGED <<answer, net, down, link, inp, out, process, faults, calm>>

(* receive_json_msg got a whole object that answers the request... *)
Answer ==
  /\ pc = "waiting" /\ down # <<>> /\ Head(down).k = "res"
  /\ down' = Tail(down)
  /\ answer' = [answer EXCEPT ![n] = Head(down).n]
  /\ pc' = "idle"
  /\ UNCHANGED <<n, msg, retry, net, up, link, inp, out, process, faults, calm>>

(* ... or more than one, "Broken response": the call returns an empty object... *)
Broken ==
  /\ pc = "waiting" /\ pc' = "idle"
  /\ \E j \in 2..Len(down) : down' = SubSeq(down, j + 1, Len(down))
  /\ UNCHANGED <<n, msg, retry, answer, net, up, link, inp, out, process, faults, calm>>

(* ... or asks something, which the player is asked and answers. *)
Question ==
  /\ pc = "waiting" /\ down # <<>> /\ Head(down).k = "ask"
  /\ down' = Tail(down)
  /\ msg' = M("ans", Head(down).n)
  /\ SendMsg(msg')
  /\ UNCHANGED <<pc, n, retry, answer, net, link, inp, out, process, faults, calm>>

(* restart_connection, "times" times: the old socket is closed; the master
   attaches the new one to the game that runs, and tells it to reset its
   buffer, or starts a new process, in which the client restores its game.
   What was on the way on the old connection is lost. *)
Rejoin(times) ==
  /\ net' = "up" /\ down' = <<>> /\ link' = TRUE
  /\ IF gproc # "none"
     THEN /\ inp' = inp \o [i \in 1..times |-> Esc]
          /\ UNCHANGED <<gproc, gcmd, buf, out>>
     ELSE /\ inp' = [i \in 1..(times - 1) |-> Esc]
          /\ out' = <<>> /\ buf' = <<>> /\ gproc' = "top" /\ UNCHANGED gcmd

Unreachable(then) ==
  /\ pc' = then /\ net' = "closed" /\ up' = <<>> /\ down' = <<>>
  /\ UNCHANGED <<n, msg, answer, link, inp, out, process>>

(* Mutant: the retries are not counted. *)
Again_forever(times) ==
  /\ retry > 0 /\ UNCHANGED retry
  /\ Rejoin(times) /\ up' = <<msg>>
  /\ UNCHANGED <<pc, n, msg, answer, runs>>

(* Reconnect and send once more what was sent last. *)
Again(times) ==
  /\ retry > 0 /\ retry' = retry - 1
  /\ Rejoin(times) /\ up' = <<msg>>
  /\ UNCHANGED <<pc, n, msg, answer, runs>>

(* There is no use in waiting longer. *)
NothingComes == net # "up" \/ (up = <<>> /\ inp = <<>> /\ out = <<>>)

(* Mutant: it is not waited for the answer. *)
Timeout_impatient ==
  /\ pc = "waiting" /\ down = <<>>
  /\ UNCHANGED <<faults, calm>>
  /\ Again(1) \/ (Unreachable("failed") /\ UNCHANGED retry)

(* No data: the connection has ended, or ten seconds went by without an answer,
   because there will be none or because it takes long. *)
Timeout ==
  /\ pc = "waiting" /\ down = <<>>
  /\ \/ NothingComes /\ UNCHANGED <<faults, calm>>
     \/ net = "up" /\ faults < MaxFaults /\ faults' = faults + 1 /\ calm' = FALSE
  /\ Again(1) \/ (Unreachable("failed") /\ UNCHANGED retry)

(* server_error: cmd_server_error reconnects.  If the server does not blame the
   client, send_receive_msg does so a second time and repeats its message. *)
ServerError ==
  /\ pc = "waiting" /\ down # <<>> /\ Head(down).k \in {"error", "retry"}
  /\ \/ Unreachable("failed") /\ UNCHANGED retry
     \/ /\ Head(down).k = "error" \/ retry = 0
        /\ Rejoin(1) /\ up' = <<>> /\ pc' = "idle"
        /\ UNCHANGED <<n, msg, retry, answer, runs>>
     \/ Head(down).k = "retry" /\ Again(2)
     \/ /\ Head(down).k = "retry" /\ retry > 0 /\ retry' = retry - 1
        /\ Unreachable("idle")
  /\ UNCHANGED <<faults, calm>>

----------------------------------------------------------------------------
(* The master. *)

ToGame ==
  /\ link /\ up # <<>> /\ gproc # "none"
  /\ inp' = Append(inp, Head(up)) /\ up' = Tail(up)
  /\ UNCHANGED <<client, net, down, link, out, process, faults, calm>>

ToClient ==
  /\ out # <<>>
  /\ out' = Tail(out)
  /\ down' = IF link /\ net = "up" THEN Append(down, Head(out)) ELSE down
  /\ UNCHANGED <<client, net, up, link, inp, process, faults, calm>>

(* The connection breaks; what is on the way may get through.  The server may
   learn of it, or go on believing in the connection. *)
Cut ==
  /\ net = "up" /\ faults < MaxFaults /\ faults' = faults + 1
  /\ calm' = (calm /\ pc = "idle" /\ out = <<>> /\ down = <<>>)
  /\ net' = "cut" /\ up' \in {up, <<>>} /\ down' \in {down, <<>>}
  /\ UNCHANGED <<client, link, inp, out, process>>

HangUpSeen ==
  /\ link /\ net # "up" /\ up = <<>>
  /\ link' = FALSE
  /\ UNCHANGED <<client, wire, inp, out, process, faults, calm>>

----------------------------------------------------------------------------
(* The game process. *)

(* exit_client: a last message if it is the game's turn, the pipes are closed,
   the game is saved.  The master then closes the socket; it may do so before
   it has read the last message. *)
ExitClient(last) ==
  /\ gproc' = "none" /\ buf' = <<>> /\ inp' = <<>> /\ out' = <<>> /\ up' = <<>>
  /\ link' = FALSE
  /\ net' = IF link /\ net = "up" THEN "closed" ELSE net
  /\ down' \in IF link /\ net = "up" THEN {down \o out \o last, down \o out, down} ELSE {down}

(* A whole message was read: execute the command, up to its first question. *)
Begin(i) ==
  /\ runs' = [runs EXCEPT ![i] = @ + 1]
  /\ gcmd' = i
  /\ IF i \in Asking THEN gproc' = "ask" /\ out' = Append(out, M("ask", i))
     ELSE gproc' = "top" /\ out' = Append(out, M("res", i))

Handle(x) ==
  \/ /\ gproc = "top" /\ x.k = "cmd"
     /\ Begin(x.n) /\ inp' = <<>> /\ buf' = <<>> /\ UNCHANGED <<wire, link>>
  \/ /\ gproc = "ask" /\ x.k = "ans"
     /\ gproc' = "top" /\ out' = Append(out, M("res", gcmd))
     /\ inp' = <<>> /\ buf' = <<>>
     /\ UNCHANGED <<gcmd, runs, wire, link>>
  \/ /\ gproc = "ask" /\ x.k = "cmd"          \* "exit without an error status"
     /\ ExitClient(<<M("retry", 0)>>) /\ UNCHANGED <<gcmd, runs>>
  \/ /\ gproc = "top" /\ x.k = "ans"          \* "Unknown command"
     /\ ExitClient(<<M("error", 0)>>) /\ UNCHANGED <<gcmd, runs>>

(* One read() of read_input, of whatever has arrived.  After an escape at its
   start the loop goes on to the next read without looking at the rest. *)
Read ==
  /\ gproc # "none" /\ inp # <<>>
  /\ UNCHANGED <<client, faults, calm>>
  /\ LET data == buf \o inp IN
     \/ /\ Head(inp) = Esc
        /\ inp' = <<>> /\ buf' = Tail(inp)
        /\ UNCHANGED <<wire, link, out, gproc, gcmd, runs>>
     \/ Head(inp) # Esc /\ Len(data) = 1 /\ Handle(data[1])
     \/ /\ Head(inp) # Esc /\ Len(data) > 1                 \* "Bad JSON data received"
        /\ ExitClient(<<>>) /\ UNCHANGED <<gcmd, runs>>

(* "Inactivity timeout" of a game nobody talks to. *)
Inactive ==
  /\ gproc # "none" /\ inp = <<>> /\ pc = "idle" /\ out = <<>> /\ down = <<>> /\ up = <<>>
  /\ faults < MaxFaults /\ faults' = faults + 1
  /\ ExitClient(<<>>)
  /\ UNCHANGED <<client, gcmd, runs, calm>>

----------------------------------------------------------------------------
SessionInit ==
  /\ pc = "idle" /\ n = 0 /\ msg = M("cmd", 0) /\ retry = 0
  /\ net = "up" /\ up = <<>> /\ down = <<>> /\ link = TRUE
  /\ inp = <<>> /\ out = <<>> /\ buf = <<>> /\ gproc = "top" /\ gcmd = 0
  /\ runs = [i \in Cmd |-> 0] /\ answer = [i \in Cmd |-> 0] /\ faults = 0 /\ calm = TRUE

Client == Answer \/ Broken \/ Question \/ Timeout \/ ServerError
Relay == ToGame \/ ToClient \/ HangUpSeen
SessionNext == Issue \/ Client \/ Relay \/ Cut \/ Read \/ Inactive

SessionSpec == SessionInit /\ [][SessionNext]_sessionVars

----------------------------------------------------------------------------
(* Properties. *)

(* Commands are executed in the order they were given; a command sent again
   never comes after a later one. *)
OrderKept == [][gcmd' >= gcmd]_sessionVars

(* send_receive_msg returns, with an answer or with an error. *)
CallEnds == pc = "waiting" ~> pc # "waiting"

(* "Presumably the send didn't succeed either and the sent data vanished, so
   reconnect and retry": no command is executed twice. *)
ExecutedOnce == \A i \in Cmd : runs[i] <= 1

(* As long as faults happen only between commands that holds, and what a
   command gets is its own answer ("finally return the response to the
   command"): the command was executed, once. *)
OnceWhenCalm ==
  calm => ExecutedOnce /\ \A i \in Cmd : answer[i] # 0 => answer[i] = i /\ runs[i] = 1
=============================================================================
